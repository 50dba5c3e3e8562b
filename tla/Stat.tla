---------------------------------- MODULE Stat ----------------------------------
(***************************************************************************)
(* What connmon knows (connmon/stat.py): a table of programs and one of    *)
(* hosts, filled from the external values that collectd's connmon plugin   *)
(* forwards, and swept every half second.  Both tasks run on one event     *)
(* loop, so that each is one step between two awaits.                      *)
(*                                                                         *)
(* A host reports what it knows of its programs at each interval of its    *)
(* collectd; of the programs, "host" stands for all of them together.  A   *)
(* total is a sum over the processes that report (receiver.py 99-127): it  *)
(* falls when one of them ends.  The datagrams are delayed, reordered and  *)
(* lost (a program that stops is one whose datagrams are lost from then    *)
(* on).  A rate is the pair of the growth, which may be negative, and the  *)
(* span it was computed from.                                              *)
(***************************************************************************)
EXTENDS Message, FiniteSets, Functions

CONSTANTS
  Host,
  Metrics,      \* what there may be to report: sets of pairs of a program and a metric
  Interval,     \* collectd's interval, in half seconds
  MinGap, MaxGap, \* half seconds between two reports of a host
  MaxDelay,     \* half seconds a datagram may be under way
  Counts,       \* the values a count may have
  MaxTotal,     \* bound of the totals
  Start         \* the half second at which connmon starts

ASSUME StatAssumption ==
  /\ {Interval, MaxGap, MaxDelay, MaxTotal} \cup Counts \subseteq Nat /\ MinGap \in Nat \ {0}
  /\ Start \in Nat \ {0, 1}     \* a time of no whole second is none to the code

\* What is forwarded has names, which collectd's plugin could encode.
ASSUME NameAssumption ==
  /\ Host \subseteq STRING /\ UNION Metrics \subseteq STRING \X STRING
  /\ None \notin Int /\ None \notin STRING
  /\ NonAscii \cap (Host \cup UNION {{metric[1], metric[2]} : metric \in UNION Metrics}) = {}
  /\ NonAscii \cap {"sqlalchemy", "count", "derive"} = {}

VARIABLES
  metrics,      \* what a host has to report, one of Metrics
  now,          \* connmon's clock
  swept,        \* has the sweep of this half second been done
  lastSent,     \* when each host reported last; 0 before it did
  total,        \* the checkouts, and the connects, of the processes of each host
  fell,         \* history: when a total of each host's was less than the one before; 0: never
  network,      \* the datagrams under way, with the time they were sent and fell at last
  lost,         \* history: what of each host was lost or set back since its last report
  hostprogs,    \* Stat.hostprogs
  hosts,        \* Stat.hosts
  stats,        \* the other attributes of Stat
  latest        \* history: the latest time and the counts received of each program

sourceVars == <<lastSent, total, fell>>
tableVars == <<hostprogs, hosts>>
statVars == <<metrics, now, swept, sourceVars, network, lost, tableVars, stats, latest>>

Gauges == {"numprocs", "checkedout", "connections"}

NewHostProg ==
  [last_time |-> 0, interval |-> 0,
   count |-> [g \in Gauges |-> None], max |-> [g \in Gauges |-> 0],
   total_connects |-> None, interval_connects |-> None,
   total_checkouts |-> None, interval_checkouts |-> None,
   last_total_checkout_time |-> None, checkouts_per_second |-> None]

StatInit ==
  /\ metrics \in Metrics
  /\ now = Start
  /\ swept = FALSE
  /\ lastSent = [h \in Host |-> 0]
  /\ total = [h \in Host |-> 0]
  /\ fell = [h \in Host |-> 0]
  /\ network = {}
  /\ lost = [h \in Host |-> {}]
  /\ hostprogs = <<>>
  /\ hosts = <<>>
  /\ stats = [host_count |-> 0, count |-> [g \in Gauges |-> 0], rates |-> {},
              max_host_count |-> 0, max |-> [g \in Gauges |-> 0]]
  /\ latest = <<>>

-----------------------------------------------------------------------------
Overdue(h) == lastSent[h] > 0 /\ now - lastSent[h] >= MaxGap

Tick ==
  /\ swept
  /\ \A h \in Host : ~Overdue(h)
  /\ \A m \in network : now - m.sent < MaxDelay
  /\ now' = now + 1
  /\ swept' = FALSE
  /\ UNCHANGED <<metrics, sourceVars, network, lost, tableVars, stats, latest>>

\* A value that the host's collectd dispatches, which its connmon plugin forwards
\* in a datagram.
Reported(h, metric, count) ==
  LET derived == metric[2] \in {"checkouts", "connects"}
  IN  [type |-> IF derived THEN "derive" ELSE "count", type_instance |-> metric[2],
       plugin |-> "sqlalchemy", host |-> h, plugin_instance |-> metric[1],
       time |-> now, interval |-> Interval,
       values |-> <<IF derived THEN total'[h] ELSE count>>]

\* All, all but one, or none of what was reported.
Arriving == {metrics, {}} \cup {metrics \ {metric} : metric \in metrics}

Report(h) ==
  /\ ~swept
  /\ lastSent[h] = 0 \/ now - lastSent[h] >= MinGap
  /\ lastSent' = [lastSent EXCEPT ![h] = now]
  /\ \E sum \in 0..MaxTotal, count \in Counts, arriving \in Arriving :
       /\ total' = [total EXCEPT ![h] = sum]
       /\ fell' = [fell EXCEPT ![h] = IF sum < total[h] THEN now ELSE @]
       /\ network' = network \cup
            {[sent |-> now, fell |-> fell'[h], datagram |-> Pack(Reported(h, metric, count), external_types)] :
               metric \in arriving}
       /\ lost' = [lost EXCEPT ![h] = @ \cup (metrics \ arriving)]
  /\ UNCHANGED <<metrics, now, swept, tableVars, stats, latest>>

-----------------------------------------------------------------------------
Larger(m, n) == IF m < n THEN n ELSE m

\* Mutated: the count so far is compared, not the one received.
UpdateGauge_OldMax(hp, v) ==
  LET g == v.type_instance
  IN  [hp EXCEPT !.count[g] = v.values[1], !.max[g] = Larger(IF hp.count[g] = None THEN 0 ELSE hp.count[g], @)]

\* update_process_count, update_checkedout, update_connection_count
UpdateGauge(hp, v) ==
  LET g == v.type_instance
      value == v.values[1]
  IN  [hp EXCEPT !.count[g] = value, !.max[g] = Larger(value, @)]

UpdateTotalConnects(hp, v) ==
  [hp EXCEPT !.interval_connects = IF hp.total_connects = None THEN @ ELSE v.values[1] - hp.total_connects,
             !.total_connects = v.values[1]]

\* Mutated: a rate is computed over any span but none.
Rate_AnySpan(hp, v) ==
  LET span == v.time - hp.last_total_checkout_time
  IN  IF span # 0 /\ hp.total_checkouts > 0
        THEN <<v.values[1] - hp.total_checkouts, span>>
        ELSE hp.checkouts_per_second

Rate(hp, v) ==
  LET span == v.time - hp.last_total_checkout_time
  IN  IF span >= v.interval /\ hp.total_checkouts > 0
        THEN <<v.values[1] - hp.total_checkouts, span>>
        ELSE hp.checkouts_per_second

\* A division by the zero span of an interval below a second leaves
\* update_total_checkouts, and _update, after its first assignment.
Fails(hp, v) ==
  /\ v.type_instance = "checkouts"
  /\ hp.last_total_checkout_time # None
  /\ v.interval = 0 /\ v.time = hp.last_total_checkout_time /\ hp.total_checkouts > 0

UpdateTotalCheckouts(hp, v) ==
  LET again == hp.last_total_checkout_time # None
  IN  [hp EXCEPT !.interval_checkouts = IF again THEN v.values[1] - hp.total_checkouts ELSE @,
                 !.checkouts_per_second = IF again /\ ~Fails(hp, v) THEN Rate(hp, v) ELSE @,
                 !.total_checkouts = IF Fails(hp, v) THEN @ ELSE v.values[1],
                 !.last_total_checkout_time = IF Fails(hp, v) THEN @ ELSE v.time]

Updates == Gauges \cup {"connects", "checkouts"}

Updated(hp, v) ==
  CASE v.type_instance \in Gauges -> UpdateGauge(hp, v)
    [] v.type_instance = "connects" -> UpdateTotalConnects(hp, v)
    [] v.type_instance = "checkouts" -> UpdateTotalCheckouts(hp, v)
    [] OTHER -> hp

Touch(hp, v) ==
  IF v.type_instance \in Updates /\ ~Fails(hp, v)
    THEN [Updated(hp, v) EXCEPT !.interval = v.interval, !.last_time = v.time]
    ELSE Updated(hp, v)

\* The row of _get_hostprog, made if it is not there, and what the updater makes of it.
PutRow(table, key, v) ==
  LET hp == IF key \in DOMAIN table THEN table[key] ELSE NewHostProg
  IN  [k \in DOMAIN table \cup {key} |-> IF k = key THEN Touch(hp, v) ELSE table[k]]

Received(r, v, sent) ==
  LET before == IF r \in DOMAIN latest THEN latest[r] ELSE [sent |-> 0, count |-> [g \in Gauges |-> None]]
  IN  [k \in DOMAIN latest \cup {r} |->
         IF k = r THEN [sent |-> Larger(before.sent, sent),
                        count |-> [g \in Gauges |-> IF g = v.type_instance THEN v.values[1] ELSE before.count[g]]]
                  ELSE latest[k]]

\* What is reported of a program.
Reports(r) == {metric \in metrics : metric[1] = r[2]}

\* _update, of a datagram that unpacks.
Update(m) ==
  LET v == Unpack(m.datagram)
      r == <<v.host, v.plugin_instance>>
  IN  /\ IF v.plugin_instance \in {None, "host"}
           THEN hosts' = PutRow(hosts, v.host, v) /\ UNCHANGED hostprogs
           ELSE hostprogs' = PutRow(hostprogs, r, v) /\ UNCHANGED hosts
      /\ network' = network \ {m}
      /\ latest' = Received(r, v, m.sent)
      /\ lost' = [lost EXCEPT ![v.host] =
                    IF m.sent = lastSent[v.host] THEN @ \ {<<v.plugin_instance, v.type_instance>>}
                    ELSE IF m.sent < latest'[r].sent THEN @ \cup Reports(r)
                    ELSE @]
      /\ UNCHANGED <<metrics, now, swept, sourceVars, stats>>

-----------------------------------------------------------------------------
\* update_host_stats
HostStats ==
  LET count == [g \in Gauges |->
                  SumFunction([r \in {s \in DOMAIN hostprogs : hostprogs[s].count[g] # None} |->
                                 hostprogs[r].count[g]])]
      host_count == Cardinality({r[1] : r \in DOMAIN hostprogs})
  IN  [host_count |-> host_count,
       count |-> count,
       rates |-> {<<r, hostprogs[r].checkouts_per_second>> :
                    r \in {s \in DOMAIN hostprogs : hostprogs[s].checkouts_per_second # None}},
       max_host_count |-> Larger(stats.max_host_count, host_count),
       max |-> [g \in Gauges |-> Larger(stats.max[g], count[g])]]

Age(hp) == now - hp.last_time

KillProcesses(hp) ==
  [hp EXCEPT !.count = [g \in Gauges |-> 0], !.checkouts_per_second = <<0, 1>>]

\* Mutated: a program that went silent is kept.
Swept_NoDelete(table) ==
  [r \in DOMAIN table |-> IF Age(table[r]) > table[r].interval * 2 THEN KillProcesses(table[r]) ELSE table[r]]

\* Mutated: the counts of a program that went silent stay until it is deleted.
Swept_NoKill(table) ==
  [r \in {s \in DOMAIN table : Age(table[s]) <= table[s].interval * 5} |-> table[r]]

\* Mutated: a program is silent after one interval.
Swept_OneInterval(table) ==
  [r \in {s \in DOMAIN table : Age(table[s]) <= table[s].interval * 5} |->
     IF Age(table[r]) > table[r].interval THEN KillProcesses(table[r]) ELSE table[r]]

Swept(table) ==
  [r \in {s \in DOMAIN table : Age(table[s]) <= table[s].interval * 5} |->
     IF Age(table[r]) > table[r].interval * 2 THEN KillProcesses(table[r]) ELSE table[r]]

\* One round of _process_hostprogs: what is summed up is the table before the sweep.
ProcessHostprogs ==
  /\ ~swept
  /\ swept' = TRUE
  /\ stats' = HostStats
  /\ hostprogs' = Swept(hostprogs)
  /\ UNCHANGED <<metrics, now, sourceVars, network, lost, hosts, latest>>

StatNext ==
  \/ Tick
  \/ \E h \in Host : Report(h)
  \/ \E m \in network : Update(m)
  \/ ProcessHostprogs

StatSpec == StatInit /\ [][StatNext]_statVars

-----------------------------------------------------------------------------
(***************************************************************************)
(* What is presumed of delays and of how often a host reports, each by the *)
(* properties that name it: a datagram is not under way for longer than a  *)
(* program is remembered, or than its counts are; and of two reports the   *)
(* second arrives before the first is two of the intervals old that a      *)
(* datagram can tell, the truncation of a time to seconds included.        *)
(***************************************************************************)
ForgetsLate == MaxDelay <= 5 * Interval
SilentLate == MaxDelay <= 2 * Interval
ShownInTime == MaxGap + MaxDelay + 1 <= 2 * Whole(Interval)

\* The programs heard of.
Programs == {r \in DOMAIN latest : r[2] # "host"}

StatTypeOK ==
  /\ now \in Nat /\ swept \in BOOLEAN
  /\ DOMAIN hostprogs \subseteq Host \X {metric[1] : metric \in metrics}
  /\ DOMAIN hosts \subseteq Host
  /\ \A r \in DOMAIN hostprogs :
       /\ hostprogs[r].interval \in {0, Whole(Interval)}
       /\ \A g \in Gauges : hostprogs[r].count[g] # None => hostprogs[r].count[g] \in 0..hostprogs[r].max[g]
       /\ hostprogs[r].max \in [Gauges -> Counts \cup {0}]

(***************************************************************************)
(* What is summed up at a sweep was reported lately: a program that        *)
(* stopped, or whose datagrams are all lost, adds to no count once two     *)
(* intervals and one more sweep have gone by since the latest of its       *)
(* datagrams that arrived was made (stat.py 244-257: the sums are made     *)
(* before the silent programs are looked for, and a deleted one may be     *)
(* made again).                                                            *)
(***************************************************************************)
SumsForget ==
  [][~swept /\ swept' =>
       \A g \in Gauges :
         stats'.count[g] <=
           SumFunction([r \in {s \in Programs : latest[s].count[g] # None /\ latest[s].sent + 2 * Interval + 1 >= now}
                        |-> latest[r].count[g]])]_statVars

(***************************************************************************)
(* A program that goes on reporting is in the sums with the counts it      *)
(* reported last, at every sweep: no delay, jitter or truncation makes it  *)
(* silent as long as its datagrams arrive in the order of its reports      *)
(* (stat.py 256: the factor 2).  One that is overtaken sets last_time back *)
(* and counts as lost here: it may cost the counts until the next report.  *)
(***************************************************************************)
ReportingShown ==
  [][~swept /\ swept' =>
       \A g \in Gauges :
         stats'.count[g] >=
           SumFunction([r \in {s \in Programs : latest[s].count[g] # None /\ lost[s[1]] \cap Reports(s) = {}}
                        |-> latest[r].count[g]])]_statVars

(***************************************************************************)
(* The table holds the programs heard of within five intervals, and no     *)
(* others, once it is swept (stat.py 254): it does not grow with the       *)
(* programs that come and go.                                              *)
(***************************************************************************)
TableForgets ==
  swept => \A r \in DOMAIN hostprogs : latest[r].sent + 5 * Interval >= now

(***************************************************************************)
(* A rate that is shown is over some time, and is not negative unless the  *)
(* total has fallen since the one it is compared with was reported (a      *)
(* process has ended): no datagram that was overtaken, delayed or lost     *)
(* makes a rate negative (stat.py 184).                                    *)
(***************************************************************************)
RatesAreReal ==
  [][\A r \in DOMAIN hostprogs' :
       LET rate == hostprogs'[r].checkouts_per_second
       IN  \/ rate = None
           \/ r \in DOMAIN hostprogs /\ rate = hostprogs[r].checkouts_per_second
           \/ /\ rate[2] > 0
              /\ rate[1] < 0 => \E m \in network \ network' : m.fell > hostprogs[r].last_total_checkout_time]_statVars
=============================================================================
