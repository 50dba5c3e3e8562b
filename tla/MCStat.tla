-------------------------------- MODULE MCStat --------------------------------
(***************************************************************************)
(* Stat for TLC, with no bound on time: states that differ only in how     *)
(* long ago something was, once that is more than five intervals, are one  *)
(* under View.  The differences of two totals, the maxima and the rows of  *)
(* hosts are shown and read by nothing else, and so is the total of the    *)
(* connects: they are left out of it.                                      *)
(***************************************************************************)
EXTENDS Stat, TLC

CONSTANT none

MCMetrics ==
  {{<<"p", "checkouts">>},
   {<<"p", "numprocs">>, <<"p", "connects">>},
   {<<"host", "connections">>}}

\* What the theorems presume of delays and reports holds here.
ASSUME InstanceInTime == ForgetsLate /\ SilentLate /\ ShownInTime

Ago(t, oldest) == IF now - t < oldest THEN now - t ELSE oldest

\* Is the total a row has from before its fall?
Before(h, time) ==
  {r \in DOMAIN hostprogs : /\ r[1] = h /\ hostprogs[r].last_total_checkout_time # None
                            /\ time > hostprogs[r].last_total_checkout_time}

\* A fall, as far as what is under way or will be can be older than it.
Fall(h, time) == <<Ago(time, MaxDelay + 2), Before(h, time)>>

Oldest == 5 * Interval + MaxDelay + 3

Row(hp) ==
  <<Ago(hp.last_time, Oldest), hp.interval, hp.count, hp.total_checkouts,
    IF hp.last_total_checkout_time = None THEN -1 ELSE Ago(hp.last_total_checkout_time, Interval + MaxDelay + 1),
    IF hp.checkouts_per_second = None THEN None
      ELSE <<hp.checkouts_per_second[1], hp.checkouts_per_second[2] >= Interval>>>>

View ==
  <<metrics, now % 2, swept,
    IF \E metric \in metrics : metric[2] = "checkouts"
      THEN [h \in Host |-> <<total[h], Fall(h, fell[h])>>] ELSE None,
    [h \in Host |-> {metric \in lost[h] : metric[1] # "host"}], stats.count,
    [h \in Host |-> IF lastSent[h] = 0 THEN -1 ELSE Ago(lastSent[h], MaxGap)],
    {<<now - m.sent, IF m.datagram[7][2] = "checkouts" THEN Fall(m.datagram[1][2], m.fell) ELSE None,
       m.datagram[4], m.datagram[5], m.datagram[7], m.datagram[8]>> : m \in network},
    [r \in DOMAIN hostprogs |-> Row(hostprogs[r])],
    DOMAIN hosts,
    [r \in DOMAIN latest |-> <<latest[r].count, Ago(latest[r].sent, Oldest)>>]>>
=============================================================================
