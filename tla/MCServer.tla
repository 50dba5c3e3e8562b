-------------------------------- MODULE MCServer --------------------------------
(***************************************************************************)
(* Server for TLC: a process of each of two programs, one of which is      *)
(* never silent; no bound on time.                                         *)
(***************************************************************************)
EXTENDS Server

CONSTANT none

MCSteady == {<<"h", "p", "1">>}
MCClient == <<<<"h", "p", "1">>, <<"h", "q", "2">>>>

MCGarbled ==
  {<<<<"HOST", "h">>, <<"OTHER", 0>>>>,
   <<<<"TYPE", "sqlalchemy_totals">>, <<"TIME", 0>>>>}

\* What the theorem about RegularKept presumes holds here.
ASSUME InstanceInWindow == GapInWindow

Oldest == 2 * Accept(5 * Interval) + 2

Ago(time) == IF now - time < Oldest THEN now - time ELSE Oldest

Age(record) ==
  <<Ago(record.timestamp), IF record.value.type = "sqlalchemy_totals" THEN Ago(record.value.values[1]) ELSE None>>

\* How long ago a client sent, as far as it matters to when it may again.
Since(k) == IF lastSent[k] > 0 /\ now - lastSent[k] < MaxGap THEN now - lastSent[k] ELSE MaxGap

\* Two states that differ by whole seconds in the time only behave alike: all there is in
\* them that is read at all is compared with the time.
View ==
  <<now % 2, streak, [k \in Keys |-> Since(k)], {<<datagram[4], datagram[7]>> : datagram \in pending}, [i \in DOMAIN message |-> KeyOf(message[i])],
    [t \in Types |-> <<[k \in DOMAIN buckets[t].bucket |-> Age(buckets[t].bucket[k])], buckets[t].last_interval>>],
    [t \in Threads |-> [f \in DOMAIN access[t] \ {"timestamp"} |-> access[t][f]]],
    get, keys, [i \in DOMAIN recs |-> IF recs[i].type = "sqlalchemy_totals" THEN Ago(recs[i].values[1]) ELSE None],
    [k \in DOMAIN listed |-> Age(listed[k])],
    {<<v.host, v.plugin_instance, v.type>> : v \in published}>>
=============================================================================
