----------------------------- MODULE MCReceiver -----------------------------
(***************************************************************************)
(* Receiver for TLC: two clients whose clocks disagree, and no bound on    *)
(* time.  Nothing depends on the time itself but on which half of a second *)
(* it is, and nothing on how old something is once it is too old to        *)
(* matter: states that differ in nothing else are one under View.  An      *)
(* access comes at most Slack half seconds before now (a delayed message,  *)
(* truncated, of a clock that is not behind), so that a record older than  *)
(* its window and Slack is stale for every access to come, and a           *)
(* last_timestamp older than Slack refuses none.                           *)
(***************************************************************************)
EXTENDS Receiver, TLC

CONSTANTS c1, c2

MCClient == {c1, c2}
MCSkew == c1 :> 0 @@ c2 :> 1

\* What the theorems presume of clocks, delays and losses holds here.
ASSUME InstanceInTime == ClocksAgree /\ SentInTime /\ SentInTimeThoughLost

Slack == MaxDelay + 3
Window(interval) == 2 * Accept(interval) + Slack

Age(t, oldest) == IF now - t < oldest THEN now - t ELSE oldest

Seen(m) == [m EXCEPT !.time = Age(@, 4 * Slack), !.sent = Age(@, 4 * Slack)]

View ==
  <<now % 2, alive,
    [c \in Client |-> IF lastSent[c] = 0 THEN -1 ELSE Age(lastSent[c], Window(Interval * 5) + 8)],
    {Seen(m) : m \in network}, {Seen(m) : m \in inHand},
    [t \in Types |->
       [last_timestamp |-> Age(buckets[t].last_timestamp, Slack),
        last_interval |-> buckets[t].last_interval,
        bucket |-> [c \in DOMAIN buckets[t].bucket |->
                      LET record == buckets[t].bucket[c]
                      IN  <<Age(record.timestamp, Window(record.interval)), record.interval>>]]],
    lost, rpc, published, heard, refused>>
=============================================================================
