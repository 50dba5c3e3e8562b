------------------------------- MODULE Receiver -------------------------------
(***************************************************************************)
(* The collectd server plugin: messages of client processes arrive over    *)
(* UDP, the listener thread stores them (Receiver._set_stats) and          *)
(* collectd's own thread reads them out (Receiver.summarize), the two      *)
(* sharing three TimeBuckets (server/receiver.py).                         *)
(*                                                                         *)
(* A client is a process token; its host and program do not matter to what *)
(* is kept and what is dropped.  A summary is the set of records it adds   *)
(* up: every value is 1, which is what the code makes a process record,    *)
(* and stands for a total that no longer grows.                            *)
(*                                                                         *)
(* The clocks of the clients' hosts are off the server's by a constant     *)
(* each, and a message carries the whole seconds of its sender's.  One     *)
(* access to a bucket, with the item it may set, is one step.              *)
(***************************************************************************)
EXTENDS TimeBucket, Sequences, FiniteSets

CONSTANTS
  Client,
  Skew,       \* [Client -> Int]: how far each client's clock is ahead, in half seconds
  MinGap, MaxGap, \* half seconds between two sends of a client
  MaxDelay,   \* half seconds a message may be under way
  MaxLost,    \* messages of a client and type that may be lost in a row
  Sent,       \* the types of message the instance has: of "pool" and "totals"
  Start       \* the half second at which the server starts

ASSUME ClockAssumption ==
  /\ Skew \in [Client -> Int]
  /\ MinGap \in Nat /\ MaxGap \in Nat /\ MaxDelay \in Nat /\ MaxLost \in Nat
  /\ Start \in Nat \ {0}
  /\ Sent \subseteq {"pool", "totals"} /\ Sent # {}
  /\ \A c \in Client : Start + Skew[c] >= 0

VARIABLES
  now,        \* the server's clock
  alive,      \* the clients still running
  lastSent,   \* when each client sent last; 0 before it did
  network,    \* the messages under way
  lost,       \* messages of each client and type lost in a row
  buckets,    \* the TimeBucket of each type
  inHand,     \* the message _set_stats is between its two buckets with, in a set
  rpc,        \* accesses of the summary under way; 0: none is
  timestamp,  \* time.time() when that summary began
  published,  \* what the summary has read of each type
  heard,      \* history: the clients and types stored at least once
  refused     \* history: what ValueError was raised at

clientVars == <<alive, lastSent>>
readerVars == <<rpc, timestamp, published>>
receiverVars == <<now, clientVars, network, lost, buckets, inHand, readerVars, heard, refused>>

Types == Sent \cup {"process"}

Interval == 2             \* the interval argument of the client's worker

\* The accesses of summarize(), by program name and then by host name.
Reads ==
  (IF "pool" \in Sent THEN <<"pool", "pool">> ELSE <<>>)
    \o (IF "totals" \in Sent THEN <<"totals", "totals">> ELSE <<>>)
    \o <<"process", "process">>

ReceiverTypeOK ==
  /\ now \in Nat
  /\ alive \subseteq Client
  /\ lastSent \in [Client -> Nat]
  /\ \A m \in network \cup inHand : m.client \in Client /\ m.type \in Sent
  /\ lost \in [Client -> [Sent -> 0..MaxLost]]
  /\ DOMAIN buckets = Types
  /\ \A t \in Types : DOMAIN buckets[t].bucket \subseteq Client
  /\ Cardinality(inHand) <= 1
  /\ rpc \in 0..Len(Reads)
  /\ timestamp \in Nat
  /\ published \in [Types -> SUBSET Client]
  /\ heard \subseteq Client \X Types
  /\ refused \subseteq {"message", "process", "summary"}

ReceiverInit ==
  /\ now = Start
  /\ alive = Client
  /\ lastSent = [c \in Client |-> 0]
  /\ network = {}
  /\ lost = [c \in Client |-> [t \in Sent |-> 0]]
  /\ buckets = [t \in Types |-> NewBucket]
  /\ inHand = {}
  /\ rpc = 0 /\ timestamp = 0
  /\ published = [t \in Types |-> {}]
  /\ heard = {}
  /\ refused = {}

-----------------------------------------------------------------------------
Clock(c) == now + Skew[c]

Overdue(c) == c \in alive /\ lastSent[c] > 0 /\ now - lastSent[c] >= MaxGap

\* Time passes when nothing is overdue; a message or a summary is dealt with
\* within a half second.
Tick ==
  /\ inHand = {} /\ rpc = 0
  /\ \A c \in Client : ~Overdue(c)
  /\ \A m \in network : now - m.sent < MaxDelay
  /\ now' = now + 1
  /\ UNCHANGED <<clientVars, network, lost, buckets, inHand, readerVars, heard, refused>>

\* Sender.send(): a message of each type, packed with int(timestamp).
Send(c) ==
  /\ c \in alive
  /\ lastSent[c] = 0 \/ now - lastSent[c] >= MinGap
  /\ lastSent' = [lastSent EXCEPT ![c] = now]
  /\ network' = network \cup
       {[client |-> c, type |-> t, time |-> 2 * Seconds(Clock(c)), sent |-> now] : t \in Sent}
  /\ UNCHANGED <<now, alive, lost, buckets, inHand, readerVars, heard, refused>>

Stop(c) ==
  /\ c \in alive
  /\ alive' = alive \ {c}
  /\ UNCHANGED <<now, lastSent, network, lost, buckets, inHand, readerVars, heard, refused>>

Lose(m) ==
  /\ lost[m.client][m.type] < MaxLost
  /\ lost' = [lost EXCEPT ![m.client][m.type] = @ + 1]
  /\ network' = network \ {m}
  /\ UNCHANGED <<now, clientVars, buckets, inHand, readerVars, heard, refused>>

-----------------------------------------------------------------------------
\* _set_stats: one get_data() and the item it sets, in the bucket of a type.  The
\* listener's loop logs a ValueError and drops the message.
Store(type, m, factor, accepted, what) ==
  IF Refused(buckets[type], m.time, Interval * factor)
    THEN /\ buckets' = [buckets EXCEPT ![type] = RefusedAccess(@, Interval * factor)]
         /\ refused' = refused \cup {what}
         /\ inHand' = {}
         /\ UNCHANGED heard
    ELSE /\ buckets' = [buckets EXCEPT ![type] =
              SetItem(Access(@, m.time, Interval * factor), m.time, Interval * factor, m.client, 1)]
         /\ heard' = heard \cup {<<m.client, type>>}
         /\ inHand' = accepted
         /\ UNCHANGED refused

\* Mutated: a record is kept for the interval it was sent with.
SetStats_OneInterval(m) ==
  /\ inHand = {}
  /\ network' = network \ {m}
  /\ lost' = [lost EXCEPT ![m.client][m.type] = 0]
  /\ Store(m.type, m, 1, {m}, "message")
  /\ UNCHANGED <<now, clientVars, readerVars>>

SetStats(m) ==
  /\ inHand = {}
  /\ network' = network \ {m}
  /\ lost' = [lost EXCEPT ![m.client][m.type] = 0]
  /\ Store(m.type, m, 2, {m}, "message")
  /\ UNCHANGED <<now, clientVars, readerVars>>

\* Mutated: the process record is kept no longer than the other two.
SetProcessStats_SameInterval(m) ==
  /\ Store("process", m, 2, {}, "process")
  /\ UNCHANGED <<now, clientVars, network, lost, readerVars>>

\* Mutated: the process record is kept for the interval it was sent with.
SetProcessStats_OneInterval(m) ==
  /\ Store("process", m, 1, {}, "process")
  /\ UNCHANGED <<now, clientVars, network, lost, readerVars>>

\* The single process record manufactured for the token.
SetProcessStats(m) ==
  /\ Store("process", m, 5, {}, "process")
  /\ UNCHANGED <<now, clientVars, network, lost, readerVars>>

-----------------------------------------------------------------------------
\* read(): collectd's thread starts a summary.
Read ==
  /\ rpc = 0
  /\ rpc' = 1
  /\ timestamp' = now
  /\ UNCHANGED <<now, clientVars, network, lost, buckets, inHand, published, heard, refused>>

\* Mutated: the summary does not end with its last type.
Summarize_NoEnd ==
  LET type == Reads[rpc]
      tb == Access(buckets[type], timestamp, NoInterval)
      done == rpc > Len(Reads)
  IN  /\ rpc > 0
      /\ IF Refused(buckets[type], timestamp, NoInterval)
           THEN /\ buckets' = [buckets EXCEPT ![type] = RefusedAccess(@, NoInterval)]
                /\ refused' = refused \cup {"summary"}
                /\ published' = [t \in Types |-> {}]
                /\ rpc' = 0
           ELSE /\ buckets' = [buckets EXCEPT ![type] = tb]
                /\ published' = IF done THEN [t \in Types |-> {}]
                                        ELSE [published EXCEPT ![type] = DOMAIN tb.bucket]
                /\ rpc' = IF done THEN 0 ELSE rpc + 1
                /\ UNCHANGED refused
      /\ timestamp' = IF rpc' = 0 THEN 0 ELSE timestamp
      /\ UNCHANGED <<now, clientVars, network, lost, inHand, heard>>

\* The next get_data() of summarize() and the records it adds up.  A ValueError
\* ends the summary.
Summarize ==
  LET type == Reads[rpc]
      tb == Access(buckets[type], timestamp, NoInterval)
      done == rpc = Len(Reads)
  IN  /\ rpc > 0
      /\ IF Refused(buckets[type], timestamp, NoInterval)
           THEN /\ buckets' = [buckets EXCEPT ![type] = RefusedAccess(@, NoInterval)]
                /\ refused' = refused \cup {"summary"}
                /\ published' = [t \in Types |-> {}]
                /\ rpc' = 0
           ELSE /\ buckets' = [buckets EXCEPT ![type] = tb]
                /\ published' = IF done THEN [t \in Types |-> {}]
                                        ELSE [published EXCEPT ![type] = DOMAIN tb.bucket]
                /\ rpc' = IF done THEN 0 ELSE rpc + 1
                /\ UNCHANGED refused
      /\ timestamp' = IF rpc' = 0 THEN 0 ELSE timestamp
      /\ UNCHANGED <<now, clientVars, network, lost, inHand, heard>>

ReceiverNext ==
  \/ Tick
  \/ \E c \in Client : Send(c) \/ Stop(c)
  \/ \E m \in network : Lose(m) \/ SetStats(m)
  \/ \E m \in inHand : SetProcessStats(m)
  \/ Read
  \/ Summarize

ReceiverSpec == ReceiverInit /\ [][ReceiverNext]_receiverVars

-----------------------------------------------------------------------------
(* What is presumed of the hosts' clocks and of the network, where a property needs it. *)

Offsets == {0} \cup {Skew[c] : c \in Client}

\* No two clocks differ by more than the shorter window, less what a message may take.
ClocksAgree == \A a, b \in Offsets : a - b + MaxDelay <= 2 * Accept(2 * Interval)

\* A message has come or is lost when its client sends the next, which comes within the
\* shorter window of it by every clock, truncated to the second though it is.
SentInTime ==
  /\ MaxDelay < MinGap
  /\ \A a \in Offsets, c \in Client : MaxGap + MaxDelay + 1 + a - Skew[c] <= 2 * Accept(2 * Interval)

\* The same within the longer window, of the message after as many as may be lost.
SentInTimeThoughLost ==
  /\ MaxDelay < MinGap
  /\ \A a \in Offsets, c \in Client :
       (MaxLost + 1) * MaxGap + MaxDelay + 1 + a - Skew[c] <= 2 * Accept(5 * Interval)

-----------------------------------------------------------------------------
\* The summary has read one more type, at this step.
JustRead(type) == rpc > 0 /\ Reads[rpc] = type /\ rpc' # rpc /\ (rpc' = 0 => rpc = Len(Reads))

(***************************************************************************)
(* With clocks and delays inside the windows, no message and no summary is *)
(* ever refused (stream.py 93-101): the guard against old timestamps costs *)
(* nothing as long as the hosts' clocks agree well enough.                 *)
(***************************************************************************)
NothingRefused == refused = {}

(***************************************************************************)
(* A process that runs and has been heard of is in every summary's process *)
(* count, message losses included (receiver.py 82-97: "we also use a       *)
(* larger interval for this value so that the process count changes more   *)
(* slowly").                                                               *)
(***************************************************************************)
LiveProcessCounted ==
  [][\A c \in alive : JustRead("process") /\ rpc' # 0 /\ <<c, "process">> \in heard
       => c \in published'["process"]]_receiverVars

(***************************************************************************)
(* The same of its connection counts and totals, as long as the latest     *)
(* message of them was not lost (receiver.py 78: the factor 2): a sum that *)
(* a summary publishes falls only by a process that stopped or by loss.    *)
(***************************************************************************)
LiveCounted ==
  [][\A c \in alive, t \in Sent :
       JustRead(t) /\ <<c, t>> \in heard /\ lost[c][t] = 0 => c \in published'[t]]_receiverVars

(***************************************************************************)
(* A process that stopped is not counted for longer than the windows: its  *)
(* connections for two intervals, itself for five (receiver.py 78, 91,     *)
(* stream.py 104).                                                         *)
(***************************************************************************)
Forgotten ==
  [][\A c \in Client, t \in Types :
       JustRead(t) /\ rpc' # 0 /\ c \in published'[t] =>
         timestamp <= lastSent[c] + Skew[c]
                        + 2 * Accept(Interval * (IF t = "process" THEN 5 ELSE 2))]_receiverVars

(***************************************************************************)
(* Every process whose connections a summary adds up is in that summary's  *)
(* process count, but for one the listener is between the two buckets with *)
(* ("the total number of Python processes ... that are contributing to the *)
(* connection statistics in this group", README.rst).                      *)
(***************************************************************************)
PoolsHaveProcesses ==
  [][JustRead("process") /\ rpc' # 0 =>
       UNION {published'[t] : t \in Sent} \subseteq published'["process"] \cup {m.client : m \in inHand}]_receiverVars
=============================================================================
