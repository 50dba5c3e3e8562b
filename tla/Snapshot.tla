------------------------------ MODULE Snapshot ------------------------------
(***************************************************************************)
(* What the worker thread reads of a CollectionTarget while the pool event *)
(* handlers keep running (client/sender.py 64-125, the num_* properties of *)
(* client/collector.py 62-85).  Nothing locks the sets: the reading is a   *)
(* sequence of steps, one per access, and Collector's steps fall between   *)
(* any two of them.                                                        *)
(*                                                                         *)
(* A count is kept as the set it is the size of, so that a property can    *)
(* speak of one connection; num_pools (a WeakSet) is left out.             *)
(***************************************************************************)
EXTENDS Collector

VARIABLES
  rpc,       \* the next statement of Sender.send
  checkedout,\* the intermediate set of num_checkedout, then the set it counted
  read,      \* the other sets the pool message counted
  totals,    \* the totals message
  touched    \* history: the connections a handler worked on since the reading began

readerVars == <<rpc, checkedout, read, totals, touched>>
snapshotVars == <<vars, readerVars>>

Reading ==
  {"idle", "invalidated", "checkedin", "num_checkedin", "num_detached", "num_connections",
   "send_pool", "total_checkouts", "total_invalidated", "total_connects", "total_disconnects", "send_totals"}

PoolReading ==
  {"invalidated", "checkedin", "num_checkedin", "num_detached", "num_connections", "send_pool"}

Fields == {"checkedin", "detached", "connections"}
Totals == {"checkouts", "invalidated", "connects", "disconnects"}

SnapshotTypeOK ==
  /\ TypeOK
  /\ rpc \in Reading
  /\ checkedout \subseteq Ident
  /\ read \in [Fields -> SUBSET (Ident \cup {IdNone})]
  /\ totals \in [Totals -> Nat]
  /\ touched \subseteq Ident

SnapshotInit ==
  /\ Init
  /\ rpc = "idle"
  /\ checkedout = {}
  /\ read = [f \in Fields |-> {}]
  /\ totals = [t \in Totals |-> 0]
  /\ touched = {}

-----------------------------------------------------------------------------
Busy == {i \in Ident : pc[i] # "rest"}

Goes(from, to) == rpc = from /\ rpc' = to

\* Mutated: num_checkedout starts from all the connections.
ReadConnections_All ==
  /\ Goes("idle", "invalidated")
  /\ checkedout' = connections
  /\ touched' = Busy
  /\ UNCHANGED <<vars, read, totals>>

ReadConnections ==
  /\ Goes("idle", "invalidated")
  /\ checkedout' = connections \ detached
  /\ touched' = Busy
  /\ UNCHANGED <<vars, read, totals>>

ReadInvalidated ==
  /\ Goes("invalidated", "checkedin")
  /\ checkedout' = checkedout \ invalidated
  /\ UNCHANGED <<vars, read, totals, touched>>

\* Mutated: the operands of the last difference are swapped.
ReadCheckedin_Swapped ==
  /\ Goes("checkedin", "num_checkedin")
  /\ checkedout' = checkedin \ checkedout
  /\ UNCHANGED <<vars, read, totals, touched>>

ReadCheckedin ==
  /\ Goes("checkedin", "num_checkedin")
  /\ checkedout' = checkedout \ checkedin
  /\ UNCHANGED <<vars, read, totals, touched>>

ReadNumCheckedin ==
  /\ Goes("num_checkedin", "num_detached")
  /\ read' = [read EXCEPT !["checkedin"] = checkedin]
  /\ UNCHANGED <<vars, checkedout, totals, touched>>

ReadNumDetached ==
  /\ Goes("num_detached", "num_connections")
  /\ read' = [read EXCEPT !["detached"] = detached]
  /\ UNCHANGED <<vars, checkedout, totals, touched>>

ReadNumConnections ==
  /\ Goes("num_connections", "send_pool")
  /\ read' = [read EXCEPT !["connections"] = connections]
  /\ UNCHANGED <<vars, checkedout, totals, touched>>

\* message_sender.send(): the message leaves, and what it was built from is gone.
SendPool ==
  /\ Goes("send_pool", "total_checkouts")
  /\ checkedout' = {}
  /\ read' = [f \in Fields |-> {}]
  /\ touched' = {}
  /\ UNCHANGED <<vars, totals>>

ReadTotal(t, value, from, to) ==
  /\ Goes(from, to)
  /\ totals' = [totals EXCEPT ![t] = value]
  /\ UNCHANGED <<vars, checkedout, read, touched>>

ReadTotals ==
  \/ ReadTotal("checkouts", total_checkouts, "total_checkouts", "total_invalidated")
  \/ ReadTotal("invalidated", total_invalidated, "total_invalidated", "total_connects")
  \/ ReadTotal("connects", total_connects, "total_connects", "total_disconnects")
  \/ ReadTotal("disconnects", total_disconnects, "total_disconnects", "send_totals")

SendTotals ==
  /\ Goes("send_totals", "idle")
  /\ totals' = [t \in Totals |-> 0]
  /\ UNCHANGED <<vars, checkedout, read, touched>>

Read ==
  \/ ReadConnections \/ ReadInvalidated \/ ReadCheckedin
  \/ ReadNumCheckedin \/ ReadNumDetached \/ ReadNumConnections
  \/ SendPool \/ ReadTotals \/ SendTotals

Handle(i) ==
  /\ Step(i)
  /\ touched' = IF rpc \in PoolReading THEN touched \cup {i} ELSE touched
  /\ UNCHANGED <<rpc, checkedout, read, totals>>

SnapshotNext == Read \/ \E i \in Ident : Handle(i)

SnapshotSpec == SnapshotInit /\ [][SnapshotNext]_snapshotVars

-----------------------------------------------------------------------------
(***************************************************************************)
(* The reading is not atomic, and yet no connection is misreported because *)
(* of what the others do: one that no handler worked on since the reading  *)
(* began is counted where it is, and only there, however many connections  *)
(* were opened, moved and closed between the reads (sender.py 100-112,     *)
(* collector.py 62-85).                                                    *)
(***************************************************************************)
SnapshotFaithful ==
  \A i \in Ident \ touched :
    /\ rpc \in {"num_checkedin", "num_detached", "num_connections", "send_pool"} =>
         (i \in checkedout <=> pool[i] = "checkedout" /\ i \notin soft)
    /\ rpc \in {"num_detached", "num_connections", "send_pool"} =>
         (i \in read["checkedin"] <=> pool[i] = "checkedin")
    /\ rpc \in {"num_connections", "send_pool"} =>
         (i \in read["detached"] <=> pool[i] = "detached")
    /\ rpc = "send_pool" =>
         (i \in read["connections"] <=> pool[i] # "absent")

\* The same, with what each step of the reading relies on: inductive together
\* with AccountingInv.
SnapshotInv ==
  /\ SnapshotFaithful
  /\ \A i \in Ident \ touched :
       /\ rpc \in PoolReading => pc[i] = "rest"
       /\ rpc = "invalidated" =>
            (i \in checkedout <=> pool[i] \in {"checkedin", "checkedout"})
       /\ rpc = "checkedin" =>
            (i \in checkedout <=> pool[i] \in {"checkedin", "checkedout"} /\ i \notin soft)
=============================================================================
