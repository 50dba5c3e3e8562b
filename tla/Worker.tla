------------------------------- MODULE Worker -------------------------------
(***************************************************************************)
(* The background thread that reports on the targets of a process          *)
(* (client/worker.py), the starting of it by application threads, and the  *)
(* UDP sender it shares with nobody but a forked copy of its process       *)
(* (SyncOnlyUDPClientSender of networking.py).                             *)
(*                                                                         *)
(* A fork copies every module global and every lock as it stands, and no   *)
(* thread but the one that forks.  Python switches threads between any two *)
(* statements, so each statement on shared state is a step of its own.     *)
(*                                                                         *)
(* Time is counted in intervals: the clock ticks when more than "interval" *)
(* seconds have passed since whatever was marked before.  All the targets  *)
(* report to one collectd host and port, hence through one sender.         *)
(***************************************************************************)
EXTENDS Naturals, Sequences, FiniteSets

CONSTANTS
  Proc,             \* the processes; an identity is a pid
  NoProc,           \* no process: a socket not opened yet
  First,            \* the process that is not forked from another
  Thread,           \* the names of a process's application threads
  Target,           \* the (collection_target, sender) pairs
  Engines,          \* [Proc -> SUBSET Target]: what the engines that a process creates report to
  Packets,          \* messages of one Sender.send
  MaxTime,          \* bound of the model: intervals
  MaxThreads,       \* bound of the model: Thread objects made for _process
  ForkWhileSending  \* may a process fork while its worker holds the sender's mutex?

ASSUME WorkerAssumption ==
  /\ First \in Proc /\ NoProc \notin Proc
  /\ IsFiniteSet(Proc)
  /\ Engines \in [Proc -> SUBSET Target]
  /\ Packets \in Nat \ {0} /\ MaxTime \in Nat \ {0} /\ MaxThreads \in Nat
  /\ ForkWhileSending \in BOOLEAN

VARIABLES
  clock,          \* time.time(), in intervals
  running,        \* the processes that exist
  pc,             \* the next statement of each application thread
  adding,         \* what each application thread is about to insert, in a set
  PID,            \* _PID of each process
  WORKER_THREAD,  \* _WORKER_THREAD of each process; 0 is None
  targets,        \* _collection_targets of each process, in order
  lists,          \* the one-element lists that are its values, by address
  made,           \* how many Thread objects were made
  worker,         \* each of them: the state of its _process
  mutex,          \* _mutex of each process's sender: who holds it
  socket,         \* its socket: the process that opened it
  pid,            \* its pid attribute
  unreplaced,     \* history: the processes that failed to replace a socket a fork copied
  called,         \* history: the processes that called _check_threads_started
  done            \* history: time of the last report of a target, sent or failed

appVars == <<pc, adding>>
globalVars == <<PID, WORKER_THREAD>>
dictVars == <<targets, lists>>
threadVars == <<made, worker>>
senderVars == <<mutex, socket, pid, unreplaced>>
historyVars == <<called, done>>
workerVars ==
  <<clock, running, appVars, globalVars, dictVars, threadVars, senderVars, historyVars>>

Handle == 1..MaxThreads
None == 0                     \* no Thread object, holder or list
Orphaned == MaxThreads + 1    \* a lock whose holder is not in this process

Absent == "absent"            \* the thread does not exist

Steps ==
  {Absent, "rest", "insert", "check", "set_pid", "create", "daemon", "start", "error"}

Loop ==
  {"new", "now", "iterate", "next", "test", "mark", "acquire", "connect", "sendto",
   "release", "release.raise", "exited"}

\* Thread objects whose _process runs.
Alive == {h \in 1..made : worker[h].pc \notin {"new", "exited"}}

Keys(p) == {targets[p][n].target : n \in DOMAIN targets[p]}

WorkerTypeOK ==
  /\ clock \in 1..MaxTime
  /\ running \subseteq Proc
  /\ pc \in [Proc -> [Thread -> Steps]]
  /\ adding \in [Proc -> [Thread -> SUBSET Target]]
  /\ PID \in [Proc -> Proc]
  /\ made \in 0..MaxThreads
  /\ WORKER_THREAD \in [Proc -> 0..made]
  /\ lists \in [Proc -> Seq(0..MaxTime)]
  /\ targets \in [Proc -> Seq([target : Target, list : Nat])]
  /\ \A p \in Proc : \A n \in DOMAIN targets[p] : targets[p][n].list \in DOMAIN lists[p]
  /\ worker \in [Handle -> [proc : Proc, pc : Loop, now : 0..MaxTime, size : Nat,
                            position : Nat, list : Nat, packet : 0..Packets]]
  /\ mutex \in [Proc -> 0..Orphaned]
  /\ socket \in [Proc -> Proc \cup {NoProc}]
  /\ pid \in [Proc -> Proc \cup {NoProc}]
  /\ unreplaced \subseteq running
  /\ called \subseteq running
  /\ done \in [Proc -> [Target -> 0..MaxTime]]

NewWorker(p) ==
  [proc |-> p, pc |-> "new", now |-> 0, size |-> 0, position |-> 0, list |-> None, packet |-> 0]

WorkerInit ==
  /\ clock = 1
  /\ running = {First}
  /\ pc = [p \in Proc |-> [t \in Thread |-> IF p = First THEN "rest" ELSE Absent]]
  /\ adding = [p \in Proc |-> [t \in Thread |-> {}]]
  /\ PID = [p \in Proc |-> First]
  /\ WORKER_THREAD = [p \in Proc |-> None]
  /\ targets = [p \in Proc |-> << >>]
  /\ lists = [p \in Proc |-> << >>]
  /\ made = 0
  /\ worker = [h \in Handle |-> NewWorker(First)]
  /\ mutex = [p \in Proc |-> None]
  /\ socket = [p \in Proc |-> NoProc]
  /\ pid = [p \in Proc |-> NoProc]
  /\ unreplaced = {}
  /\ called = {}
  /\ done = [p \in Proc |-> [k \in Target |-> 0]]

-----------------------------------------------------------------------------
(* Application threads. *)

Goes(p, t, from, to) == pc[p][t] = from /\ pc' = [pc EXCEPT ![p][t] = to]

NoWorker(p) == WORKER_THREAD[p] = None \/ PID[p] # p

\* _check_threads_started(): is there a worker?
Checks(p, t, from) ==
  /\ Goes(p, t, from, IF NoWorker(p) THEN "set_pid" ELSE "rest")
  /\ called' = called \cup {p}
  /\ UNCHANGED <<clock, running, adding, globalVars, dictVars, threadVars, senderVars, done>>

\* add_target(): a pair that is not known is inserted; one that is stays so, and the
\* worker is looked for at once.
AddTarget(p, t, k) ==
  /\ k \in Engines[p]
  /\ IF k \in Keys(p) THEN Checks(p, t, "rest")
     ELSE /\ Goes(p, t, "rest", "insert")
          /\ adding' = [adding EXCEPT ![p][t] = {k}]
          /\ UNCHANGED <<clock, running, globalVars, dictVars, threadVars, senderVars, historyVars>>

\* Mutated: the value is the number, not a list that holds it.
Insert_Bare(p, t) == \E k \in adding[p][t] :
  /\ Goes(p, t, "insert", "check")
  /\ targets' = [targets EXCEPT ![p] = Append(@, [target |-> k, list |-> None])]
  /\ adding' = [adding EXCEPT ![p][t] = {}]
  /\ UNCHANGED <<clock, running, lists, globalVars, threadVars, senderVars, historyVars>>

\* A new list.  Another thread may have inserted the pair since: the entry
\* keeps its place and its value is replaced.
Insert(p, t) == \E k \in adding[p][t] :
  LET address == Len(lists[p]) + 1
  IN  /\ Goes(p, t, "insert", "check")
      /\ lists' = [lists EXCEPT ![p] = Append(@, 0)]
      /\ targets' = [targets EXCEPT ![p] =
           IF k \in Keys(p)
           THEN [n \in DOMAIN @ |-> IF @[n].target = k THEN [@[n] EXCEPT !.list = address] ELSE @[n]]
           ELSE Append(@, [target |-> k, list |-> address])]
      /\ adding' = [adding EXCEPT ![p][t] = {}]
      /\ UNCHANGED <<clock, running, globalVars, threadVars, senderVars, historyVars>>

\* The first statement of _connect_evt, which the pool fires.
ConnectEvt(p, t) == Checks(p, t, "rest")

\* The same after a pair was inserted.
CheckThreadsStarted(p, t) == Checks(p, t, "check")

\* Mutated: _PID is not declared global, and the assignment is lost.
SetPid_Local(p, t) ==
  /\ Goes(p, t, "set_pid", "create")
  /\ UNCHANGED <<clock, running, adding, globalVars, dictVars, threadVars, senderVars, historyVars>>

SetPid(p, t) ==
  /\ Goes(p, t, "set_pid", "create")
  /\ PID' = [PID EXCEPT ![p] = p]
  /\ UNCHANGED <<clock, running, adding, WORKER_THREAD, dictVars, threadVars, senderVars, historyVars>>

CreateThread(p, t) ==
  /\ made < MaxThreads
  /\ Goes(p, t, "create", "daemon")
  /\ made' = made + 1
  /\ worker' = [worker EXCEPT ![made + 1] = NewWorker(p)]
  /\ WORKER_THREAD' = [WORKER_THREAD EXCEPT ![p] = made + 1]
  /\ UNCHANGED <<clock, running, adding, PID, dictVars, senderVars, historyVars>>

\* Thread.daemon of a started thread and a second Thread.start() are
\* RuntimeErrors, which leave create_engine() or the pool's "connect" event.
Started(h) == worker[h].pc # "new"

SetDaemon(p, t) ==
  /\ Goes(p, t, "daemon", IF Started(WORKER_THREAD[p]) THEN "error" ELSE "start")
  /\ UNCHANGED <<clock, running, adding, globalVars, dictVars, threadVars, senderVars, historyVars>>

StartThread(p, t) ==
  LET h == WORKER_THREAD[p]
  IN  /\ Goes(p, t, "start", IF Started(h) THEN "error" ELSE "rest")
      /\ worker' = [worker EXCEPT ![h].pc = IF Started(h) THEN @ ELSE "now"]
      /\ UNCHANGED <<clock, running, adding, made, globalVars, dictVars, senderVars, historyVars>>

\* External: os.fork() in an application thread.
Fork(p, t, q) ==
  /\ pc[p][t] = "rest"
  /\ q \notin running
  /\ ForkWhileSending \/ mutex[p] = None
  /\ running' = running \cup {q}
  /\ pc' = [pc EXCEPT ![q] = [u \in Thread |-> IF u = t THEN "rest" ELSE Absent]]
  /\ adding' = [adding EXCEPT ![q] = adding[p]]
  /\ PID' = [PID EXCEPT ![q] = PID[p]]
  /\ WORKER_THREAD' = [WORKER_THREAD EXCEPT ![q] = WORKER_THREAD[p]]
  /\ targets' = [targets EXCEPT ![q] = targets[p]]
  /\ lists' = [lists EXCEPT ![q] = lists[p]]
  /\ mutex' = [mutex EXCEPT ![q] = IF mutex[p] = None THEN None ELSE Orphaned]
  /\ socket' = [socket EXCEPT ![q] = socket[p]]
  /\ pid' = [pid EXCEPT ![q] = pid[p]]
  /\ UNCHANGED <<clock, threadVars, unreplaced, historyVars>>

-----------------------------------------------------------------------------
(* The worker: _process(). *)

Moves(h, from, to) ==
  /\ h \in 1..made
  /\ worker[h].pc = from
  /\ worker' = [worker EXCEPT ![h].pc = to]

\* now = time.time(), after time.sleep(0.2) but for the first time
TakeTime(h) ==
  /\ h \in 1..made
  /\ worker[h].pc = "now"
  /\ worker' = [worker EXCEPT ![h] = [@ EXCEPT !.now = clock, !.pc = "iterate"]]
  /\ UNCHANGED <<clock, running, appVars, globalVars, dictVars, made, senderVars, historyVars>>

\* Mutated: the thread makes one round.
Fetch_OneRound(h, position, size) ==
  LET p == worker[h].proc
      entries == targets[p]
      item == [worker[h] EXCEPT !.pc = "test", !.position = position + 1, !.size = size,
                                !.list = entries[position + 1].list]
  IN  worker' = [worker EXCEPT ![h] =
        IF position = size \/ size # Len(entries) THEN [NewWorker(p) EXCEPT !.pc = "exited"]
        ELSE item]

\* The iterator of an OrderedDict: it knows the size it began with and whether
\* it has come to the end; before the end, a size that changed is a
\* RuntimeError, which "except BaseException" turns into the end of the thread.
Fetch(h, position, size) ==
  LET p == worker[h].proc
      entries == targets[p]
      item == [worker[h] EXCEPT !.pc = "test", !.position = position + 1, !.size = size,
                                !.list = entries[position + 1].list]
  IN  worker' = [worker EXCEPT ![h] =
        IF position = size THEN [NewWorker(p) EXCEPT !.pc = "now"]
        ELSE IF size # Len(entries) THEN [NewWorker(p) EXCEPT !.pc = "exited"]
        ELSE item]

Iterate(h) ==
  /\ h \in 1..made
  /\ worker[h].pc = "iterate"
  /\ Fetch(h, 0, Len(targets[worker[h].proc]))
  /\ UNCHANGED <<clock, running, appVars, globalVars, dictVars, made, senderVars, historyVars>>

NextTarget(h) ==
  /\ h \in 1..made
  /\ worker[h].pc = "next"
  /\ Fetch(h, worker[h].position, worker[h].size)
  /\ UNCHANGED <<clock, running, appVars, globalVars, dictVars, made, senderVars, historyVars>>

\* now - last_called[0] > interval
TestLastCalled(h) ==
  LET due == worker[h].now > lists[worker[h].proc][worker[h].list]
  IN  /\ Moves(h, "test", IF due THEN "mark" ELSE "next")
      /\ UNCHANGED <<clock, running, appVars, globalVars, dictVars, made, senderVars, historyVars>>

Calls(h) ==
  /\ h \in 1..made
  /\ worker[h].pc = "mark"
  /\ worker' = [worker EXCEPT ![h] = [@ EXCEPT !.packet = 1, !.pc = "acquire"]]

\* Mutated: the name is bound to a new list, and the dictionary keeps the old.
MarkLastCalled_Rebound(h) ==
  /\ Calls(h)
  /\ UNCHANGED <<clock, running, appVars, globalVars, dictVars, made, senderVars, historyVars>>

\* last_called[0] = now, and Sender.send() is called.
MarkLastCalled(h) ==
  LET p == worker[h].proc
  IN  /\ Calls(h)
      /\ lists' = [lists EXCEPT ![p] = [@ EXCEPT ![worker[h].list] = worker[h].now]]
      /\ UNCHANGED <<clock, running, appVars, globalVars, targets, made, senderVars, historyVars>>

Acquire(h) ==
  LET p == worker[h].proc
  IN  /\ Moves(h, "acquire", "connect")
      /\ mutex[p] = None
      /\ mutex' = [mutex EXCEPT ![p] = h]
      /\ UNCHANGED <<clock, running, appVars, globalVars, dictVars, made, socket, pid, unreplaced, historyVars>>

\* Mutated: an open socket is used whoever opened it.
Connected_NoPid(p) == socket[p] # NoProc

\* A socket is there that the process knows for its own.
Connected(p) == socket[p] # NoProc /\ pid[p] = p

\* One step: the mutex is held, and a fork within it leaves the copy locked.
CheckConnect(h) ==
  LET p == worker[h].proc
  IN  /\ Moves(h, "connect", "sendto")
      /\ IF Connected(p) THEN UNCHANGED <<pid, socket>>
         ELSE pid' = [pid EXCEPT ![p] = p] /\ socket' = [socket EXCEPT ![p] = p]
      /\ UNCHANGED <<clock, running, appVars, globalVars, dictVars, made, mutex, unreplaced, historyVars>>

\* socket.socket() raises an OSError, when pid has been set already: send() logs it, and
\* the socket stays what it was.
ConnectFails(h) ==
  LET p == worker[h].proc
  IN  /\ Moves(h, "connect", "release")
      /\ ~Connected(p)
      /\ pid' = [pid EXCEPT ![p] = p]
      /\ unreplaced' = IF socket[p] = NoProc THEN unreplaced ELSE unreplaced \cup {p}
      /\ UNCHANGED <<clock, running, appVars, globalVars, dictVars, made, mutex, socket, historyVars>>

\* sendto() sends, or fails with an IOError that send() logs; the next packet follows.
SendTo(h) ==
  /\ Moves(h, "sendto", "release")
  /\ UNCHANGED <<clock, running, appVars, globalVars, dictVars, made, senderVars, historyVars>>

\* It fails otherwise (an OverflowError for a port beyond 65535): the exception
\* leaves Sender.send() and _process logs it.
SendToRaises(h) ==
  /\ Moves(h, "sendto", "release.raise")
  /\ UNCHANGED <<clock, running, appVars, globalVars, dictVars, made, senderVars, historyVars>>

Release(h) ==
  LET p == worker[h].proc
      more == worker[h].pc = "release" /\ worker[h].packet < Packets
      k == targets[p][worker[h].position].target
  IN  /\ h \in 1..made
      /\ worker[h].pc \in {"release", "release.raise"}
      /\ mutex' = [mutex EXCEPT ![p] = None]
      /\ worker' = [worker EXCEPT ![h] =
           IF more THEN [@ EXCEPT !.packet = worker[h].packet + 1, !.pc = "acquire"]
                   ELSE [@ EXCEPT !.packet = 0, !.pc = "next"]]
      /\ done' = IF more THEN done ELSE [done EXCEPT ![p][k] = worker[h].now]
      /\ UNCHANGED <<clock, running, appVars, globalVars, dictVars, made, socket, pid, unreplaced, called>>

IntervalPasses ==
  /\ clock < MaxTime
  /\ clock' = clock + 1
  /\ UNCHANGED <<running, appVars, globalVars, dictVars, threadVars, senderVars, historyVars>>

-----------------------------------------------------------------------------
CheckStatement(p, t) ==
  \/ Insert(p, t) \/ CheckThreadsStarted(p, t) \/ SetPid(p, t) \/ CreateThread(p, t)
  \/ SetDaemon(p, t) \/ StartThread(p, t)

Process(h) ==
  \/ TakeTime(h) \/ Iterate(h) \/ NextTarget(h) \/ TestLastCalled(h) \/ MarkLastCalled(h)
  \/ Acquire(h) \/ CheckConnect(h) \/ ConnectFails(h) \/ SendTo(h) \/ SendToRaises(h) \/ Release(h)

WorkerNext ==
  \/ \E p \in Proc, t \in Thread :
       \/ CheckStatement(p, t)
       \/ ConnectEvt(p, t)
       \/ \E k \in Target : AddTarget(p, t, k)
       \/ \E q \in Proc : Fork(p, t, q)
  \/ \E h \in Handle : Process(h)
  \/ IntervalPasses

WorkerSpec == WorkerInit /\ [][WorkerNext]_workerVars

\* A thread that can run is run, sooner or later; time passes.
FairWorkerSpec ==
  /\ WorkerSpec
  /\ \A p \in Proc, t \in Thread : WF_workerVars(CheckStatement(p, t))
  /\ \A h \in Handle : WF_workerVars(Process(h))
  /\ WF_workerVars(IntervalPasses)

-----------------------------------------------------------------------------
(***************************************************************************)
(* A process has one background thread at most, and the application is     *)
(* never raised an error by the starting of it.  It is what the test of    *)
(* _WORKER_THREAD and _PID is for; it holds for a process whose engines    *)
(* are created and connected by one thread, before and after a fork.       *)
(***************************************************************************)
OneWorker ==
  \A p \in Proc :
    /\ Cardinality({h \in Alive : worker[h].proc = p}) <= 1
    /\ \A t \in Thread : pc[p][t] # "error"

(***************************************************************************)
(* A packet leaves through a socket that its own process opened, never     *)
(* through the one a fork copied, in every process that did not fail to    *)
(* open one when it had a copied one to replace (networking.py 128-130):   *)
(* such a one records its pid first, and takes the copy for its own from   *)
(* then on.  What a process has failed at does not pass to those that it   *)
(* forks.                                                                  *)
(***************************************************************************)
OwnSocket ==
  \A h \in Alive :
    worker[h].pc = "sendto" =>
      \/ socket[worker[h].proc] = worker[h].proc
      \/ worker[h].proc \in unreplaced /\ socket[worker[h].proc] # NoProc

(***************************************************************************)
(* The list found in the dictionary is what limits the reports: no target  *)
(* is reported on for a second time at one reading of the clock.           *)
(***************************************************************************)
OncePerInterval ==
  [][\A h \in Handle :
       worker[h].pc = "mark" /\ worker'[h].pc = "acquire"
         => LET p == worker[h].proc
            IN  worker[h].now > done[p][targets[p][worker[h].position].target]]_workerVars

(***************************************************************************)
(* Once a process has connected, each of its targets goes on being         *)
(* reported on for as long as the clock goes: a forked process's too, and  *)
(* whatever the reports before it raised.  The last report is no older     *)
(* than the last interval but one, which is the last that the bounded      *)
(* clock reaches the end of.                                               *)
(***************************************************************************)
Reported ==
  \A p \in Proc, k \in Target :
    (clock < MaxTime /\ p \in called /\ k \in Keys(p)) ~> done[p][k] >= MaxTime - 1

(***************************************************************************)
(* "exceptions which occur are logged and the thread continues to run"     *)
(* (docs: the changelog on the server and client threads).                 *)
(***************************************************************************)
WorkerSurvives == \A h \in 1..made : worker[h].pc # "exited"
=============================================================================
