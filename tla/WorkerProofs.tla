------------------------------ MODULE WorkerProofs ------------------------------
(***************************************************************************)
(* Proofs about Worker: its types and its sockets for any number of        *)
(* application threads; that there is one worker, and that it reports on a *)
(* target once a time, for processes with one such thread.                 *)
(***************************************************************************)
EXTENDS Worker, FiniteSetTheorems, SequenceTheorems, TLAPS

Looping ==
  {"next", "test", "mark", "acquire", "connect", "sendto", "release", "release.raise"}

\* A worker that goes through the targets is at one that is there: the dictionary may
\* have grown since it began, and never shrinks.
AtTarget(h) ==
  worker[h].pc \in Looping =>
    /\ worker[h].position \in 1..worker[h].size
    /\ worker[h].size <= Len(targets[worker[h].proc])

\* What a process has that another process opened or started it inherited, from one
\* that was running; a socket it takes for its own it opened, or failed to replace.
OwnInv ==
  /\ \A h \in 1..made : worker[h].proc \in running /\ AtTarget(h)
  /\ \A p \in Proc \ running : \A t \in Thread : pc[p][t] = Absent
  /\ \A p \in running : pid[p] \in running \cup {NoProc}
  /\ \A p \in running : pid[p] = p /\ socket[p] # NoProc => socket[p] = p \/ p \in unreplaced
  /\ \A h \in 1..made : worker[h].pc = "sendto" => Connected(worker[h].proc)

WorkerInv == WorkerTypeOK /\ OwnInv

-----------------------------------------------------------------------------
LEMMA WorkerInitInv == WorkerInit => WorkerInv
<1> SUFFICES ASSUME WorkerInit PROVE WorkerInv
  OBVIOUS
<1> USE WorkerAssumption DEF WorkerInit
<1>1. worker \in [Handle -> [proc : Proc, pc : Loop, now : 0..MaxTime, size : Nat,
                            position : Nat, list : Nat, packet : 0..Packets]]
  BY DEF NewWorker, Loop, None
<1>2. pc \in [Proc -> [Thread -> Steps]] /\ adding \in [Proc -> [Thread -> SUBSET Target]]
  BY DEF Steps, Absent
<1>3. lists \in [Proc -> Seq(0..MaxTime)] /\ targets \in [Proc -> Seq([target : Target, list : Nat])]
  OBVIOUS
<1>4. mutex \in [Proc -> 0..Orphaned] /\ WORKER_THREAD \in [Proc -> 0..made]
  BY DEF None, Orphaned
<1>5. WorkerTypeOK
  BY <1>1, <1>2, <1>3, <1>4 DEF WorkerTypeOK
<1>6. OwnInv
  BY DEF OwnInv
<1> QED BY <1>5, <1>6 DEF WorkerInv

\* What a step of a worker leaves alone.
LEMMA ProcessFrame ==
  ASSUME NEW h \in Handle, Process(h)
  PROVE  /\ h \in 1..made
         /\ UNCHANGED <<clock, running, pc, adding, PID, WORKER_THREAD, targets, made>>
         /\ worker' = [worker EXCEPT ![h] = worker'[h]]
  <1> USE DEF appVars, globalVars, dictVars, threadVars, senderVars, Moves, Calls, Fetch
  <1>1. CASE TakeTime(h) BY <1>1 DEF TakeTime
  <1>2. CASE Iterate(h) BY <1>2 DEF Iterate
  <1>3. CASE NextTarget(h) BY <1>3 DEF NextTarget
  <1>4. CASE TestLastCalled(h) BY <1>4 DEF TestLastCalled
  <1>5. CASE MarkLastCalled(h) BY <1>5 DEF MarkLastCalled
  <1>6. CASE Acquire(h) BY <1>6 DEF Acquire
  <1>7. CASE CheckConnect(h) BY <1>7 DEF CheckConnect
  <1>8. CASE SendTo(h) \/ SendToRaises(h) BY <1>8 DEF SendTo, SendToRaises
  <1>9. CASE Release(h) BY <1>9 DEF Release
  <1>10. CASE ConnectFails(h) BY <1>10 DEF ConnectFails
  <1> QED BY <1>1, <1>2, <1>3, <1>4, <1>5, <1>6, <1>7, <1>8, <1>9, <1>10 DEF Process

WorkerRecord ==
  [proc : Proc, pc : Loop, now : 0..MaxTime, size : Nat, position : Nat, list : Nat,
   packet : 0..Packets]

LEMMA RecordOf ==
  ASSUME WorkerInv, NEW h \in 1..made
  PROVE  h \in Handle /\ worker \in [Handle -> WorkerRecord] /\ worker[h] \in WorkerRecord
<1>1. made \in Nat /\ made <= MaxThreads /\ MaxThreads \in Nat
  BY WorkerAssumption DEF WorkerInv, WorkerTypeOK
<1>2. h \in Handle
  BY <1>1 DEF Handle
<1>3. worker \in [Handle -> WorkerRecord]
  BY DEF WorkerInv, WorkerTypeOK, WorkerRecord
<1> QED BY <1>2, <1>3

LEMMA NewRecord ==
  ASSUME NEW p \in Proc, NEW c \in Loop
  PROVE  /\ NewWorker(p) \in WorkerRecord /\ NewWorker(p).proc = p /\ NewWorker(p).pc = "new"
         /\ [NewWorker(p) EXCEPT !.pc = c] \in WorkerRecord
         /\ [NewWorker(p) EXCEPT !.pc = c].proc = p
         /\ [NewWorker(p) EXCEPT !.pc = c].pc = c
BY WorkerAssumption DEF NewWorker, WorkerRecord, Loop, None

\* What is kept of a worker from one of its steps to the next.
Kept(w, length) ==
  /\ w \in WorkerRecord
  /\ w.pc # "new"
  /\ w.pc \in Looping => w.position \in 1..w.size /\ w.size <= length

LEMMA KeptMoves ==
  ASSUME NEW length \in Nat, NEW w, Kept(w, length), NEW c \in Loop \ {"new"},
         c \in Looping => w.pc \in Looping
  PROVE  Kept([w EXCEPT !.pc = c], length) /\ [w EXCEPT !.pc = c].proc = w.proc
BY DEF Kept, WorkerRecord

\* What a step may make of the record it updates: it goes on at the target it is at.
LEMMA KeptOn ==
  ASSUME NEW length, NEW w, Kept(w, length), NEW v \in WorkerRecord, v.pc # "new",
         v.pc \in Looping => w.pc \in Looping,
         v.position = w.position, v.size = w.size
  PROVE  Kept(v, length)
BY DEF Kept

LEMMA KeptFetches ==
  ASSUME WorkerInv, NEW h \in 1..made, NEW position \in Nat, NEW size \in Nat,
         Fetch(h, position, size), Kept(worker[h], Len(targets[worker[h].proc])),
         position <= size, size <= Len(targets[worker[h].proc])
  PROVE  Kept(worker'[h], Len(targets[worker[h].proc])) /\ worker'[h].proc = worker[h].proc
<1> DEFINE p == worker[h].proc
           w == worker[h]
<1>1. worker \in [Handle -> WorkerRecord] /\ h \in Handle /\ w \in WorkerRecord
  BY RecordOf
<1>2. p \in Proc
  BY <1>1 DEF WorkerRecord
<1>3. targets[p] \in Seq([target : Target, list : Nat])
  BY <1>2 DEF WorkerInv, WorkerTypeOK
<1>4. CASE position = size
  <2>1. worker'[h] = [NewWorker(p) EXCEPT !.pc = "now"]
    BY <1>1, <1>4 DEF Fetch
  <2>2. "now" \in Loop /\ "now" \notin Looping /\ "now" # "new"
    BY DEF Loop, Looping
  <2> QED BY <1>2, <2>1, <2>2, NewRecord DEF Kept
<1>5. CASE position # size /\ size # Len(targets[p])
  <2>1. worker'[h] = [NewWorker(p) EXCEPT !.pc = "exited"]
    BY <1>1, <1>5 DEF Fetch
  <2>2. "exited" \in Loop /\ "exited" \notin Looping /\ "exited" # "new"
    BY DEF Loop, Looping
  <2> QED BY <1>2, <2>1, <2>2, NewRecord DEF Kept
<1>6. CASE position # size /\ size = Len(targets[p])
  <2> DEFINE l == targets[p][position + 1].list
  <2>2. l \in Nat
    <3>1. targets[p][position + 1] \in [target : Target, list : Nat]
      <4>1. position + 1 \in 1..Len(targets[p])
        BY <1>6
      <4> QED BY <1>3, <4>1, ElementOfSeq
    <3> QED BY <3>1
  <2>3. worker'[h] = [w EXCEPT !.pc = "test", !.position = position + 1, !.size = size, !.list = l]
    BY <1>1, <1>6 DEF Fetch
  <2> DEFINE c == "test"
             n == position + 1
  <2>4. c \in Loop /\ c # "new" /\ n \in 1..size /\ n \in Nat
    BY <1>6 DEF Loop
  <2>5. worker'[h] = [w EXCEPT !.pc = c, !.position = n, !.size = size, !.list = l]
    BY <2>3
  <2> HIDE DEF l, w, c, n
  <2>6. worker'[h] \in WorkerRecord /\ worker'[h].proc = w.proc
    BY <1>1, <2>2, <2>4, <2>5 DEF WorkerRecord
  <2>7. worker'[h].pc = c /\ worker'[h].position = n /\ worker'[h].size = size
    BY <1>1, <2>5 DEF WorkerRecord
  <2>8. Kept(worker'[h], size)
    BY <2>4, <2>6, <2>7 DEF Kept
  <2> QED BY <1>6, <2>6, <2>8 DEF w
<1> QED BY <1>4, <1>5, <1>6

LEMMA ProcessOfItself ==
  ASSUME WorkerInv, NEW h \in Handle, Process(h)
  PROVE  /\ worker[h].pc # "new"
         /\ Kept(worker'[h], Len(targets[worker[h].proc]))
         /\ worker'[h].proc = worker[h].proc
<1> DEFINE p == worker[h].proc
           w == worker[h]
           length == Len(targets[p])
<1>1. worker \in [Handle -> WorkerRecord] /\ h \in 1..made /\ w \in WorkerRecord
  BY ProcessFrame, RecordOf
<1>2. AtTarget(h) /\ p \in Proc
  BY <1>1 DEF WorkerInv, OwnInv, WorkerRecord
<1>3. length \in Nat
  BY <1>2 DEF WorkerInv, WorkerTypeOK
<1>4. w.pc # "new"
  BY DEF Process, TakeTime, Iterate, NextTarget, TestLastCalled, MarkLastCalled, Calls, Acquire,
         CheckConnect, ConnectFails, SendTo, SendToRaises, Release, Moves
<1>5. Kept(w, length)
  BY <1>1, <1>2, <1>4 DEF Kept, AtTarget
<1>6. ASSUME NEW from \in Loop, NEW to \in Loop \ {"new"}, Moves(h, from, to),
             to \in Looping => from \in Looping
      PROVE  Kept(worker'[h], length) /\ worker'[h].proc = p
  <2>1. worker'[h] = [w EXCEPT !.pc = to] /\ w.pc = from
    BY <1>1, <1>6 DEF Moves
  <2> HIDE DEF w, length
  <2>2. Kept([w EXCEPT !.pc = to], length) /\ [w EXCEPT !.pc = to].proc = w.proc
    BY <1>3, <1>5, <1>6, <2>1, KeptMoves
  <2> QED BY <2>1, <2>2 DEF w
<1>7. CASE TakeTime(h)
  <2>1. worker'[h] = [w EXCEPT !.now = clock, !.pc = "iterate"]
    BY <1>1, <1>7 DEF TakeTime
  <2>2. clock \in 0..MaxTime
    BY WorkerAssumption DEF WorkerInv, WorkerTypeOK
  <2> DEFINE c == "iterate"
  <2>4. c \in Loop /\ c # "new" /\ c \notin Looping
    BY DEF Loop, Looping
  <2> HIDE DEF w, length, c
  <2>5. /\ worker'[h] \in WorkerRecord /\ worker'[h].proc = w.proc /\ worker'[h].pc = c
    BY <1>1, <2>1, <2>2, <2>4 DEF WorkerRecord, c
  <2>3. Kept(worker'[h], length) /\ worker'[h].proc = w.proc
    BY <2>4, <2>5 DEF Kept
  <2> QED BY <1>4, <2>3 DEF w, length
<1>8. CASE Iterate(h)
  <2>1. Fetch(h, 0, length)
    BY <1>8 DEF Iterate
  <2> QED BY <1>1, <1>3, <1>4, <1>5, <2>1, KeptFetches
<1>9. CASE NextTarget(h)
  <2>1. Fetch(h, w.position, w.size) /\ w.pc = "next"
    BY <1>9 DEF NextTarget
  <2>2. w.position \in Nat /\ w.size \in Nat /\ w.position <= w.size /\ w.size <= length
    <3>1. w.position \in Nat /\ w.size \in Nat
      BY <1>1 DEF WorkerRecord
    <3>2. w.position \in 1..w.size /\ w.size <= length
      BY <1>5, <2>1 DEF Kept, Looping
    <3> HIDE DEF w, length
    <3> QED BY <3>1, <3>2
  <2> QED BY <1>1, <1>4, <1>5, <2>1, <2>2, KeptFetches
<1>10. CASE MarkLastCalled(h)
  <2>1. worker'[h] = [w EXCEPT !.packet = 1, !.pc = "acquire"] /\ w.pc = "mark"
    BY <1>1, <1>10 DEF MarkLastCalled, Calls
  <2>2. 1 \in 0..Packets /\ w.pc \in Looping
    BY <2>1, WorkerAssumption DEF Looping
  <2> HIDE DEF w, length
  <2>4. /\ worker'[h] \in WorkerRecord /\ worker'[h].proc = w.proc /\ worker'[h].pc = "acquire"
        /\ worker'[h].position = w.position /\ worker'[h].size = w.size
    BY <1>1, <2>1, <2>2 DEF WorkerRecord, Loop
  <2>3. Kept(worker'[h], length) /\ worker'[h].proc = w.proc
    BY <1>5, <2>2, <2>4, KeptOn
  <2> QED BY <1>4, <2>3 DEF w, length
<1>11. CASE Release(h)
  <2>1. /\ w.pc \in Looping
        /\ \/ w.packet < Packets /\ worker'[h] = [w EXCEPT !.packet = w.packet + 1, !.pc = "acquire"]
           \/ worker'[h] = [w EXCEPT !.packet = 0, !.pc = "next"]
    BY <1>1, <1>11 DEF Release, Looping
  <2>2. w.packet \in 0..Packets /\ Packets \in Nat
    BY <1>1, WorkerAssumption DEF WorkerRecord
  <2> HIDE DEF w, length
  <2>4. /\ worker'[h] \in WorkerRecord /\ worker'[h].proc = w.proc
        /\ worker'[h].pc \in {"acquire", "next"}
        /\ worker'[h].position = w.position /\ worker'[h].size = w.size
    <3>1. PICK packet \in 0..Packets, c \in {"acquire", "next"} :
                worker'[h] = [w EXCEPT !.packet = packet, !.pc = c]
      <4>1. CASE w.packet < Packets /\ worker'[h] = [w EXCEPT !.packet = w.packet + 1, !.pc = "acquire"]
        <5>1. w.packet + 1 \in 0..Packets
          BY <2>2, <4>1
        <5> QED BY <4>1, <5>1
      <4>2. CASE worker'[h] = [w EXCEPT !.packet = 0, !.pc = "next"]
        <5>1. 0 \in 0..Packets
          BY <2>2
        <5> QED BY <4>2, <5>1
      <4> QED BY <2>1, <4>1, <4>2
    <3>2. c \in Loop
      BY DEF Loop
    <3> QED BY <1>1, <3>1, <3>2 DEF WorkerRecord
  <2>3. Kept(worker'[h], length) /\ worker'[h].proc = w.proc
    BY <1>5, <2>1, <2>4, KeptOn
  <2> QED BY <1>4, <2>3 DEF w, length
<1>12. CASE TestLastCalled(h)
  BY <1>4, <1>6, <1>12 DEF TestLastCalled, Loop, Looping
<1>13. CASE Acquire(h) \/ CheckConnect(h)
  BY <1>4, <1>6, <1>13 DEF Acquire, CheckConnect, Loop, Looping
<1>14. CASE SendTo(h) \/ SendToRaises(h)
  BY <1>4, <1>6, <1>14 DEF SendTo, SendToRaises, Loop, Looping
<1>15. CASE ConnectFails(h)
  BY <1>4, <1>6, <1>15 DEF ConnectFails, Loop, Looping
<1> QED BY <1>7, <1>8, <1>9, <1>10, <1>11, <1>12, <1>13, <1>14, <1>15 DEF Process

-----------------------------------------------------------------------------
\* add_target() of a pair that is not known.
Inserts(p, t, k) ==
  /\ k \notin Keys(p)
  /\ Goes(p, t, "rest", "insert")
  /\ adding' = [adding EXCEPT ![p][t] = {k}]
  /\ UNCHANGED <<clock, running, globalVars, dictVars, threadVars, senderVars, historyVars>>

LEMMA AppCases ==
  ASSUME NEW p, NEW t,
         CheckStatement(p, t) \/ ConnectEvt(p, t) \/ \E k \in Target : AddTarget(p, t, k)
  PROVE  \/ Insert(p, t) \/ SetPid(p, t) \/ CreateThread(p, t) \/ SetDaemon(p, t) \/ StartThread(p, t)
         \/ \E from \in {"rest", "check"} : Checks(p, t, from)
         \/ \E k \in Target : Inserts(p, t, k)
<1>1. ASSUME NEW k \in Target, AddTarget(p, t, k) PROVE Checks(p, t, "rest") \/ Inserts(p, t, k)
  BY <1>1 DEF AddTarget, Inserts
<1>2. CASE ConnectEvt(p, t)
  BY <1>2 DEF ConnectEvt
<1>3. CASE CheckStatement(p, t)
  BY <1>3 DEF CheckStatement, CheckThreadsStarted
<1> QED BY <1>1, <1>2, <1>3

\* A step of an application thread takes it on, and leaves a running process's workers
\* and sender alone.
LEMMA AppFrame ==
  ASSUME WorkerInv, NEW p \in Proc, NEW t \in Thread,
         CheckStatement(p, t) \/ ConnectEvt(p, t) \/ \E k \in Target : AddTarget(p, t, k)
  PROVE  /\ p \in running
         /\ pc' = [pc EXCEPT ![p][t] = pc'[p][t]] /\ pc'[p][t] \in Steps
         /\ UNCHANGED <<clock, running, mutex, socket, pid, unreplaced, done>>
         /\ called' \subseteq running
<1> USE DEF WorkerInv, WorkerTypeOK, Goes, globalVars, dictVars, threadVars, senderVars, historyVars, Steps
<1>1. pc[p][t] # Absent => p \in running
  BY DEF OwnInv
<1>2. CASE Insert(p, t)
  <2>1. /\ Goes(p, t, "insert", "check")
        /\ UNCHANGED <<clock, running, senderVars, historyVars>>
    BY <1>2 DEF Insert
  <2> QED BY <1>1, <2>1 DEF Absent
<1>3. ASSUME NEW from \in {"rest", "check"}, Checks(p, t, from)
      PROVE  /\ p \in running
             /\ pc' = [pc EXCEPT ![p][t] = pc'[p][t]] /\ pc'[p][t] \in Steps
             /\ UNCHANGED <<clock, running, mutex, socket, pid, unreplaced, done>>
             /\ called' \subseteq running
  <2>1. PICK to \in {"set_pid", "rest"} : Goes(p, t, from, to)
    BY <1>3 DEF Checks
  <2>2. UNCHANGED <<clock, running, senderVars, done>> /\ called' = called \cup {p}
    BY <1>3 DEF Checks
  <2> QED BY <1>1, <2>1, <2>2 DEF Absent
<1>4. CASE SetPid(p, t)
  BY <1>1, <1>4 DEF SetPid, Absent
<1>5. CASE CreateThread(p, t)
  BY <1>1, <1>5 DEF CreateThread, Absent
<1>6. CASE SetDaemon(p, t)
  BY <1>1, <1>6 DEF SetDaemon, Absent
<1>7. CASE StartThread(p, t)
  BY <1>1, <1>7 DEF StartThread, Absent
<1>8. CASE \E k \in Target : Inserts(p, t, k)
  <2>1. Goes(p, t, "rest", "insert") /\ UNCHANGED <<clock, running, senderVars, historyVars>>
    BY <1>8 DEF Inserts
  <2> QED BY <1>1, <2>1 DEF Absent
<1> QED BY <1>2, <1>3, <1>4, <1>5, <1>6, <1>7, <1>8, AppCases

\* The dictionary grows at its end, or an entry is given a new list.
LEMMA InsertGrows ==
  ASSUME WorkerInv, NEW p \in Proc, NEW t \in Thread, Insert(p, t)
  PROVE  /\ lists' \in [Proc -> Seq(0..MaxTime)]
         /\ targets' \in [Proc -> Seq([target : Target, list : Nat])]
         /\ \A q \in Proc : Len(targets'[q]) >= Len(targets[q])
         /\ \A q \in Proc : \A n \in DOMAIN targets'[q] : targets'[q][n].list \in DOMAIN lists'[q]
<1> DEFINE address == Len(lists[p]) + 1
           Entry == [target : Target, list : Nat]
<1>1. /\ lists[p] \in Seq(0..MaxTime) /\ targets[p] \in Seq(Entry)
      /\ lists \in [Proc -> Seq(0..MaxTime)] /\ targets \in [Proc -> Seq(Entry)]
      /\ \A q \in Proc : /\ Len(lists[q]) \in Nat /\ DOMAIN lists[q] = 1..Len(lists[q])
                          /\ Len(targets[q]) \in Nat /\ DOMAIN targets[q] = 1..Len(targets[q])
  <2>1. lists \in [Proc -> Seq(0..MaxTime)] /\ targets \in [Proc -> Seq(Entry)]
    BY DEF WorkerInv, WorkerTypeOK
  <2> HIDE DEF Entry
  <2> QED BY <2>1
<1>2. PICK k \in adding[p][t] :
        /\ lists' = [lists EXCEPT ![p] = Append(@, 0)]
        /\ targets' = [targets EXCEPT ![p] =
             IF k \in Keys(p)
             THEN [n \in DOMAIN @ |-> IF @[n].target = k THEN [@[n] EXCEPT !.list = address] ELSE @[n]]
             ELSE Append(@, [target |-> k, list |-> address])]
  BY DEF Insert
<1>3. k \in Target /\ address \in Nat
  BY <1>1 DEF WorkerInv, WorkerTypeOK
<1>4. lists'[p] = Append(lists[p], 0) /\ lists'[p] \in Seq(0..MaxTime) /\ DOMAIN lists'[p] = 1..address
  <2>1. lists'[p] = Append(lists[p], 0)
    BY <1>1, <1>2
  <2>2. 0 \in 0..MaxTime
    BY WorkerAssumption
  <2> QED BY <1>1, <2>1, <2>2
<1>5. lists' \in [Proc -> Seq(0..MaxTime)]
  BY <1>1, <1>2, <1>4
<1>6. /\ targets'[p] \in Seq(Entry) /\ Len(targets'[p]) >= Len(targets[p])
      /\ \A n \in DOMAIN targets'[p] : targets'[p][n].list \in 1..address
  <2> DEFINE s == targets[p]
  <2>1. \A n \in 1..Len(s) : s[n] \in Entry /\ s[n].list \in 1..address
    <3>1. \A n \in 1..Len(s) : s[n] \in Entry
      BY <1>1, ElementOfSeq
    <3>2. \A n \in 1..Len(s) : s[n].list \in 1..Len(lists[p])
      BY <1>1 DEF WorkerInv, WorkerTypeOK
    <3> QED BY <1>1, <3>1, <3>2
  <2>2. CASE k \in Keys(p)
    <3> DEFINE entry(n) == IF s[n].target = k THEN [s[n] EXCEPT !.list = address] ELSE s[n]
    <3>1. targets'[p] = [n \in 1..Len(s) |-> entry(n)]
      BY <1>1, <1>2, <2>2
    <3>2. ASSUME NEW n \in 1..Len(s) PROVE entry(n) \in Entry /\ entry(n).list \in 1..address
      <4>1. s[n] \in Entry /\ s[n].list \in 1..address
        BY <2>1
      <4> HIDE DEF address, s
      <4> QED BY <1>3, <4>1 DEF address
    <3> HIDE DEF entry
    <3>3. targets'[p] \in Seq(Entry) /\ Len(targets'[p]) = Len(s) /\ DOMAIN targets'[p] = 1..Len(s)
      BY <1>1, <3>1, <3>2
    <3> QED BY <1>1, <3>1, <3>2, <3>3
  <2>3. CASE k \notin Keys(p)
    <3> DEFINE new == [target |-> k, list |-> address]
    <3>1. targets'[p] = Append(s, new)
      BY <1>1, <1>2, <2>3
    <3>2. new \in Entry /\ new.list = address
      BY <1>3
    <3> HIDE DEF new
    <3>3. /\ targets'[p] \in Seq(Entry) /\ Len(targets'[p]) = Len(s) + 1
          /\ DOMAIN targets'[p] = 1..(Len(s) + 1)
          /\ \A n \in 1..Len(s) : targets'[p][n] = s[n]
          /\ targets'[p][Len(s) + 1] = new
      BY <1>1, <3>1, <3>2
    <3>4. \A n \in 1..(Len(s) + 1) : n \in 1..Len(s) \/ n = Len(s) + 1
      BY <1>1
    <3>5. \A n \in 1..(Len(s) + 1) : targets'[p][n].list \in 1..address
      <4>1. \A n \in 1..Len(s) : targets'[p][n].list \in 1..address
        BY <2>1, <3>3
      <4>2. targets'[p][Len(s) + 1].list \in 1..address
        <5>1. address \in 1..address
          BY <1>1
        <5> QED BY <3>2, <3>3, <5>1
      <4> QED BY <3>4, <4>1, <4>2
    <3> QED BY <1>1, <3>3, <3>5
  <2> QED BY <2>2, <2>3
<1>7. \A q \in Proc \ {p} : targets'[q] = targets[q] /\ lists'[q] = lists[q]
  BY <1>1, <1>2
<1>8. targets' \in [Proc -> Seq(Entry)]
  BY <1>1, <1>2, <1>6
<1>9. \A q \in Proc \ {p} :
        /\ Len(targets'[q]) >= Len(targets[q])
        /\ \A n \in DOMAIN targets'[q] : targets'[q][n].list \in DOMAIN lists'[q]
  <2>1. ASSUME NEW q \in Proc \ {p} PROVE Len(targets'[q]) >= Len(targets[q])
    BY <1>1, <1>7
  <2>2. ASSUME NEW q \in Proc \ {p}, NEW n \in DOMAIN targets'[q]
        PROVE  targets'[q][n].list \in DOMAIN lists'[q]
    <3>1. targets[q][n].list \in DOMAIN lists[q]
      BY <1>7, <2>2 DEF WorkerInv, WorkerTypeOK
    <3> QED BY <1>7, <3>1
  <2> QED BY <2>1, <2>2
<1> QED BY <1>4, <1>5, <1>6, <1>8, <1>9

\* What a type says of the variables that an application thread may change.
AppTypes ==
  /\ adding \in [Proc -> [Thread -> SUBSET Target]]
  /\ PID \in [Proc -> Proc]
  /\ made \in 0..MaxThreads
  /\ WORKER_THREAD \in [Proc -> 0..made]
  /\ lists \in [Proc -> Seq(0..MaxTime)]
  /\ targets \in [Proc -> Seq([target : Target, list : Nat])]
  /\ \A p \in Proc : \A n \in DOMAIN targets[p] : targets[p][n].list \in DOMAIN lists[p]
  /\ worker \in [Handle -> WorkerRecord]

LEMMA AppKeepsTypes ==
  ASSUME WorkerInv, NEW p \in Proc, NEW t \in Thread,
         CheckStatement(p, t) \/ ConnectEvt(p, t) \/ \E k \in Target : AddTarget(p, t, k)
  PROVE  AppTypes'
<1>1. AppTypes
  BY DEF WorkerInv, WorkerTypeOK, AppTypes, WorkerRecord
<1>2. CASE UNCHANGED <<adding, globalVars, dictVars, threadVars>>
  BY <1>1, <1>2 DEF AppTypes, globalVars, dictVars, threadVars
<1>3. CASE Insert(p, t)
  <2>1. UNCHANGED <<globalVars, threadVars>> /\ adding' = [adding EXCEPT ![p][t] = {}]
    BY <1>3 DEF Insert
  <2>2. adding' \in [Proc -> [Thread -> SUBSET Target]]
    BY <1>1, <2>1 DEF AppTypes
  <2>3. UNCHANGED <<PID, WORKER_THREAD, made, worker>>
    BY <2>1 DEF globalVars, threadVars
  <2>4. /\ lists' \in [Proc -> Seq(0..MaxTime)]
        /\ targets' \in [Proc -> Seq([target : Target, list : Nat])]
        /\ \A q \in Proc : \A n \in DOMAIN targets'[q] : targets'[q][n].list \in DOMAIN lists'[q]
    BY <1>3, InsertGrows
  <2> QED BY <1>1, <2>2, <2>3, <2>4 DEF AppTypes
<1>4. CASE SetPid(p, t)
  <2>1. UNCHANGED <<adding, WORKER_THREAD, dictVars, threadVars>> /\ PID' = [PID EXCEPT ![p] = p]
    BY <1>4 DEF SetPid
  <2>2. PID' \in [Proc -> Proc]
    BY <1>1, <2>1 DEF AppTypes
  <2> QED BY <1>1, <2>1, <2>2 DEF AppTypes, dictVars, threadVars
<1>5. CASE CreateThread(p, t)
  <2>1. /\ UNCHANGED <<adding, PID, dictVars>> /\ made < MaxThreads /\ made' = made + 1
        /\ worker' = [worker EXCEPT ![made + 1] = NewWorker(p)]
        /\ WORKER_THREAD' = [WORKER_THREAD EXCEPT ![p] = made + 1]
    BY <1>5 DEF CreateThread
  <2>2. made \in 0..MaxThreads /\ MaxThreads \in Nat
    BY <1>1, WorkerAssumption DEF AppTypes
  <2>3. made' \in 0..MaxThreads /\ WORKER_THREAD' \in [Proc -> 0..made']
    BY <1>1, <2>1, <2>2 DEF AppTypes
  <2>4. NewWorker(p) \in WorkerRecord
    BY NewRecord DEF Loop
  <2>5. worker' \in [Handle -> WorkerRecord]
    BY <1>1, <2>1, <2>4 DEF AppTypes
  <2> QED BY <1>1, <2>1, <2>3, <2>5 DEF AppTypes, dictVars
<1>6. CASE StartThread(p, t)
  <2> DEFINE h == WORKER_THREAD[p]
  <2>1. UNCHANGED <<adding, made, globalVars, dictVars>>
    BY <1>6 DEF StartThread
  <2>2. worker' = worker \/ worker' = [worker EXCEPT ![h].pc = "now"]
    BY <1>1, <1>6 DEF StartThread, AppTypes, WorkerRecord
  <2>3. "now" \in Loop
    BY DEF Loop
  <2>4. worker' \in [Handle -> WorkerRecord]
    <3>1. worker \in [Handle -> WorkerRecord]
      BY <1>1 DEF AppTypes
    <3>2. CASE worker' = [worker EXCEPT ![h].pc = "now"]
      <4>1. \A i \in Handle : worker'[i] \in WorkerRecord
        BY <2>3, <3>1, <3>2 DEF WorkerRecord
      <4>2. worker' \in [Handle -> WorkerRecord]
        BY <3>1, <3>2, <4>1
      <4> QED BY <4>2
    <3> QED BY <2>2, <3>1, <3>2
  <2> QED BY <1>1, <2>1, <2>4 DEF AppTypes, globalVars, dictVars
<1>7. ASSUME NEW k \in Target, Inserts(p, t, k) PROVE AppTypes'
  <2>1. adding' = [adding EXCEPT ![p][t] = {k}] /\ UNCHANGED <<globalVars, dictVars, threadVars>>
    BY <1>7 DEF Inserts
  <2>2. adding' \in [Proc -> [Thread -> SUBSET Target]]
    BY <1>1, <2>1 DEF AppTypes
  <2> QED BY <1>1, <2>1, <2>2 DEF AppTypes, globalVars, dictVars, threadVars
<1>8. CASE SetDaemon(p, t) \/ \E from \in {"rest", "check"} : Checks(p, t, from)
  BY <1>2, <1>8 DEF Checks, SetDaemon
<1> QED BY <1>3, <1>4, <1>5, <1>6, <1>7, <1>8, AppCases

\* An application thread's step leaves each worker that runs at its target.
LEMMA AppKeepsWorkers ==
  ASSUME WorkerInv, NEW p \in Proc, NEW t \in Thread,
         CheckStatement(p, t) \/ ConnectEvt(p, t) \/ \E k \in Target : AddTarget(p, t, k)
  PROVE  /\ \A h \in 1..made' : worker'[h].proc \in running
         /\ \A h \in 1..made' : worker'[h].pc \in Looping =>
              /\ h \in 1..made
              /\ worker'[h] = worker[h]
         /\ \A q \in Proc : Len(targets'[q]) >= Len(targets[q])
<1>1. /\ \A h \in 1..made : h \in Handle /\ worker[h].proc \in running
      /\ worker \in [Handle -> WorkerRecord] /\ made \in 0..MaxThreads /\ MaxThreads \in Nat
      /\ targets \in [Proc -> Seq([target : Target, list : Nat])]
  <2>1. /\ worker \in [Handle -> WorkerRecord] /\ made \in 0..MaxThreads /\ MaxThreads \in Nat
        /\ targets \in [Proc -> Seq([target : Target, list : Nat])]
    BY WorkerAssumption DEF WorkerInv, WorkerTypeOK, WorkerRecord
  <2>2. \A h \in 1..made : h \in Handle
    BY <2>1 DEF Handle
  <2> QED BY <2>1, <2>2 DEF WorkerInv, OwnInv
<1>2. p \in running
  BY AppFrame
<1>3. \A q \in Proc : targets' = targets => Len(targets'[q]) >= Len(targets[q])
  <2> SUFFICES ASSUME NEW q \in Proc PROVE Len(targets[q]) >= Len(targets[q])
    OBVIOUS
  <2>1. targets[q] \in Seq([target : Target, list : Nat])
    BY <1>1
  <2>2. Len(targets[q]) \in Nat
    BY <2>1
  <2> QED BY <2>2
<1>4. CASE UNCHANGED <<dictVars, threadVars>>
  BY <1>1, <1>3, <1>4 DEF dictVars, threadVars
<1>5. CASE Insert(p, t)
  <2>1. UNCHANGED threadVars
    BY <1>5 DEF Insert
  <2> QED BY <1>1, <1>5, <2>1, InsertGrows DEF threadVars
<1>6. CASE CreateThread(p, t)
  <2>1. /\ UNCHANGED dictVars /\ made < MaxThreads /\ made' = made + 1
        /\ worker' = [worker EXCEPT ![made + 1] = NewWorker(p)]
    BY <1>6 DEF CreateThread
  <2>2. \A h \in 1..made' : h \in 1..made \/ h = made + 1
    BY <1>1, <2>1
  <2>3. made + 1 \in Handle /\ made + 1 \notin 1..made
    BY <1>1, <2>1 DEF Handle
  <2>4. worker'[made + 1] = NewWorker(p) /\ \A h \in 1..made : worker'[h] = worker[h]
    BY <1>1, <2>1, <2>3
  <2>5. NewWorker(p).proc = p /\ NewWorker(p).pc = "new" /\ "new" \notin Looping
    BY DEF NewWorker, Looping
  <2> QED BY <1>1, <1>2, <1>3, <2>1, <2>2, <2>4, <2>5 DEF dictVars
<1>7. CASE StartThread(p, t)
  <2> DEFINE h == WORKER_THREAD[p]
  <2>1. UNCHANGED <<dictVars, made>>
    BY <1>7 DEF StartThread
  <2>2. worker' = worker \/ worker' = [worker EXCEPT ![h].pc = "now"]
    BY <1>1, <1>7 DEF StartThread, WorkerRecord
  <2>3. ASSUME NEW i \in 1..made
        PROVE  /\ worker'[i].proc = worker[i].proc
               /\ worker'[i].pc \in Looping => worker'[i] = worker[i]
    <3>1. i \in Handle /\ worker[i] \in WorkerRecord
      BY <1>1
    <3>2. CASE worker' = worker \/ i # h
      BY <1>1, <2>2, <3>1, <3>2
    <3>3. CASE worker' = [worker EXCEPT ![h].pc = "now"] /\ i = h
      <4>1. worker'[i].proc = worker[i].proc /\ worker'[i].pc = "now"
        BY <1>1, <3>1, <3>3 DEF WorkerRecord
      <4> QED BY <4>1 DEF Looping
    <3> QED BY <2>2, <3>2, <3>3
  <2> QED BY <1>1, <1>3, <2>1, <2>3 DEF dictVars
<1>8. CASE SetPid(p, t) \/ SetDaemon(p, t) \/ \E from \in {"rest", "check"} : Checks(p, t, from)
  BY <1>4, <1>8 DEF SetPid, SetDaemon, Checks
<1>9. CASE \E k \in Target : Inserts(p, t, k)
  BY <1>4, <1>9 DEF Inserts
<1> QED BY <1>5, <1>6, <1>7, <1>8, <1>9, AppCases

LEMMA AppKeeps ==
  ASSUME WorkerInv, NEW p \in Proc, NEW t \in Thread,
         CheckStatement(p, t) \/ ConnectEvt(p, t) \/ \E k \in Target : AddTarget(p, t, k)
  PROVE  WorkerInv'
<1>1. /\ p \in running
      /\ pc' = [pc EXCEPT ![p][t] = pc'[p][t]] /\ pc'[p][t] \in Steps
      /\ UNCHANGED <<clock, running, mutex, socket, pid, unreplaced, done>>
      /\ called' \subseteq running
  BY AppFrame
<1>2. pc \in [Proc -> [Thread -> Steps]]
  BY DEF WorkerInv, WorkerTypeOK
<1>3. WorkerTypeOK'
  <2>1. pc' \in [Proc -> [Thread -> Steps]]
    BY <1>1, <1>2
  <2>2. AppTypes'
    BY AppKeepsTypes
  <2> QED BY <1>1, <2>1, <2>2 DEF WorkerInv, WorkerTypeOK, AppTypes, WorkerRecord
<1>4. OwnInv'
  <2>1. ASSUME NEW h \in 1..made'
        PROVE  worker'[h].proc \in running' /\ AtTarget(h)'
    <3>1. worker'[h].proc \in running'
      BY <1>1, AppKeepsWorkers
    <3>2. ASSUME worker'[h].pc \in Looping
          PROVE  /\ worker'[h].position \in 1..worker'[h].size
                 /\ worker'[h].size <= Len(targets'[worker'[h].proc])
      <4>1. h \in 1..made /\ worker'[h] = worker[h]
        BY <3>2, AppKeepsWorkers
      <4>2. worker[h] \in WorkerRecord
        BY <4>1, RecordOf
      <4> DEFINE q == worker[h].proc
                 size == worker[h].size
      <4>3. /\ worker[h].position \in 1..size /\ size <= Len(targets[q]) /\ size \in Nat
            /\ q \in Proc
        BY <3>2, <4>1, <4>2 DEF WorkerInv, OwnInv, AtTarget, WorkerRecord
      <4>4. Len(targets'[q]) >= Len(targets[q])
        BY <4>3, AppKeepsWorkers
      <4>5. Len(targets[q]) \in Nat /\ Len(targets'[q]) \in Nat
        <5>1. targets[q] \in Seq([target : Target, list : Nat])
              /\ targets'[q] \in Seq([target : Target, list : Nat])
          BY <1>3, <4>3 DEF WorkerInv, WorkerTypeOK
        <5> QED BY <5>1
      <4>6. size <= Len(targets'[q])
        BY <4>3, <4>4, <4>5
      <4> QED BY <4>1, <4>3, <4>6
    <3> QED BY <3>1, <3>2 DEF AtTarget
  <2>2. \A q \in Proc \ running' : \A u \in Thread : pc'[q][u] = Absent
    BY <1>1, <1>2 DEF WorkerInv, OwnInv
  <2>3. ASSUME NEW h \in 1..made', worker'[h].pc = "sendto"
        PROVE  Connected(worker[h].proc)'
    <3>1. h \in 1..made /\ worker'[h] = worker[h]
      BY <2>3, AppKeepsWorkers DEF Looping
    <3> QED BY <1>1, <2>3, <3>1 DEF WorkerInv, OwnInv, Connected
  <2> QED BY <1>1, <2>1, <2>2, <2>3 DEF WorkerInv, OwnInv
<1> QED BY <1>3, <1>4 DEF WorkerInv

\* A forked process has no worker of its own yet, and no socket that it opened.
LEMMA ForkKeeps ==
  ASSUME WorkerInv, NEW p \in Proc, NEW t \in Thread, NEW q \in Proc, Fork(p, t, q)
  PROVE  WorkerInv'
<1>1. /\ q \notin running /\ running' = running \cup {q}
      /\ pc[p][t] = "rest"
      /\ pc' = [pc EXCEPT ![q] = [u \in Thread |-> IF u = t THEN "rest" ELSE Absent]]
      /\ adding' = [adding EXCEPT ![q] = adding[p]]
      /\ PID' = [PID EXCEPT ![q] = PID[p]]
      /\ WORKER_THREAD' = [WORKER_THREAD EXCEPT ![q] = WORKER_THREAD[p]]
      /\ targets' = [targets EXCEPT ![q] = targets[p]]
      /\ lists' = [lists EXCEPT ![q] = lists[p]]
      /\ mutex' = [mutex EXCEPT ![q] = IF mutex[p] = None THEN None ELSE Orphaned]
      /\ socket' = [socket EXCEPT ![q] = socket[p]]
      /\ pid' = [pid EXCEPT ![q] = pid[p]]
      /\ UNCHANGED <<clock, made, worker, unreplaced, called, done>>
  BY DEF Fork, threadVars, historyVars
<1>2. WorkerTypeOK
  BY DEF WorkerInv
<1>3. /\ pc' \in [Proc -> [Thread -> Steps]] /\ running' \subseteq Proc
      /\ adding' \in [Proc -> [Thread -> SUBSET Target]]
  BY <1>1, <1>2 DEF WorkerTypeOK, Steps
<1>4. /\ PID' \in [Proc -> Proc] /\ WORKER_THREAD' \in [Proc -> 0..made']
      /\ socket' \in [Proc -> Proc \cup {NoProc}] /\ pid' \in [Proc -> Proc \cup {NoProc}]
  BY <1>1, <1>2 DEF WorkerTypeOK
<1>5. mutex' \in [Proc -> 0..Orphaned]
  <2>1. None \in 0..Orphaned /\ Orphaned \in 0..Orphaned
    BY WorkerAssumption DEF None, Orphaned
  <2> QED BY <1>1, <1>2, <2>1 DEF WorkerTypeOK
<1>6. /\ lists' \in [Proc -> Seq(0..MaxTime)]
      /\ targets' \in [Proc -> Seq([target : Target, list : Nat])]
      /\ \A r \in Proc : \A n \in DOMAIN targets'[r] : targets'[r][n].list \in DOMAIN lists'[r]
  <2>1. /\ lists' \in [Proc -> Seq(0..MaxTime)]
        /\ targets' \in [Proc -> Seq([target : Target, list : Nat])]
    BY <1>1, <1>2 DEF WorkerTypeOK
  <2>2. \A r \in Proc : \E s \in Proc : targets'[r] = targets[s] /\ lists'[r] = lists[s]
    BY <1>1, <1>2 DEF WorkerTypeOK
  <2> QED BY <1>2, <2>1, <2>2 DEF WorkerTypeOK
<1>7. WorkerTypeOK'
  BY <1>1, <1>2, <1>3, <1>4, <1>5, <1>6 DEF WorkerTypeOK
<1>8. p \in running
  BY <1>1 DEF WorkerInv, OwnInv, Absent
<1>9. \A r \in Proc \ {q} : /\ targets'[r] = targets[r] /\ pc'[r] = pc[r]
                            /\ pid'[r] = pid[r] /\ socket'[r] = socket[r]
  BY <1>1, <1>2 DEF WorkerTypeOK
<1>10. pid'[q] = pid[p]
  BY <1>1, <1>2 DEF WorkerTypeOK
<1>11. pid'[q] # q
  BY <1>1, <1>8, <1>10, WorkerAssumption DEF WorkerInv, OwnInv
<1>12. \A h \in 1..made : worker[h].proc \in running /\ worker[h].proc \in Proc \ {q}
  BY <1>1, <1>2 DEF WorkerInv, OwnInv, WorkerTypeOK
<1>13. OwnInv'
  <2>1. \A h \in 1..made' : worker'[h].proc \in running' /\ AtTarget(h)'
    BY <1>1, <1>9, <1>12 DEF WorkerInv, OwnInv, AtTarget
  <2>2. \A r \in Proc \ running' : \A u \in Thread : pc'[r][u] = Absent
    BY <1>1, <1>9 DEF WorkerInv, OwnInv
  <2>3. \A r \in running' : pid'[r] \in running' \cup {NoProc}
    BY <1>1, <1>2, <1>8, <1>9, <1>10 DEF WorkerInv, OwnInv, WorkerTypeOK
  <2>4. \A r \in running' : pid'[r] = r /\ socket'[r] # NoProc => socket'[r] = r \/ r \in unreplaced'
    BY <1>1, <1>2, <1>9, <1>11 DEF WorkerInv, OwnInv, WorkerTypeOK
  <2>5. \A h \in 1..made' : worker'[h].pc = "sendto" => Connected(worker[h].proc)'
    BY <1>1, <1>9, <1>12 DEF WorkerInv, OwnInv, Connected
  <2> QED BY <2>1, <2>2, <2>3, <2>4, <2>5 DEF OwnInv
<1> QED BY <1>7, <1>13 DEF WorkerInv

\* What a step of a worker makes of its process's sender and of the lists.
LEMMA ProcessEffects ==
  ASSUME WorkerInv, NEW h \in Handle, Process(h)
  PROVE  LET p == worker[h].proc IN
         /\ lists' \in [Proc -> Seq(0..MaxTime)] /\ \A q \in Proc : DOMAIN lists'[q] = DOMAIN lists[q]
         /\ mutex' \in [Proc -> 0..Orphaned]
         /\ done' \in [Proc -> [Target -> 0..MaxTime]]
         /\ called' = called
         /\ \/ /\ UNCHANGED <<socket, pid, unreplaced>>
               /\ worker'[h].pc = "sendto" => CheckConnect(h) /\ Connected(p)
            \/ /\ pid' = [pid EXCEPT ![p] = p] /\ socket' = [socket EXCEPT ![p] = p]
               /\ UNCHANGED unreplaced
            \/ ConnectFails(h) /\ worker'[h].pc # "sendto"
<1> DEFINE p == worker[h].proc
           w == worker[h]
<1>1. worker \in [Handle -> WorkerRecord] /\ h \in 1..made /\ w \in WorkerRecord
  BY ProcessFrame, RecordOf
<1>2. /\ p \in Proc /\ w.now \in 0..MaxTime
  BY <1>1 DEF WorkerRecord
<1>3. /\ lists \in [Proc -> Seq(0..MaxTime)] /\ mutex \in [Proc -> 0..Orphaned]
      /\ done \in [Proc -> [Target -> 0..MaxTime]]
      /\ socket \in [Proc -> Proc \cup {NoProc}] /\ pid \in [Proc -> Proc \cup {NoProc}]
  BY DEF WorkerInv, WorkerTypeOK
<1>4. CASE UNCHANGED <<senderVars, lists, done>> /\ worker'[h].pc # "sendto" /\ called' = called
  BY <1>3, <1>4 DEF senderVars
<1>5. ASSUME NEW from, NEW to \in Loop, Moves(h, from, to), to # "sendto"
      PROVE  worker'[h].pc # "sendto"
  BY <1>1, <1>5 DEF Moves, WorkerRecord
<1>6. CASE TakeTime(h)
  <2>1. worker'[h] = [w EXCEPT !.now = clock, !.pc = "iterate"]
    BY <1>1, <1>6 DEF TakeTime
  <2>2. worker'[h].pc # "sendto"
    BY <1>1, <2>1 DEF WorkerRecord
  <2> QED BY <1>4, <1>6, <2>2 DEF TakeTime, dictVars, historyVars
<1>7. ASSUME NEW position, NEW size, Fetch(h, position, size)
      PROVE  worker'[h].pc \in {"now", "exited", "test"}
  BY <1>1, <1>7 DEF Fetch, NewWorker, WorkerRecord
<1>8. CASE Iterate(h) \/ NextTarget(h)
  <2>1. UNCHANGED <<senderVars, lists, done>> /\ worker'[h].pc # "sendto" /\ called' = called
    BY <1>7, <1>8 DEF Iterate, NextTarget, dictVars, historyVars
  <2> QED BY <1>4, <2>1
<1>9. CASE TestLastCalled(h) \/ SendTo(h) \/ SendToRaises(h)
  <2>1. UNCHANGED <<senderVars, lists, done>> /\ worker'[h].pc # "sendto" /\ called' = called
    BY <1>5, <1>9 DEF TestLastCalled, SendTo, SendToRaises, dictVars, historyVars, Loop
  <2> QED BY <1>4, <2>1
<1>10. CASE MarkLastCalled(h)
  <2>1. /\ lists' = [lists EXCEPT ![p] = [@ EXCEPT ![w.list] = w.now]]
        /\ UNCHANGED <<senderVars, done, called>>
        /\ worker'[h] = [w EXCEPT !.packet = 1, !.pc = "acquire"]
    BY <1>1, <1>10 DEF MarkLastCalled, Calls, historyVars
  <2>2. worker'[h].pc # "sendto"
    BY <1>1, <2>1 DEF WorkerRecord
  <2>3. lists'[p] \in Seq(0..MaxTime) /\ DOMAIN lists'[p] = DOMAIN lists[p]
    <3>1. lists'[p] = [lists[p] EXCEPT ![w.list] = w.now]
      BY <1>2, <1>3, <2>1
    <3>2. lists[p] \in Seq(0..MaxTime)
      BY <1>2, <1>3
    <3>3. w.list \in DOMAIN lists[p] => lists'[p] \in Seq(0..MaxTime)
      BY <1>2, <3>1, <3>2, ExceptSeq
    <3>4. w.list \notin DOMAIN lists[p] => lists'[p] = lists[p]
      BY <3>1, <3>2
    <3> QED BY <3>1, <3>2, <3>3, <3>4
  <2>4. lists' \in [Proc -> Seq(0..MaxTime)]
    BY <1>3, <2>1, <2>3
  <2>5. \A q \in Proc : DOMAIN lists'[q] = DOMAIN lists[q]
    BY <1>3, <2>1, <2>3
  <2> QED BY <1>3, <2>1, <2>2, <2>4, <2>5 DEF senderVars
<1>11. CASE Acquire(h)
  <2>1. mutex' = [mutex EXCEPT ![p] = h] /\ UNCHANGED <<lists, socket, pid, unreplaced, called, done>>
    BY <1>11 DEF Acquire, dictVars, historyVars
  <2>2. h \in 0..Orphaned
    BY WorkerAssumption DEF Handle, Orphaned
  <2>3. mutex' \in [Proc -> 0..Orphaned]
    BY <1>3, <2>1, <2>2
  <2>4. worker'[h].pc # "sendto"
    BY <1>5, <1>11 DEF Acquire, Loop
  <2> QED BY <1>3, <2>1, <2>3, <2>4
<1>12. CASE CheckConnect(h)
  BY <1>3, <1>12 DEF CheckConnect, dictVars, historyVars
<1>14. CASE ConnectFails(h)
  <2>1. UNCHANGED <<mutex, lists, done, called>>
    BY <1>14 DEF ConnectFails, dictVars, historyVars
  <2>2. worker'[h].pc # "sendto"
    BY <1>5, <1>14 DEF ConnectFails, Loop
  <2> QED BY <1>3, <1>14, <2>1, <2>2
<1>13. CASE Release(h)
  <2>1. /\ mutex' = [mutex EXCEPT ![p] = None] /\ UNCHANGED <<lists, socket, pid, unreplaced, called>>
        /\ \/ done' = done
           \/ \E k : done' = [done EXCEPT ![p][k] = w.now]
    BY <1>13 DEF Release, dictVars
  <2>2. None \in 0..Orphaned
    BY WorkerAssumption DEF None, Orphaned
  <2>3. mutex' \in [Proc -> 0..Orphaned] /\ done' \in [Proc -> [Target -> 0..MaxTime]]
    <3>1. done' \in [Proc -> [Target -> 0..MaxTime]]
      <4>1. CASE done' = done
        BY <1>3, <4>1
      <4>2. ASSUME NEW k, done' = [done EXCEPT ![p][k] = w.now]
            PROVE  done' \in [Proc -> [Target -> 0..MaxTime]]
        <5>1. done[p] \in [Target -> 0..MaxTime]
          BY <1>2, <1>3
        <5>2. [done[p] EXCEPT ![k] = w.now] \in [Target -> 0..MaxTime]
          BY <1>2, <5>1
        <5>3. done' = [done EXCEPT ![p] = [done[p] EXCEPT ![k] = w.now]]
          BY <4>2
        <5> QED BY <1>3, <5>2, <5>3
      <4> QED BY <2>1, <4>1, <4>2
    <3> QED BY <1>3, <2>1, <2>2, <3>1
  <2>4. worker'[h].pc # "sendto"
    <3>1. CASE w.pc = "release" /\ w.packet < Packets
      BY <1>1, <1>13, <3>1 DEF Release, WorkerRecord
    <3>2. CASE ~(w.pc = "release" /\ w.packet < Packets)
      BY <1>1, <1>13, <3>2 DEF Release, WorkerRecord
    <3> QED BY <3>1, <3>2
  <2> QED BY <1>3, <2>1, <2>3, <2>4
<1> QED BY <1>6, <1>8, <1>9, <1>10, <1>11, <1>12, <1>13, <1>14 DEF Process

LEMMA ProcessKeeps ==
  ASSUME WorkerInv, NEW h \in Handle, Process(h)
  PROVE  WorkerInv'
<1> DEFINE p == worker[h].proc
<1>1. /\ h \in 1..made
      /\ UNCHANGED <<clock, running, pc, adding, PID, WORKER_THREAD, targets, made>>
      /\ worker' = [worker EXCEPT ![h] = worker'[h]]
  BY ProcessFrame
<1>2. worker \in [Handle -> WorkerRecord] /\ p \in Proc /\ p \in running
  BY <1>1, RecordOf DEF WorkerInv, OwnInv, WorkerRecord
<1>3. Kept(worker'[h], Len(targets[p])) /\ worker'[h].proc = p
  BY ProcessOfItself
<1>4. worker' \in [Handle -> WorkerRecord] /\ \A i \in Handle \ {h} : worker'[i] = worker[i]
  BY <1>1, <1>2, <1>3 DEF Kept
<1>5. /\ lists' \in [Proc -> Seq(0..MaxTime)] /\ \A q \in Proc : DOMAIN lists'[q] = DOMAIN lists[q]
      /\ mutex' \in [Proc -> 0..Orphaned]
      /\ done' \in [Proc -> [Target -> 0..MaxTime]]
      /\ called' = called
  BY ProcessEffects
<1> DEFINE Same == UNCHANGED <<socket, pid, unreplaced>> /\ (worker'[h].pc = "sendto" => Connected(p))
           Opened == /\ pid' = [pid EXCEPT ![p] = p] /\ socket' = [socket EXCEPT ![p] = p]
                     /\ UNCHANGED unreplaced
           Failed == /\ pid' = [pid EXCEPT ![p] = p] /\ UNCHANGED socket
                     /\ unreplaced' = IF socket[p] = NoProc THEN unreplaced ELSE unreplaced \cup {p}
                     /\ worker'[h].pc # "sendto"
<1>13. Same \/ Opened \/ Failed
  BY ProcessEffects DEF ConnectFails
<1>6. pid \in [Proc -> Proc \cup {NoProc}] /\ socket \in [Proc -> Proc \cup {NoProc}]
  BY DEF WorkerInv, WorkerTypeOK
<1>7. /\ pid' \in [Proc -> Proc \cup {NoProc}] /\ socket' \in [Proc -> Proc \cup {NoProc}]
      /\ unreplaced' \subseteq running /\ unreplaced \subseteq unreplaced'
  BY <1>2, <1>13, <1>6 DEF WorkerInv, WorkerTypeOK
<1>8. \A q \in Proc : \A n \in DOMAIN targets[q] : targets[q][n].list \in DOMAIN lists'[q]
  BY <1>5 DEF WorkerInv, WorkerTypeOK
<1>9. WorkerTypeOK'
  BY <1>1, <1>4, <1>5, <1>7, <1>8 DEF WorkerInv, WorkerTypeOK, WorkerRecord
<1>10. \A i \in 1..made : i \in Handle
  BY RecordOf
<1>11. \A i \in 1..made : worker'[i].proc = worker[i].proc
  BY <1>3, <1>4, <1>10
<1>12. OwnInv'
  <2>1. ASSUME NEW i \in 1..made' PROVE worker'[i].proc \in running' /\ AtTarget(i)'
    <3>1. CASE i = h
      BY <1>1, <1>2, <1>3, <3>1 DEF Kept, AtTarget
    <3>2. CASE i # h
      BY <1>1, <1>4, <1>10, <2>1, <3>2 DEF WorkerInv, OwnInv, AtTarget
    <3> QED BY <3>1, <3>2
  <2>2. running \subseteq Proc /\ running' = running
    BY <1>1 DEF WorkerInv, WorkerTypeOK
  <2>3. \A q \in Proc : (pid'[q] = pid[q] /\ socket'[q] = socket[q]) \/ (q = p /\ pid'[q] = p)
    <3>1. CASE Same
      BY <3>1
    <3>2. CASE Opened
      BY <1>2, <1>6, <3>2
    <3>3. CASE Failed
      BY <1>2, <1>6, <3>3
    <3> QED BY <1>13, <3>1, <3>2, <3>3
  <2>4. \A q \in running' : pid'[q] \in running' \cup {NoProc}
    BY <1>2, <2>2, <2>3 DEF WorkerInv, OwnInv
  <2>5. CASE Same
    <3>1. \A q \in running' : pid'[q] = q /\ socket'[q] # NoProc => socket'[q] = q \/ q \in unreplaced'
      BY <2>2, <2>5 DEF WorkerInv, OwnInv
    <3>2. \A i \in 1..made' : worker'[i].pc = "sendto" => Connected(worker[i].proc)'
      BY <1>1, <1>3, <1>4, <1>10, <1>11, <2>5 DEF WorkerInv, OwnInv, Connected
    <3> QED BY <2>1, <2>2, <2>4, <3>1, <3>2, <1>1 DEF WorkerInv, OwnInv
  <2>6. CASE Opened
    <3>1. pid'[p] = p /\ socket'[p] = p /\ \A q \in Proc \ {p} : pid'[q] = pid[q] /\ socket'[q] = socket[q]
      BY <1>2, <1>6, <2>6
    <3>2. \A q \in running' : pid'[q] = q /\ socket'[q] # NoProc => socket'[q] = q \/ q \in unreplaced'
      BY <2>2, <2>6, <3>1 DEF WorkerInv, OwnInv
    <3>3. p # NoProc
      BY <1>2, WorkerAssumption
    <3>4. \A i \in 1..made' : worker'[i].pc = "sendto" => Connected(worker[i].proc)'
      BY <1>1, <1>3, <1>4, <1>10, <1>11, <2>2, <3>1, <3>3 DEF WorkerInv, OwnInv, Connected
    <3> QED BY <2>1, <2>2, <2>4, <3>2, <3>4, <1>1 DEF WorkerInv, OwnInv
  <2>7. CASE Failed
    <3>1. /\ pid'[p] = p /\ \A q \in Proc \ {p} : pid'[q] = pid[q]
          /\ socket' = socket /\ (socket[p] # NoProc => p \in unreplaced') /\ unreplaced \subseteq unreplaced'
      BY <1>2, <1>6, <2>7
    <3>2. \A q \in running' : pid'[q] = q /\ socket'[q] # NoProc => socket'[q] = q \/ q \in unreplaced'
      BY <2>2, <3>1 DEF WorkerInv, OwnInv
    <3>3. \A i \in 1..made' : worker'[i].pc = "sendto" => Connected(worker[i].proc)'
      BY <1>1, <1>3, <1>4, <1>10, <1>11, <2>2, <2>7, <3>1 DEF WorkerInv, OwnInv, Connected
    <3> QED BY <2>1, <2>2, <2>4, <3>2, <3>3, <1>1 DEF WorkerInv, OwnInv
  <2> QED BY <1>13, <2>5, <2>6, <2>7
<1> QED BY <1>9, <1>12 DEF WorkerInv

LEMMA WorkerNextKeeps == WorkerInv /\ [WorkerNext]_workerVars => WorkerInv'
<1> SUFFICES ASSUME WorkerInv, [WorkerNext]_workerVars PROVE WorkerInv'
  OBVIOUS
<1>1. CASE UNCHANGED workerVars
  BY <1>1 DEF workerVars, appVars, globalVars, dictVars, threadVars, senderVars, historyVars,
              WorkerInv, WorkerTypeOK, OwnInv, AtTarget, Connected
<1>2. CASE IntervalPasses
  <2>1. clock' \in 1..MaxTime
    BY <1>2, WorkerAssumption DEF IntervalPasses, WorkerInv, WorkerTypeOK
  <2>2. UNCHANGED <<running, pc, adding, PID, WORKER_THREAD, targets, lists, made, worker, mutex,
                    socket, pid, unreplaced, called, done>>
    BY <1>2 DEF IntervalPasses, appVars, globalVars, dictVars, threadVars, senderVars, historyVars
  <2> QED BY <2>1, <2>2 DEF WorkerInv, WorkerTypeOK, OwnInv, AtTarget, Connected
<1> QED BY <1>1, <1>2, AppKeeps, ForkKeeps, ProcessKeeps DEF WorkerNext

\* The inductive invariant, for any number of processes and of application threads: every
\* worker belongs to a process that runs and is at a target that is there, and what a
\* process has of a socket it opened itself, will open anew or has failed to (worker.py
\* 46-72, networking.py 127-159).
THEOREM WorkerInvariant == WorkerSpec => []WorkerInv
BY WorkerInitInv, WorkerNextKeeps, PTL DEF WorkerSpec

\* The worker's state keeps its type: no index into the dictionary is out of range.
THEOREM WorkerTypeCorrect == WorkerSpec => []WorkerTypeOK
<1>1. WorkerInv => WorkerTypeOK
  BY DEF WorkerInv
<1> QED BY <1>1, WorkerInvariant, PTL

\* A packet leaves through a socket of the process that sends it, whenever the process
\* was forked and however many workers it has, but in a process that failed to replace
\* the socket it inherited (networking.py 127-159).
THEOREM OwnSocketHolds == WorkerSpec => []OwnSocket
<1>1. WorkerInv => OwnSocket
  BY DEF WorkerInv, OwnInv, OwnSocket, Alive, Connected
<1> QED BY <1>1, WorkerInvariant, PTL

-----------------------------------------------------------------------------
\* Each process has one application thread.
OneThread == \A t, u \in Thread : t = u

\* A worker is the one its process knows of, and known as started in that process: where
\* another may be started, there is none.
SingleInv ==
  /\ \A p \in Proc : PID[p] \in running
  /\ \A h \in 1..made : WORKER_THREAD[worker[h].proc] = h /\ PID[worker[h].proc] = worker[h].proc
  /\ \A p \in Proc, t \in Thread :
       /\ pc[p][t] \in {"set_pid", "create"} => \A h \in 1..made : worker[h].proc # p
       /\ pc[p][t] = "create" => PID[p] = p
       /\ pc[p][t] \in {"daemon", "start"} =>
            \E h \in 1..made : WORKER_THREAD[p] = h /\ worker[h].proc = p /\ worker[h].pc = "new"
       /\ pc[p][t] # "error"

\* A thread inserts a pair that is not there; no pair is there twice, and none was
\* reported on later than its list says.
AddingInv ==
  \A p \in Proc, t \in Thread :
    adding[p][t] # {} => pc[p][t] = "insert" /\ adding[p][t] \cap Keys(p) = {}

DictMarked(p) ==
  /\ \A m, n \in DOMAIN targets[p] : targets[p][m].target = targets[p][n].target => m = n
  /\ \A n \in DOMAIN targets[p] : done[p][targets[p][n].target] <= lists[p][targets[p][n].list]
  /\ \A k \in Target : p \notin running \/ k \notin Keys(p) => done[p][k] = 0

\* The worker that reports on a target has the list of that target.
Sending == {"acquire", "connect", "sendto", "release", "release.raise"}

WorkerMarked(w, dict, values) ==
  /\ w.pc \in Looping \ {"next"} => w.list = dict[w.position].list
  /\ w.pc = "mark" => w.now > values[w.list]
  /\ w.pc \in Sending => w.now = values[w.list]

MarkedInv ==
  /\ AddingInv
  /\ \A p \in Proc : DictMarked(p)
  /\ \A h \in 1..made : WorkerMarked(worker[h], targets[worker[h].proc], lists[worker[h].proc])

LEMMA SingleInitInv == WorkerInit => SingleInv /\ MarkedInv
<1> SUFFICES ASSUME WorkerInit PROVE SingleInv /\ MarkedInv
  OBVIOUS
<1>1. \A p \in Proc, t \in Thread : pc[p][t] \in {"rest", Absent} /\ adding[p][t] = {}
  BY DEF WorkerInit
<1>2. \A p \in Proc : targets[p] = <<>> /\ PID[p] = First
  BY DEF WorkerInit
<1>3. 1..made = {} /\ running = {First}
  BY DEF WorkerInit
<1>4. \A p \in Proc : \A k \in Target : done[p][k] = 0
  BY DEF WorkerInit
<1> QED BY <1>1, <1>2, <1>3, <1>4 DEF SingleInv, MarkedInv, AddingInv, DictMarked, Absent

\* What SingleInv says of one process and its thread.
StartsOnce(p, t) ==
  /\ pc[p][t] \in {"set_pid", "create"} => \A h \in 1..made : worker[h].proc # p
  /\ pc[p][t] = "create" => PID[p] = p
  /\ pc[p][t] \in {"daemon", "start"} =>
       \E h \in 1..made : WORKER_THREAD[p] = h /\ worker[h].proc = p /\ worker[h].pc = "new"
  /\ pc[p][t] # "error"

LEMMA AppKeepsSingle ==
  ASSUME OneThread, WorkerInv, SingleInv, NEW p \in Proc, NEW t \in Thread,
         CheckStatement(p, t) \/ ConnectEvt(p, t) \/ \E k \in Target : AddTarget(p, t, k)
  PROVE  SingleInv'
<1>1. /\ p \in running /\ pc' = [pc EXCEPT ![p][t] = pc'[p][t]] /\ UNCHANGED running
  BY AppFrame
<1>2. /\ pc \in [Proc -> [Thread -> Steps]] /\ PID \in [Proc -> Proc]
      /\ WORKER_THREAD \in [Proc -> 0..made] /\ made \in 0..MaxThreads /\ MaxThreads \in Nat
      /\ worker \in [Handle -> WorkerRecord] /\ \A h \in 1..made : h \in Handle
  BY RecordOf, WorkerAssumption DEF WorkerInv, WorkerTypeOK, WorkerRecord
<1>3. \A q \in Proc, u \in Thread : StartsOnce(q, u)
  BY DEF SingleInv, StartsOnce
<1>4. \A q \in Proc, u \in Thread : (q = p /\ u = t) \/ (q # p /\ pc'[q][u] = pc[q][u])
  BY <1>1, <1>2 DEF OneThread
<1>5. SUFFICES /\ \A q \in Proc : PID'[q] \in running
               /\ \A h \in 1..made' : /\ WORKER_THREAD'[worker'[h].proc] = h
                                      /\ PID'[worker'[h].proc] = worker'[h].proc
               /\ \A q \in Proc, u \in Thread : StartsOnce(q, u)'
  BY <1>1 DEF SingleInv, StartsOnce
<1>6. CASE UNCHANGED <<PID, WORKER_THREAD, made, worker>> /\ pc'[p][t] \in {"rest", "check", "insert"}
  BY <1>3, <1>4, <1>6 DEF SingleInv, StartsOnce
<1>7. CASE Insert(p, t) \/ \E k \in Target : Inserts(p, t, k)
  <2>1. UNCHANGED <<globalVars, threadVars>>
    BY <1>7 DEF Insert, Inserts
  <2>2. \E from \in {"rest", "insert"}, to \in {"check", "insert"} : Goes(p, t, from, to)
    BY <1>7 DEF Insert, Inserts
  <2>3. pc'[p][t] \in {"rest", "check", "insert"}
    BY <1>2, <2>2 DEF Goes
  <2> QED BY <1>6, <2>1, <2>3 DEF globalVars, threadVars
<1>8. ASSUME NEW from \in {"rest", "check"}, Checks(p, t, from)
      PROVE  SingleInv'
  <2>1. UNCHANGED <<PID, WORKER_THREAD, made, worker>>
    BY <1>8 DEF Checks, globalVars, threadVars
  <2>2. CASE NoWorker(p)
    <3>1. pc'[p][t] = "set_pid"
      BY <1>2, <1>8, <2>2 DEF Checks, Goes
    <3>2. \A h \in 1..made : worker[h].proc # p
      BY <1>2, <2>2 DEF SingleInv, NoWorker, None
    <3>3. StartsOnce(p, t)'
      BY <2>1, <3>1, <3>2 DEF StartsOnce
    <3>4. /\ \A q \in Proc : PID'[q] \in running
          /\ \A h \in 1..made' : /\ WORKER_THREAD'[worker'[h].proc] = h
                                 /\ PID'[worker'[h].proc] = worker'[h].proc
          /\ \A q \in Proc, u \in Thread : StartsOnce(q, u)'
      BY <1>3, <1>4, <2>1, <3>3 DEF SingleInv, StartsOnce
    <3> QED BY <1>1, <3>4 DEF SingleInv, StartsOnce
  <2>3. CASE ~NoWorker(p)
    <3>1. pc'[p][t] = "rest"
      BY <1>2, <1>8, <2>3 DEF Checks, Goes
    <3>2. /\ \A q \in Proc : PID'[q] \in running
          /\ \A h \in 1..made' : /\ WORKER_THREAD'[worker'[h].proc] = h
                                 /\ PID'[worker'[h].proc] = worker'[h].proc
          /\ \A q \in Proc, u \in Thread : StartsOnce(q, u)'
      BY <1>6, <2>1, <3>1
    <3> QED BY <1>1, <3>2 DEF SingleInv, StartsOnce
  <2> QED BY <2>2, <2>3
<1>9. CASE SetPid(p, t)
  <2>1. /\ pc[p][t] = "set_pid" /\ pc'[p][t] = "create" /\ PID' = [PID EXCEPT ![p] = p]
        /\ UNCHANGED <<WORKER_THREAD, made, worker>>
    BY <1>2, <1>9 DEF SetPid, Goes, threadVars
  <2>2. \A h \in 1..made : worker[h].proc # p
    BY <1>3, <2>1 DEF StartsOnce
  <2>3. PID'[p] = p /\ \A q \in Proc : q # p => PID'[q] = PID[q]
    BY <1>2, <2>1
  <2>4. \A q \in Proc : PID'[q] \in running
    BY <1>1, <2>3 DEF SingleInv
  <2>5. \A h \in 1..made : worker[h].proc \in Proc
    BY <1>2 DEF WorkerRecord
  <2>6. StartsOnce(p, t)'
    BY <2>1, <2>2, <2>3 DEF StartsOnce
  <2>7. \A q \in Proc, u \in Thread : q # p => StartsOnce(q, u)'
    BY <1>3, <1>4, <2>1, <2>3 DEF StartsOnce
  <2> QED BY <1>4, <2>1, <2>2, <2>3, <2>4, <2>5, <2>6, <2>7 DEF SingleInv
<1>10. CASE CreateThread(p, t)
  <2>1. /\ pc[p][t] = "create" /\ pc'[p][t] = "daemon" /\ made < MaxThreads /\ made' = made + 1
        /\ worker' = [worker EXCEPT ![made + 1] = NewWorker(p)]
        /\ WORKER_THREAD' = [WORKER_THREAD EXCEPT ![p] = made + 1] /\ UNCHANGED PID
    BY <1>2, <1>10 DEF CreateThread, Goes
  <2>2. PID[p] = p /\ \A h \in 1..made : worker[h].proc # p /\ worker[h].proc \in Proc
    BY <1>2, <1>3, <2>1 DEF StartsOnce, WorkerRecord
  <2>3. made + 1 \in Handle /\ made + 1 \in 1..made' /\ \A h \in 1..made' : h \in 1..made \/ h = made + 1
    BY <1>2, <2>1 DEF Handle
  <2>4. /\ worker'[made + 1] = NewWorker(p)
        /\ \A h \in 1..made : h # made + 1 /\ h \in 1..made' /\ worker'[h] = worker[h]
    BY <1>2, <2>1, <2>3
  <2>5. /\ NewWorker(p).proc = p /\ NewWorker(p).pc = "new"
    BY DEF NewWorker
  <2>6. WORKER_THREAD'[p] = made + 1 /\ \A q \in Proc : q # p => WORKER_THREAD'[q] = WORKER_THREAD[q]
    BY <1>2, <2>1
  <2>7. \A h \in 1..made' : WORKER_THREAD'[worker'[h].proc] = h /\ PID'[worker'[h].proc] = worker'[h].proc
    BY <2>1, <2>2, <2>3, <2>4, <2>5, <2>6 DEF SingleInv
  <2>8. StartsOnce(p, t)'
    BY <2>1, <2>3, <2>4, <2>5, <2>6 DEF StartsOnce
  <2>9. \A q \in Proc, u \in Thread : q # p => StartsOnce(q, u)'
    BY <1>3, <1>4, <2>1, <2>3, <2>4, <2>5, <2>6 DEF StartsOnce
  <2> QED BY <1>4, <2>1, <2>7, <2>8, <2>9 DEF SingleInv
<1>11. CASE SetDaemon(p, t)
  <2>1. PICK h \in 1..made : WORKER_THREAD[p] = h /\ worker[h].proc = p /\ worker[h].pc = "new"
    BY <1>3, <1>11 DEF SetDaemon, Goes, StartsOnce
  <2>2. pc'[p][t] = "start" /\ UNCHANGED <<PID, WORKER_THREAD, made, worker>>
    BY <1>2, <1>11, <2>1 DEF SetDaemon, Goes, Started, globalVars, threadVars
  <2>3. StartsOnce(p, t)'
    BY <2>1, <2>2 DEF StartsOnce
  <2> QED BY <1>3, <1>4, <2>2, <2>3 DEF SingleInv, StartsOnce
<1>12. CASE StartThread(p, t)
  <2>1. PICK h \in 1..made : WORKER_THREAD[p] = h /\ worker[h].proc = p /\ worker[h].pc = "new"
    BY <1>3, <1>12 DEF StartThread, Goes, StartsOnce
  <2>2. /\ pc'[p][t] = "rest" /\ worker' = [worker EXCEPT ![h].pc = "now"]
        /\ UNCHANGED <<PID, WORKER_THREAD, made>>
    BY <1>2, <1>12, <2>1 DEF StartThread, Goes, Started, globalVars
  <2>3. \A i \in 1..made : worker'[i].proc = worker[i].proc /\ (i # h => worker'[i] = worker[i])
    BY <1>2, <2>2 DEF WorkerRecord
  <2>4. StartsOnce(p, t)'
    BY <2>2 DEF StartsOnce
  <2>5. \A q \in Proc, u \in Thread : q # p => StartsOnce(q, u)'
    BY <1>3, <1>4, <2>1, <2>2, <2>3 DEF StartsOnce
  <2> QED BY <1>4, <2>2, <2>3, <2>4, <2>5 DEF SingleInv
<1>13. CASE \E from \in {"rest", "check"} : Checks(p, t, from)
  BY <1>1, <1>8, <1>13 DEF SingleInv, StartsOnce
<1> QED BY <1>7, <1>9, <1>10, <1>11, <1>12, <1>13, AppCases

LEMMA ForkKeepsSingle ==
  ASSUME OneThread, WorkerInv, SingleInv, NEW p \in Proc, NEW t \in Thread, NEW q \in Proc, Fork(p, t, q)
  PROVE  SingleInv'
<1>1. /\ q \notin running /\ running' = running \cup {q}
      /\ pc' = [pc EXCEPT ![q] = [u \in Thread |-> IF u = t THEN "rest" ELSE Absent]]
      /\ PID' = [PID EXCEPT ![q] = PID[p]]
      /\ WORKER_THREAD' = [WORKER_THREAD EXCEPT ![q] = WORKER_THREAD[p]]
      /\ UNCHANGED <<made, worker>>
  BY DEF Fork, threadVars
<1>2. /\ pc \in [Proc -> [Thread -> Steps]] /\ PID \in [Proc -> Proc] /\ WORKER_THREAD \in [Proc -> 0..made]
  BY DEF WorkerInv, WorkerTypeOK
<1>3. \A h \in 1..made : worker[h].proc \in running /\ worker[h].proc # q /\ worker[h].proc \in Proc
  BY <1>1 DEF WorkerInv, OwnInv, WorkerTypeOK
<1>4. \A r \in Proc : r # q => pc'[r] = pc[r] /\ PID'[r] = PID[r] /\ WORKER_THREAD'[r] = WORKER_THREAD[r]
  BY <1>1, <1>2
<1>5. PID'[q] = PID[p] /\ \A u \in Thread : pc'[q][u] \in {"rest", Absent}
  BY <1>1, <1>2
<1>6. \A r \in Proc : PID'[r] \in running'
  BY <1>1, <1>4, <1>5 DEF SingleInv
<1>7. \A h \in 1..made' : WORKER_THREAD'[worker'[h].proc] = h /\ PID'[worker'[h].proc] = worker'[h].proc
  BY <1>1, <1>3, <1>4 DEF SingleInv
<1>8. \A r \in Proc, u \in Thread : StartsOnce(r, u)'
  <2>1. \A r \in Proc, u \in Thread : r # q => StartsOnce(r, u)'
    BY <1>1, <1>4 DEF SingleInv, StartsOnce
  <2>2. \A u \in Thread : StartsOnce(q, u)'
    BY <1>5 DEF StartsOnce, Absent
  <2> QED BY <2>1, <2>2
<1> QED BY <1>6, <1>7, <1>8 DEF SingleInv, StartsOnce

LEMMA ProcessKeepsSingle ==
  ASSUME WorkerInv, SingleInv, NEW h \in Handle, Process(h)
  PROVE  SingleInv'
<1>1. /\ h \in 1..made /\ UNCHANGED <<running, pc, PID, WORKER_THREAD, made>>
      /\ worker' = [worker EXCEPT ![h] = worker'[h]]
  BY ProcessFrame
<1>2. worker'[h].proc = worker[h].proc /\ worker[h].pc # "new"
  BY ProcessOfItself
<1>3. \A i \in 1..made : i # h => worker'[i] = worker[i]
  BY <1>1, RecordOf
<1> QED BY <1>1, <1>2, <1>3 DEF SingleInv

\* The inductive invariant for processes with one application thread: the worker a
\* process has is the one that _WORKER_THREAD and _PID say it has (worker.py 33-50).
THEOREM SingleInvariant == ASSUME OneThread PROVE WorkerSpec => []SingleInv
<1>1. WorkerInit => SingleInv
  BY SingleInitInv
<1>2. WorkerInv /\ SingleInv /\ [WorkerNext]_workerVars => SingleInv'
  <2> SUFFICES ASSUME WorkerInv, SingleInv, [WorkerNext]_workerVars PROVE SingleInv'
    OBVIOUS
  <2>1. CASE UNCHANGED workerVars
    BY <2>1 DEF workerVars, appVars, globalVars, threadVars, SingleInv
  <2>2. CASE IntervalPasses
    BY <2>2 DEF IntervalPasses, appVars, globalVars, threadVars, SingleInv
  <2> QED BY <2>1, <2>2, AppKeepsSingle, ForkKeepsSingle, ProcessKeepsSingle DEF WorkerNext
<1> QED BY <1>1, <1>2, WorkerInvariant, PTL DEF WorkerSpec

\* A process has one background thread at most, and starting it raises no error in the
\* application, if one thread of each process creates and connects its engines
\* (worker.py 33-50).
THEOREM OneWorkerHolds == ASSUME OneThread PROVE WorkerSpec => []OneWorker
<1>1. WorkerInv /\ SingleInv => OneWorker
  <2> SUFFICES ASSUME WorkerInv, SingleInv, NEW p \in Proc
               PROVE  /\ Cardinality({h \in Alive : worker[h].proc = p}) <= 1
                      /\ \A t \in Thread : pc[p][t] # "error"
    BY DEF OneWorker
  <2> DEFINE workers == {h \in Alive : worker[h].proc = p}
             only == {WORKER_THREAD[p]}
  <2>1. workers \subseteq only
    BY DEF SingleInv, Alive
  <2>2. IsFiniteSet(only) /\ Cardinality(only) = 1
    BY FS_Singleton
  <2>3. Cardinality(workers) <= 1
    BY <2>1, <2>2, FS_Subset
  <2> QED BY <2>3 DEF SingleInv
<1> QED BY <1>1, WorkerInvariant, SingleInvariant, PTL

-----------------------------------------------------------------------------
Entry == [target : Target, list : Nat]

LEMMA DictOf ==
  ASSUME WorkerInv, NEW p \in Proc
  PROVE  /\ targets[p] \in Seq(Entry) /\ lists[p] \in Seq(0..MaxTime)
         /\ Len(targets[p]) \in Nat /\ DOMAIN targets[p] = 1..Len(targets[p])
         /\ Len(lists[p]) \in Nat /\ DOMAIN lists[p] = 1..Len(lists[p])
         /\ done[p] \in [Target -> 0..MaxTime]
         /\ \A n \in 1..Len(targets[p]) :
              /\ targets[p][n] \in Entry /\ targets[p][n].target \in Target
              /\ targets[p][n].list \in 1..Len(lists[p])
              /\ lists[p][targets[p][n].list] \in 0..MaxTime
<1>1. targets[p] \in Seq(Entry) /\ lists[p] \in Seq(0..MaxTime) /\ done[p] \in [Target -> 0..MaxTime]
  BY DEF WorkerInv, WorkerTypeOK, Entry
<1>2. /\ Len(targets[p]) \in Nat /\ DOMAIN targets[p] = 1..Len(targets[p])
      /\ Len(lists[p]) \in Nat /\ DOMAIN lists[p] = 1..Len(lists[p])
  <2> HIDE DEF Entry
  <2> QED BY <1>1
<1>3. ASSUME NEW n \in 1..Len(targets[p])
      PROVE  /\ targets[p][n] \in Entry /\ targets[p][n].target \in Target
             /\ targets[p][n].list \in 1..Len(lists[p])
             /\ lists[p][targets[p][n].list] \in 0..MaxTime
  <2>1. targets[p][n] \in Entry
    BY <1>1, ElementOfSeq
  <2>2. targets[p][n].list \in 1..Len(lists[p])
    BY <1>2 DEF WorkerInv, WorkerTypeOK
  <2>3. lists[p][targets[p][n].list] \in 0..MaxTime
    BY <1>1, <2>2, ElementOfSeq
  <2> QED BY <2>1, <2>2, <2>3 DEF Entry
<1> QED BY <1>1, <1>2, <1>3

\* A worker in the middle of its loop is at an entry of the dictionary.
LEMMA WorkerAt ==
  ASSUME WorkerInv, NEW h \in 1..made
  PROVE  LET w == worker[h]
             p == w.proc
         IN  /\ p \in Proc /\ p \in running /\ w \in WorkerRecord
             /\ w.pc \in Looping => w.position \in 1..Len(targets[p])
<1> DEFINE w == worker[h]
           p == w.proc
<1>1. w \in WorkerRecord /\ p \in Proc /\ w.position \in Nat /\ w.size \in Nat
  BY RecordOf DEF WorkerRecord
<1>2. p \in running /\ AtTarget(h)
  BY DEF WorkerInv, OwnInv
<1>3. Len(targets[p]) \in Nat
  BY <1>1, DictOf
<1> QED BY <1>1, <1>2, <1>3 DEF AtTarget

\* A step that leaves the dictionary and the reports alone, and makes no worker begin
\* to loop.
LEMMA DictKept ==
  ASSUME MarkedInv, UNCHANGED <<targets, lists, done, running>>
  PROVE  \A p \in Proc : DictMarked(p)'
BY DEF MarkedInv, DictMarked, Keys

LEMMA InsertKeepsMarked ==
  ASSUME OneThread, WorkerInv, MarkedInv, NEW p \in Proc, NEW t \in Thread, Insert(p, t)
  PROVE  MarkedInv'
<1> DEFINE s == targets[p]
           address == Len(lists[p]) + 1
<1>1. PICK k \in adding[p][t] :
        /\ lists' = [lists EXCEPT ![p] = Append(@, 0)]
        /\ targets' = [targets EXCEPT ![p] =
             IF k \in Keys(p)
             THEN [n \in DOMAIN @ |-> IF @[n].target = k THEN [@[n] EXCEPT !.list = address] ELSE @[n]]
             ELSE Append(@, [target |-> k, list |-> address])]
        /\ adding' = [adding EXCEPT ![p][t] = {}]
        /\ UNCHANGED <<running, made, worker, done>>
  BY DEF Insert, threadVars, historyVars
<1>2. /\ adding \in [Proc -> [Thread -> SUBSET Target]]
      /\ lists \in [Proc -> Seq(0..MaxTime)] /\ targets \in [Proc -> Seq(Entry)]
  BY DEF WorkerInv, WorkerTypeOK, Entry
<1>3. k \in Target /\ k \notin Keys(p)
  BY <1>2 DEF MarkedInv, AddingInv
<1>4. pc' = [pc EXCEPT ![p][t] = pc'[p][t]] /\ pc \in [Proc -> [Thread -> Steps]] /\ p \in running
  <2>1. CheckStatement(p, t)
    BY DEF CheckStatement
  <2> QED BY <2>1, AppFrame DEF WorkerInv, WorkerTypeOK
<1>5. \A q \in Proc : q # p => targets'[q] = targets[q] /\ lists'[q] = lists[q]
  BY <1>1
<1>6. /\ Len(s) \in Nat /\ DOMAIN s = 1..Len(s) /\ Len(lists[p]) \in Nat
      /\ \A n \in 1..Len(s) : s[n].list \in 1..Len(lists[p])
  BY DictOf
<1>7. /\ DOMAIN targets'[p] = 1..(Len(s) + 1)
      /\ \A n \in 1..Len(s) : targets'[p][n] = s[n]
      /\ targets'[p][Len(s) + 1].target = k /\ targets'[p][Len(s) + 1].list = address
  <2> DEFINE new == [target |-> k, list |-> address]
  <2>1. targets'[p] = Append(s, new)
    BY <1>1, <1>2, <1>3
  <2>2. s \in Seq(Entry) /\ new \in Entry /\ new.target = k /\ new.list = address
    <3>1. s \in Seq(Entry)
      BY DictOf
    <3>2. address \in Nat
      BY <1>6
    <3> HIDE DEF s, address
    <3> QED BY <1>3, <3>1, <3>2 DEF Entry
  <2> HIDE DEF new, address
  <2>3. /\ DOMAIN targets'[p] = 1..(Len(s) + 1)
        /\ \A n \in 1..Len(s) : targets'[p][n] = s[n]
        /\ targets'[p][Len(s) + 1] = new
    BY <2>1, <2>2
  <2> QED BY <2>2, <2>3
<1>8. /\ \A a \in 1..Len(lists[p]) : lists'[p][a] = lists[p][a]
      /\ lists'[p][address] = 0
  <2>1. lists[p] \in Seq(0..MaxTime) /\ lists'[p] = Append(lists[p], 0)
    BY <1>1, <1>2
  <2> QED BY <2>1
<1>9. AddingInv'
  <2>1. \A q \in Proc, u \in Thread : (q = p /\ u = t) \/ q # p
    BY DEF OneThread
  <2>2. adding'[p][t] = {}
    BY <1>1, <1>2
  <2>3. \A q \in Proc, u \in Thread : q # p => pc'[q][u] = pc[q][u] /\ adding'[q][u] = adding[q][u]
    BY <1>1, <1>2, <1>4
  <2>4. \A q \in Proc : q # p => Keys(q)' = Keys(q)
    BY <1>5 DEF Keys
  <2> QED BY <2>1, <2>2, <2>3, <2>4 DEF MarkedInv, AddingInv
<1>10. DictMarked(p)'
  <2>1. \A n \in 1..(Len(s) + 1) : n \in 1..Len(s) \/ n = Len(s) + 1
    BY <1>6
  <2>2. \A n \in 1..Len(s) : s[n].target # k
    BY <1>3, <1>6 DEF Keys
  <2>3. \A m, n \in 1..(Len(s) + 1) : targets'[p][m].target = targets'[p][n].target => m = n
    <3>1. \A m, n \in 1..Len(s) : s[m].target = s[n].target => m = n
      BY <1>6 DEF MarkedInv, DictMarked
    <3> HIDE DEF s, address
    <3> QED BY <1>7, <2>1, <2>2, <3>1
  <2>4. \A n \in 1..(Len(s) + 1) : done'[p][targets'[p][n].target] <= lists'[p][targets'[p][n].list]
    <3>1. \A n \in 1..Len(s) : done'[p][targets'[p][n].target] <= lists'[p][targets'[p][n].list]
      BY <1>1, <1>6, <1>7, <1>8 DEF MarkedInv, DictMarked
    <3>2. done'[p][targets'[p][Len(s) + 1].target] <= lists'[p][targets'[p][Len(s) + 1].list]
      BY <1>1, <1>3, <1>7, <1>8 DEF MarkedInv, DictMarked
    <3> QED BY <2>1, <3>1, <3>2
  <2>5. Keys(p) \subseteq Keys(p)'
    BY <1>6, <1>7 DEF Keys
  <2>6. \A j \in Target : p \notin running' \/ j \notin Keys(p)' => done'[p][j] = 0
    BY <1>1, <2>5 DEF MarkedInv, DictMarked
  <2> QED BY <1>7, <2>3, <2>4, <2>6 DEF DictMarked
<1>11. \A q \in Proc : q # p => DictMarked(q)'
  BY <1>1, <1>5 DEF MarkedInv, DictMarked, Keys
<1>12. ASSUME NEW h \in 1..made'
       PROVE  WorkerMarked(worker[h], targets[worker[h].proc], lists[worker[h].proc])'
  <2> DEFINE w == worker[h]
  <2>1. h \in 1..made /\ worker'[h] = w
    BY <1>1
  <2>2. WorkerMarked(w, targets[w.proc], lists[w.proc])
    BY <2>1 DEF MarkedInv
  <2>3. w.proc \in Proc /\ (w.pc \in Looping => w.position \in 1..Len(targets[w.proc]))
    BY <2>1, WorkerAt
  <2>4. CASE w.proc # p
    BY <1>5, <2>1, <2>2, <2>3, <2>4
  <2>5. CASE w.proc = p
    <3>1. "mark" \in Looping \ {"next"} /\ Sending \subseteq Looping \ {"next"}
      BY DEF Looping, Sending
    <3>2. WorkerMarked(w, targets'[p], lists'[p])
      BY <1>6, <1>7, <1>8, <2>2, <2>3, <2>5, <3>1 DEF WorkerMarked
    <3> QED BY <2>1, <2>5, <3>2
  <2> QED BY <2>4, <2>5
<1> QED BY <1>9, <1>10, <1>11, <1>12 DEF MarkedInv

\* A step of an application thread changes no worker but one that it makes or starts.
LEMMA AppMovesNone ==
  ASSUME WorkerInv, NEW p \in Proc, NEW t \in Thread,
         CheckStatement(p, t) \/ ConnectEvt(p, t) \/ \E k \in Target : AddTarget(p, t, k)
  PROVE  /\ \A h \in 1..made' : (h \in 1..made /\ worker'[h] = worker[h]) \/ worker'[h].pc \in {"new", "now"}
         /\ \A h \in Handle : worker'[h] = worker[h] \/ worker'[h].pc \in {"new", "now"}
<1>1. /\ made \in 0..MaxThreads /\ MaxThreads \in Nat
      /\ WORKER_THREAD \in [Proc -> 0..made]
      /\ worker \in [Handle -> WorkerRecord] /\ \A h \in 1..made : h \in Handle
  BY RecordOf, WorkerAssumption DEF WorkerInv, WorkerTypeOK, WorkerRecord
<1>2. CASE UNCHANGED <<made, worker>>
  BY <1>2
<1>3. CASE CreateThread(p, t)
  <2>1. made' = made + 1 /\ worker' = [worker EXCEPT ![made + 1] = NewWorker(p)] /\ made < MaxThreads
    BY <1>3 DEF CreateThread
  <2>2. \A h \in 1..made' : h \in 1..made \/ h = made + 1
    BY <1>1, <2>1
  <2>3. made + 1 \in Handle /\ NewWorker(p).pc = "new"
    BY <1>1, <2>1 DEF Handle, NewWorker
  <2>4. \A h \in 1..made : h # made + 1
    BY <1>1
  <2> QED BY <1>1, <2>1, <2>2, <2>3, <2>4
<1>4. CASE StartThread(p, t)
  <2> DEFINE i == WORKER_THREAD[p]
  <2>1. made' = made /\ worker' = [worker EXCEPT ![i].pc = IF Started(i) THEN @ ELSE "now"]
    BY <1>4 DEF StartThread
  <2>2. \A h \in Handle : h # i => worker'[h] = worker[h]
    BY <1>1, <2>1
  <2>3. i \in Handle => worker'[i] = worker[i] \/ worker'[i].pc = "now"
    <3>1. CASE Started(i)
      BY <1>1, <2>1, <3>1 DEF WorkerRecord
    <3>2. CASE ~Started(i)
      BY <1>1, <2>1, <3>2 DEF WorkerRecord
    <3> QED BY <3>1, <3>2
  <2> QED BY <1>1, <2>1, <2>2, <2>3
<1> QED BY <1>2, <1>3, <1>4, AppCases DEF Checks, SetPid, SetDaemon, Insert, Inserts, threadVars

LEMMA AppKeepsMarked ==
  ASSUME OneThread, WorkerInv, MarkedInv, NEW p \in Proc, NEW t \in Thread,
         CheckStatement(p, t) \/ ConnectEvt(p, t) \/ \E k \in Target : AddTarget(p, t, k)
  PROVE  MarkedInv'
<1>1. CASE Insert(p, t)
  BY <1>1, InsertKeepsMarked
<1>2. ASSUME ~Insert(p, t) PROVE MarkedInv'
  <2>1. /\ pc' = [pc EXCEPT ![p][t] = pc'[p][t]] /\ UNCHANGED <<running, done>>
    BY AppFrame
  <2>2. /\ pc \in [Proc -> [Thread -> Steps]] /\ adding \in [Proc -> [Thread -> SUBSET Target]]
    BY DEF WorkerInv, WorkerTypeOK
  <2>3. UNCHANGED <<targets, lists>>
    BY <1>2, AppCases DEF Checks, SetPid, CreateThread, SetDaemon, StartThread, Inserts, dictVars
  <2>4. \A q \in Proc : DictMarked(q)'
    BY <2>1, <2>3, DictKept
  <2>5. AddingInv'
    <3>1. \A q \in Proc : Keys(q)' = Keys(q)
      BY <2>3 DEF Keys
    <3>2. \A q \in Proc, u \in Thread : (q = p /\ u = t) \/ (q # p /\ pc'[q][u] = pc[q][u])
      BY <2>1, <2>2 DEF OneThread
    <3>3. CASE UNCHANGED adding /\ pc[p][t] # "insert"
      <4>1. adding'[p][t] = {}
        BY <3>3 DEF MarkedInv, AddingInv
      <4> QED BY <3>1, <3>2, <3>3, <4>1 DEF MarkedInv, AddingInv
    <3>4. ASSUME NEW k \in Target, Inserts(p, t, k) PROVE AddingInv'
      <4>1. /\ adding' = [adding EXCEPT ![p][t] = {k}] /\ k \notin Keys(p)
            /\ pc' = [pc EXCEPT ![p][t] = "insert"]
        BY <3>4 DEF Inserts, Goes
      <4>2. adding'[p][t] = {k} /\ \A q \in Proc \ {p} : adding'[q] = adding[q]
        BY <2>2, <4>1
      <4>3. pc'[p][t] = "insert"
        BY <2>2, <4>1
      <4> QED BY <3>1, <3>2, <4>1, <4>2, <4>3 DEF MarkedInv, AddingInv
    <3> QED BY <1>2, <3>3, <3>4, AppCases DEF Checks, SetPid, CreateThread, SetDaemon, StartThread, Goes
  <2>6. \A h \in 1..made' : (h \in 1..made /\ worker'[h] = worker[h]) \/ worker'[h].pc \in {"new", "now"}
    BY AppMovesNone
  <2>7. \A h \in 1..made' : WorkerMarked(worker[h], targets[worker[h].proc], lists[worker[h].proc])'
    <3>1. ASSUME NEW h \in 1..made', worker'[h].pc \in {"new", "now"}
          PROVE  WorkerMarked(worker[h], targets[worker[h].proc], lists[worker[h].proc])'
      BY <3>1 DEF WorkerMarked, Looping, Sending
    <3> QED BY <2>3, <2>6, <3>1 DEF MarkedInv
  <2> QED BY <2>4, <2>5, <2>7 DEF MarkedInv
<1> QED BY <1>1, <1>2

LEMMA ForkKeepsMarked ==
  ASSUME OneThread, WorkerInv, MarkedInv, NEW p \in Proc, NEW t \in Thread, NEW q \in Proc, Fork(p, t, q)
  PROVE  MarkedInv'
<1>1. /\ q \notin running /\ running' = running \cup {q} /\ pc[p][t] = "rest"
      /\ pc' = [pc EXCEPT ![q] = [u \in Thread |-> IF u = t THEN "rest" ELSE Absent]]
      /\ adding' = [adding EXCEPT ![q] = adding[p]]
      /\ targets' = [targets EXCEPT ![q] = targets[p]] /\ lists' = [lists EXCEPT ![q] = lists[p]]
      /\ UNCHANGED <<made, worker, done>>
  BY DEF Fork, threadVars, historyVars
<1>2. /\ pc \in [Proc -> [Thread -> Steps]] /\ adding \in [Proc -> [Thread -> SUBSET Target]]
      /\ targets \in [Proc -> Seq(Entry)] /\ lists \in [Proc -> Seq(0..MaxTime)]
  BY DEF WorkerInv, WorkerTypeOK, Entry
<1>3. /\ targets'[q] = targets[p] /\ lists'[q] = lists[p] /\ adding'[q] = adding[p]
      /\ \A r \in Proc : r # q => /\ targets'[r] = targets[r] /\ lists'[r] = lists[r]
                                  /\ adding'[r] = adding[r] /\ pc'[r] = pc[r]
  BY <1>1, <1>2
<1>4. AddingInv'
  <2>1. \A u \in Thread : adding'[q][u] = {}
    BY <1>1, <1>3 DEF OneThread, MarkedInv, AddingInv
  <2> QED BY <1>3, <2>1 DEF MarkedInv, AddingInv, Keys
<1>5. DictMarked(q)'
  <2>1. \A k \in Target : done'[q][k] = 0
    BY <1>1 DEF MarkedInv, DictMarked
  <2>2. \A n \in DOMAIN targets[p] : targets[p][n].target \in Target /\ lists[p][targets[p][n].list] \in 0..MaxTime
    BY DictOf
  <2>3. \A n \in DOMAIN targets'[q] : done'[q][targets'[q][n].target] <= lists'[q][targets'[q][n].list]
    BY <1>3, <2>1, <2>2
  <2> QED BY <1>3, <2>1, <2>3 DEF MarkedInv, DictMarked
<1>6. \A r \in Proc : r # q => DictMarked(r)'
  BY <1>1, <1>3 DEF MarkedInv, DictMarked, Keys
<1>7. \A h \in 1..made : worker[h].proc \in Proc /\ worker[h].proc # q
  BY <1>1, WorkerAt
<1>8. \A h \in 1..made' : WorkerMarked(worker[h], targets[worker[h].proc], lists[worker[h].proc])'
  BY <1>1, <1>3, <1>7 DEF MarkedInv
<1> QED BY <1>4, <1>5, <1>6, <1>8 DEF MarkedInv

\* A step that moves a worker on, and no more, keeps what its record says of the list.
LEMMA MovesMarked ==
  ASSUME NEW w \in WorkerRecord, NEW dict, NEW values, WorkerMarked(w, dict, values),
         NEW c \in Loop,
         \/ c \notin Looping \ {"next"}
         \/ w.pc \in Sending /\ c \in Sending
         \/ w.pc = "test" /\ c = "mark" /\ w.now > values[w.list]
  PROVE  WorkerMarked([w EXCEPT !.pc = c], dict, values)
BY DEF WorkerMarked, WorkerRecord, Looping, Sending

LEMMA FetchMarked ==
  ASSUME WorkerInv, NEW h \in 1..made, NEW position \in Nat, NEW size \in Nat,
         Fetch(h, position, size)
  PROVE  WorkerMarked(worker'[h], targets[worker[h].proc], lists[worker[h].proc])
<1> DEFINE p == worker[h].proc
           w == worker[h]
           l == targets[p][position + 1].list
           n == position + 1
<1>1. worker \in [Handle -> WorkerRecord] /\ h \in Handle /\ w \in WorkerRecord
  BY RecordOf
<1>2. CASE position = size \/ size # Len(targets[p])
  <2>1. worker'[h].pc \in {"now", "exited"}
    BY <1>1, <1>2 DEF Fetch, NewWorker
  <2> QED BY <2>1 DEF WorkerMarked, Looping, Sending
<1>3. CASE position # size /\ size = Len(targets[p])
  <2>1. worker'[h] = [w EXCEPT !.pc = "test", !.position = n, !.size = size, !.list = l]
    BY <1>1, <1>3 DEF Fetch
  <2> HIDE DEF w, n, l
  <2>2. worker'[h].pc = "test" /\ worker'[h].position = n /\ worker'[h].list = l
    BY <1>1, <2>1 DEF WorkerRecord
  <2> QED BY <2>2 DEF WorkerMarked, Sending, l, n
<1> QED BY <1>2, <1>3

LEMMA ProcessKeepsMarked ==
  ASSUME WorkerInv, SingleInv, MarkedInv, NEW h \in Handle, Process(h)
  PROVE  MarkedInv'
<1> DEFINE w == worker[h]
           p == w.proc
           k == targets[p][w.position].target
<1>1. /\ h \in 1..made /\ UNCHANGED <<running, pc, adding, targets, made>>
      /\ worker' = [worker EXCEPT ![h] = worker'[h]]
  BY ProcessFrame
<1>2. worker \in [Handle -> WorkerRecord] /\ w \in WorkerRecord /\ p \in Proc
  BY <1>1, WorkerAt, RecordOf
<1>3. worker'[h].proc = p
  BY ProcessOfItself
<1>4. \A i \in 1..made : i # h => /\ worker'[i] = worker[i]
                                  /\ worker[i].proc # p /\ worker[i].proc \in Proc
  <2>1. \A i \in 1..made : i # h => worker'[i] = worker[i]
    BY <1>1, RecordOf
  <2> QED BY <1>1, <2>1, WorkerAt DEF SingleInv
<1>5. AddingInv'
  BY <1>1 DEF MarkedInv, AddingInv, Keys
<1>6. WorkerMarked(w, targets[p], lists[p]) /\ DictMarked(p) /\ \A q \in Proc : DictMarked(q)
  BY <1>1, <1>2 DEF MarkedInv
<1>7. SUFFICES /\ WorkerMarked(worker'[h], targets[p], lists'[p])
               /\ \A q \in Proc : q = p => DictMarked(q)'
               /\ \A q \in Proc : q # p => lists'[q] = lists[q] /\ done'[q] = done[q]
  <2>1. \A q \in Proc : DictMarked(q)'
    <3>1. ASSUME NEW q \in Proc, q # p PROVE DictMarked(q)'
      <4>1. DictMarked(q) /\ lists'[q] = lists[q] /\ done'[q] = done[q]
        BY <1>6, <1>7, <3>1
      <4>2. UNCHANGED <<targets, running>>
        BY <1>1
      <4> HIDE DEF p
      <4> QED BY <4>1, <4>2 DEF DictMarked, Keys
    <3> QED BY <1>7, <3>1
  <2>2. \A i \in 1..made' : WorkerMarked(worker[i], targets[worker[i].proc], lists[worker[i].proc])'
    BY <1>1, <1>3, <1>4, <1>7 DEF MarkedInv
  <2> QED BY <1>5, <2>1, <2>2 DEF MarkedInv
<1>8. /\ lists \in [Proc -> Seq(0..MaxTime)] /\ done \in [Proc -> [Target -> 0..MaxTime]]
      /\ w.pc \in Looping => /\ w.position \in 1..Len(targets[p])
                             /\ w.position \in DOMAIN targets[p]
                             /\ targets[p][w.position].list \in DOMAIN lists[p]
                             /\ k \in Target
  <2>1. w.pc \in Looping => w.position \in 1..Len(targets[p])
    BY <1>1, WorkerAt
  <2> QED BY <1>2, <2>1, DictOf DEF WorkerInv, WorkerTypeOK
<1>9. CASE UNCHANGED <<lists, done>> /\ WorkerMarked(worker'[h], targets[p], lists[p])
  BY <1>1, <1>6, <1>9 DEF DictMarked, Keys
<1>10. CASE TakeTime(h)
  <2>1. worker'[h] = [w EXCEPT !.now = clock, !.pc = "iterate"]
    BY <1>1, <1>2, <1>10 DEF TakeTime
  <2> HIDE DEF w
  <2>2. worker'[h].pc = "iterate"
    BY <1>2, <2>1 DEF WorkerRecord
  <2>3. WorkerMarked(worker'[h], targets[p], lists[p])
    BY <2>2 DEF WorkerMarked, Looping, Sending
  <2> QED BY <1>9, <1>10, <2>3 DEF TakeTime, dictVars, historyVars, w
<1>11. CASE Iterate(h) \/ NextTarget(h)
  <2>1. w.position \in Nat /\ w.size \in Nat /\ Len(targets[p]) \in Nat
    BY <1>2, DictOf DEF WorkerRecord
  <2>2. \E position, size \in Nat : Fetch(h, position, size)
    BY <1>11, <2>1 DEF Iterate, NextTarget
  <2>3. WorkerMarked(worker'[h], targets[p], lists[p])
    BY <1>1, <2>2, FetchMarked
  <2> QED BY <1>9, <1>11, <2>3 DEF Iterate, NextTarget, dictVars, historyVars
<1>12. ASSUME NEW from \in Loop, NEW c \in Loop, Moves(h, from, c),
              \/ c \notin Looping \ {"next"}
              \/ from \in Sending /\ c \in Sending
              \/ from = "test" /\ c = "mark" /\ w.now > lists[p][w.list]
       PROVE  WorkerMarked(worker'[h], targets[p], lists[p])
  <2>1. worker'[h] = [w EXCEPT !.pc = c] /\ w.pc = from
    BY <1>2, <1>12 DEF Moves
  <2> HIDE DEF w
  <2>2. WorkerMarked([w EXCEPT !.pc = c], targets[p], lists[p])
    BY <1>2, <1>6, <1>12, <2>1, MovesMarked
  <2> QED BY <2>1, <2>2
<1>13. CASE TestLastCalled(h)
  <2> DEFINE due == w.now > lists[p][w.list]
  <2>1. Moves(h, "test", IF due THEN "mark" ELSE "next") /\ UNCHANGED <<lists, done>>
    BY <1>13 DEF TestLastCalled, dictVars, historyVars
  <2>2. "test" \in Loop /\ "mark" \in Loop /\ "next" \in Loop
    BY DEF Loop
  <2>3. WorkerMarked(worker'[h], targets[p], lists[p])
    <3>1. CASE due
      BY <1>12, <2>1, <2>2, <3>1
    <3>2. CASE ~due
      BY <1>12, <2>1, <2>2, <3>2
    <3> QED BY <3>1, <3>2
  <2> QED BY <1>9, <2>1, <2>3
<1>14. CASE Acquire(h) \/ CheckConnect(h) \/ SendTo(h) \/ SendToRaises(h)
  <2>1. \E from, c \in Sending : Moves(h, from, c)
    BY <1>14 DEF Acquire, CheckConnect, SendTo, SendToRaises, Sending
  <2>2. WorkerMarked(worker'[h], targets[p], lists[p])
    BY <1>12, <2>1 DEF Sending, Loop
  <2> QED BY <1>9, <1>14, <2>2 DEF Acquire, CheckConnect, SendTo, SendToRaises, dictVars, historyVars
<1>15. CASE ConnectFails(h)
  <2>1. Moves(h, "connect", "release") /\ UNCHANGED <<lists, done>>
    BY <1>15 DEF ConnectFails, dictVars, historyVars
  <2>2. WorkerMarked(worker'[h], targets[p], lists[p])
    BY <1>12, <2>1 DEF Loop, Sending
  <2> QED BY <1>9, <2>1, <2>2
<1>16. CASE MarkLastCalled(h)
  <2>1. /\ w.pc = "mark" /\ worker'[h] = [w EXCEPT !.packet = 1, !.pc = "acquire"]
        /\ lists' = [lists EXCEPT ![p] = [@ EXCEPT ![w.list] = w.now]]
        /\ UNCHANGED done
    BY <1>1, <1>2, <1>16 DEF MarkLastCalled, Calls, historyVars
  <2>2. "mark" \in Looping \ {"next"}
    BY DEF Looping
  <2>3. /\ w.list = targets[p][w.position].list /\ w.now > lists[p][w.list]
        /\ w.list \in DOMAIN lists[p]
    BY <1>6, <1>8, <2>1, <2>2 DEF WorkerMarked
  <2>4. /\ \A q \in Proc : q # p => lists'[q] = lists[q]
        /\ lists'[p] = [lists[p] EXCEPT ![w.list] = w.now]
    BY <1>2, <1>8, <2>1
  <2>5. lists'[p][w.list] = w.now /\ \A a \in DOMAIN lists[p] : a # w.list => lists'[p][a] = lists[p][a]
    BY <2>3, <2>4
  <2>6. WorkerMarked(worker'[h], targets[p], lists'[p])
    <3> HIDE DEF w
    <3>1. /\ worker'[h].pc = "acquire" /\ worker'[h].now = w.now /\ worker'[h].list = w.list
          /\ worker'[h].position = w.position
      BY <1>2, <2>1 DEF WorkerRecord
    <3> QED BY <2>3, <2>5, <3>1 DEF WorkerMarked
  <2>7. \A q \in Proc : q = p => DictMarked(q)'
    <3>1. ASSUME NEW n \in DOMAIN targets[p]
          PROVE  done[p][targets[p][n].target] <= lists'[p][targets[p][n].list]
      <4> DEFINE a == targets[p][n].list
      <4>1. /\ a \in DOMAIN lists[p] /\ lists[p][a] \in 0..MaxTime
            /\ done[p][targets[p][n].target] \in 0..MaxTime
            /\ done[p][targets[p][n].target] <= lists[p][a]
        <5> HIDE DEF w, a
        <5>1. n \in 1..Len(targets[p]) /\ targets[p][n].target \in Target
          BY <1>2, DictOf
        <5>2. a \in DOMAIN lists[p] /\ lists[p][a] \in 0..MaxTime
          BY <1>2, <5>1, DictOf DEF a
        <5>3. done[p][targets[p][n].target] \in 0..MaxTime
          BY <1>2, <1>8, <5>1
        <5>4. done[p][targets[p][n].target] <= lists[p][a]
          BY <1>6 DEF DictMarked, a
        <5> QED BY <5>2, <5>3, <5>4
      <4>2. CASE a = w.list
        <5>1. w.now \in 0..MaxTime
          BY <1>2 DEF WorkerRecord
        <5>2. lists'[p][a] = w.now /\ w.now > lists[p][a]
          BY <2>3, <2>5, <4>2
        <5> HIDE DEF a, w
        <5> QED BY <4>1, <5>1, <5>2 DEF a
      <4>3. CASE a # w.list
        BY <2>5, <4>1, <4>3
      <4> QED BY <4>2, <4>3
    <3>2. ASSUME NEW q \in Proc, q = p PROVE DictMarked(q)'
      <4>1. /\ DictMarked(q) /\ UNCHANGED <<targets, running, done>>
            /\ \A n \in DOMAIN targets[q] : done[q][targets[q][n].target] <= lists'[q][targets[q][n].list]
        BY <1>1, <1>6, <2>1, <3>1, <3>2
      <4> HIDE DEF p
      <4> QED BY <4>1 DEF DictMarked, Keys
    <3> QED BY <3>2
  <2> QED BY <2>1, <2>4, <2>6, <2>7
<1>17. CASE Release(h)
  <2> DEFINE more == w.pc = "release" /\ w.packet < Packets
  <2>1. /\ w.pc \in {"release", "release.raise"}
        /\ worker'[h] = IF more THEN [w EXCEPT !.packet = w.packet + 1, !.pc = "acquire"]
                                ELSE [w EXCEPT !.packet = 0, !.pc = "next"]
        /\ done' = IF more THEN done ELSE [done EXCEPT ![p][k] = w.now]
        /\ UNCHANGED lists
    BY <1>2, <1>17 DEF Release, dictVars
  <2>2. w.pc \in Looping \ {"next"} /\ w.pc \in Sending
    BY <2>1 DEF Looping, Sending
  <2>3. w.list = targets[p][w.position].list /\ w.now = lists[p][w.list]
    BY <1>6, <2>2 DEF WorkerMarked
  <2>4. CASE more
    <3> DEFINE n == w.packet + 1
    <3>1. worker'[h] = [w EXCEPT !.packet = n, !.pc = "acquire"] /\ UNCHANGED done
      BY <2>1, <2>4
    <3> HIDE DEF w, n
    <3>2. /\ worker'[h].pc = "acquire" /\ worker'[h].now = w.now /\ worker'[h].list = w.list
          /\ worker'[h].position = w.position
      BY <1>2, <3>1 DEF WorkerRecord
    <3>3. WorkerMarked(worker'[h], targets[p], lists[p])
      BY <2>3, <3>2 DEF WorkerMarked
    <3> QED BY <1>9, <2>1, <3>1, <3>3
  <2>5. CASE ~more
    <3>1. worker'[h] = [w EXCEPT !.packet = 0, !.pc = "next"] /\ done' = [done EXCEPT ![p][k] = w.now]
      BY <2>1, <2>5
    <3>2. WorkerMarked(worker'[h], targets[p], lists'[p])
      <4> HIDE DEF w, k
      <4>1. worker'[h].pc = "next"
        BY <1>2, <3>1 DEF WorkerRecord
      <4> QED BY <4>1 DEF WorkerMarked, Sending
    <3>3. /\ \A q \in Proc : q # p => done'[q] = done[q]
          /\ done'[p][k] = w.now /\ \A j \in Target : j # k => done'[p][j] = done[p][j]
      BY <1>2, <1>8, <2>2, <3>1
    <3>4. /\ k \in Keys(p) /\ p \in running
          /\ \A n \in DOMAIN targets[p] : targets[p][n].target = k => n = w.position
          /\ \A n \in DOMAIN targets[p] : targets[p][n].target \in Target
      BY <1>1, <1>2, <1>6, <1>8, <2>2, WorkerAt, DictOf DEF DictMarked, Keys
    <3>5. \A q \in Proc : q = p => DictMarked(q)'
      <4>1. ASSUME NEW n \in DOMAIN targets[p]
            PROVE  done'[p][targets[p][n].target] <= lists[p][targets[p][n].list]
        <5>1. CASE targets[p][n].target = k
          <6>1. n = w.position /\ w.now \in 0..MaxTime
            BY <1>2, <3>4, <5>1 DEF WorkerRecord
          <6>2. done'[p][targets[p][n].target] = w.now /\ lists[p][targets[p][n].list] = w.now
            BY <2>3, <3>3, <5>1, <6>1
          <6> HIDE DEF w
          <6> QED BY <6>1, <6>2
        <5>2. CASE targets[p][n].target # k
          BY <1>6, <3>3, <3>4, <5>2 DEF DictMarked
        <5> QED BY <5>1, <5>2
      <4>2. \A j \in Target : p \notin running \/ j \notin Keys(p) => done'[p][j] = 0
        BY <1>6, <3>3, <3>4 DEF DictMarked
      <4>3. ASSUME NEW q \in Proc, q = p PROVE DictMarked(q)'
        <5>1. /\ DictMarked(q) /\ UNCHANGED <<targets, running, lists>>
              /\ \A n \in DOMAIN targets[q] : done'[q][targets[q][n].target] <= lists[q][targets[q][n].list]
              /\ \A j \in Target : q \notin running \/ j \notin Keys(q) => done'[q][j] = 0
          BY <1>1, <1>6, <2>1, <4>1, <4>2, <4>3
        <5> HIDE DEF p
        <5> QED BY <5>1 DEF DictMarked, Keys
      <4> QED BY <4>3
    <3> QED BY <2>1, <3>2, <3>3, <3>5
  <2> QED BY <2>4, <2>5
<1> QED BY <1>10, <1>11, <1>13, <1>14, <1>15, <1>16, <1>17 DEF Process

\* The second inductive invariant for processes with one application thread: what the
\* dictionary remembers of the reports on a target is never behind the reports made
\* (worker.py 85-98).
THEOREM MarkedInvariant == ASSUME OneThread PROVE WorkerSpec => []MarkedInv
<1>1. WorkerInit => MarkedInv
  BY SingleInitInv
<1>2. WorkerInv /\ SingleInv /\ MarkedInv /\ [WorkerNext]_workerVars => MarkedInv'
  <2> SUFFICES ASSUME WorkerInv, SingleInv, MarkedInv, [WorkerNext]_workerVars PROVE MarkedInv'
    OBVIOUS
  <2>1. CASE UNCHANGED <<running, pc, adding, targets, lists, made, worker, done>>
    BY <2>1 DEF MarkedInv, AddingInv, DictMarked, Keys
  <2>2. CASE UNCHANGED workerVars \/ IntervalPasses
    BY <2>1, <2>2 DEF workerVars, IntervalPasses, appVars, dictVars, threadVars, historyVars
  <2> QED BY <2>2, AppKeepsMarked, ForkKeepsMarked, ProcessKeepsMarked DEF WorkerNext
<1> QED BY <1>1, <1>2, WorkerInvariant, SingleInvariant, PTL DEF WorkerSpec

\* A target is reported on once at most at one reading of the clock, if one thread of each
\* process creates and connects its engines: the list that is marked is the one the
\* dictionary has (worker.py 85-98).
THEOREM OncePerIntervalHolds == ASSUME OneThread PROVE WorkerSpec => OncePerInterval
<1> DEFINE Once ==
      \A h \in Handle :
        worker[h].pc = "mark" /\ worker'[h].pc = "acquire"
          => LET p == worker[h].proc
             IN  worker[h].now > done[p][targets[p][worker[h].position].target]
<1>1. WorkerInv /\ MarkedInv /\ [WorkerNext]_workerVars => [Once]_workerVars
  <2> SUFFICES ASSUME WorkerInv, MarkedInv, [WorkerNext]_workerVars,
                      NEW h \in Handle, worker[h].pc = "mark", worker'[h].pc = "acquire"
               PROVE  worker[h].now > done[worker[h].proc][targets[worker[h].proc][worker[h].position].target]
    OBVIOUS
  <2> DEFINE w == worker[h]
             p == w.proc
  <2>1. h \in 1..made
    <3>1. worker'[h] # worker[h]
      OBVIOUS
    <3>2. CASE UNCHANGED worker
      BY <3>1, <3>2
    <3>3. ASSUME NEW q \in Proc, NEW t \in Thread,
                 CheckStatement(q, t) \/ ConnectEvt(q, t) \/ \E k \in Target : AddTarget(q, t, k)
          PROVE  FALSE
      BY <3>1, <3>3, AppMovesNone
    <3>4. ASSUME NEW i \in Handle, Process(i) PROVE h \in 1..made
      <4>1. i \in 1..made /\ worker' = [worker EXCEPT ![i] = worker'[i]]
        BY <3>4, ProcessFrame
      <4> QED BY <3>1, <4>1, RecordOf
    <3> QED BY <3>2, <3>3, <3>4 DEF WorkerNext, workerVars, IntervalPasses, Fork, threadVars
  <2>2. "mark" \in Looping \ {"next"}
    BY DEF Looping
  <2>3. /\ p \in Proc /\ w \in WorkerRecord /\ w.position \in 1..Len(targets[p])
        /\ w.list = targets[p][w.position].list /\ w.now > lists[p][w.list]
    BY <2>1, <2>2, WorkerAt DEF MarkedInv, WorkerMarked
  <2> DEFINE k == targets[p][w.position].target
  <2>4. done[p][k] <= lists[p][w.list] /\ done[p][k] \in Nat /\ lists[p][w.list] \in Nat
    <3> HIDE DEF w
    <3>1. w.position \in DOMAIN targets[p] /\ k \in Target /\ lists[p][w.list] \in 0..MaxTime
      BY <2>3, DictOf
    <3>2. done[p][k] \in 0..MaxTime
      BY <2>3, <3>1, DictOf
    <3>3. done[p][k] <= lists[p][w.list]
      BY <2>3, <3>1 DEF MarkedInv, DictMarked
    <3> QED BY <3>1, <3>2, <3>3
  <2>5. w.now \in Nat
    BY <2>3 DEF WorkerRecord
  <2> HIDE DEF w, k
  <2>6. w.now > done[p][k]
    BY <2>3, <2>4, <2>5
  <2> QED BY <2>6 DEF w, k
<1> QED BY <1>1, WorkerInvariant, MarkedInvariant, PTL DEF WorkerSpec, OncePerInterval
=============================================================================
