# A TLA+ verification of sqlalchemy-collectd

sqlalchemy-collectd counts the database connections of SQLAlchemy engines inside
the application, sends the counts from a background thread over UDP, adds them up
by program and host in a collectd plugin, and shows them in `connmon`. These
modules model the parts of it in which the order of things matters; TLC checks
them on small instances, and TLAPS proves what is safety in them for instances of any size.
Paths below are relative to `src/sqlalchemy_collectd/`.

## The system

| Component | State | Operations | Talks to |
|---|---|---|---|
| Accounting, `client/collector.py` | four sets of `id()`s and four totals per program name | nine pool event handlers, the `num_*` properties | called by SQLAlchemy's pool from any application thread; read by the worker; calls `_check_threads_started` |
| Sender, `client/sender.py` | a registry of senders | `Sender.send`: one pool message, one totals message | reads the accounting, writes to the UDP sender |
| Worker, `client/worker.py` | `_WORKER_THREAD`, `_PID`, the dictionary of targets | `add_target`, `_check_threads_started`, `_process` | started by application threads, copied by `fork` |
| UDP sender, `networking.py` 101-159 | mutex, socket, pid | `send`, `_check_connect` | the network |
| Other endpoints, `networking.py` 162-403 | subscribers with the time of their last HELO, queues | asyncio callbacks | server and connmon |
| Wire protocol, `protocol.py` 241-364 | none | `pack_values`, `unpack_bytes` | between sender and receiver |
| Message values, `protocol.py` 49-235, `collectd_types.py` | none | sum, build | everywhere |
| Time bucket, `stream.py` 69-178 | records by key, last time and interval | `put`, `get`, `get_data` | the receiver |
| Translator, `stream.py` 14-62 | none | internal values to collectd's | the receiver |
| Receiver, `server/receiver.py` | three time buckets | `_set_stats`, `summarize` | the listener thread writes, collectd's thread reads, both evict |
| Server plugin, `server/plugin.py`, `util.py` | the service and its loop | `read`, the service loop | collectd |
| connmon plugin, `connmon/plugin.py` | a queue, senders | `write`, the service loop | collectd's threads, subscribers, a monitor |
| connmon statistics, `connmon/stat.py` | programs, hosts, sums, rates | updaters, a sweep every half second | display |
| Client plugin, `client/plugin.py` | configuration | engine creation | the registries |
| Display, `main`, logging | screen | | |

What is hard in it:

- **Interleaving.** Nothing locks the accounting: handlers of different
  connections run in different threads, and the worker reads between their
  statements. Two application threads may start the worker at once, and add a
  target while it iterates. The server's two threads evict from the same
  dictionaries unlocked. collectd's threads hand messages to a loop that may not be set up yet.
- **Processes.** A fork copies globals, sockets and locks but not threads.
- **Identity.** A connection is known by `id()`, which comes back after it is freed,
  and the pool can lose connections without an event. A sum of values has `None`
  where they differ, and must be told apart from other sums all the same.
- **Time and the network.** Datagrams are lost, delayed and reordered, hosts'
  clocks disagree, and a record counts for as long as its own interval says, compared
  with partly truncated times. Subscribers renew, stop, and lose renewals.
- **Failure.** One sender of several raises; a target's send raises; a datagram does
  not unpack: what follows must go on.

What makes each part correct, in short: the sets say where every connection is; a reading
misreports nothing that stands still; each process has one worker which never stops;
a bucket holds the latest of what is fresh; a summary counts who is alive and
forgets who is not, whatever the two threads do to each other; a subscriber gets each message
once, in order; `connmon` shows what goes on reporting, and no negative rate
where no total fell.

## The modules

`Collector` — `client/collector.py`. A handler is not one step: `pc[i]` names the next
statement of the handler that runs for connection `i`, and every statement that
touches a shared set or total is an action. Handlers of one connection follow each
other; those of different connections interleave freely. `pool` and `soft` are what
SQLAlchemy does with the connection (external). Hard invalidation is followed by the
close and by a check-in of `None`, as the pool does; `Orphans` lets the pool lose a
connection without an event. `x += 1` is one step (it is from CPython 3.10 on).

`Snapshot` — EXTENDS `Collector` with the worker's reading of it, one access per step:
the three differences of `num_checkedout`, the other counts, the four totals. A
count is kept as the set it counts, so that properties can speak of one connection.
`touched` is a history variable: the connections a handler worked on since the
reading began.

`Worker` — application threads that add targets or connect, `_check_threads_started`
statement by statement (it reads its globals anew in each), `_process` statement by
statement, the `OrderedDict` iterator with its size check, the mutex and socket of
`SyncOnlyUDPClientSender`, and `fork`. `socket.socket()` may fail, when the sender has noted its
pid already (`ConnectFails`); `unreplaced` remembers the processes it happened to with a socket to replace. `lists` is the heap of the one-element lists the
dictionary holds, because a list can be replaced while the worker has the old one.
Time is in intervals. All targets share one UDP sender, as they do when they report to
one collectd.

`Message` — operators, no state: types, `Values`, its sum, packing and unpacking as a sequence of parts
(unknown parts skipped, a missing one an error, the last of two counting), whole seconds in
place of fractions, the translation to collectd's types. `Server` and `Stat` send what they
send through `Pack` and `Unpack`.

`TimeBucket`, `BucketStore` — `TimeBucket` holds `stream.TimeBucket` as operators
on a record, used by three specifications: `BucketStore`, one bucket under any accesses at any
times, `Receiver` and `Server`. Time is in half seconds, since the code truncates one of two
comparisons. One consequence met on the way: `last_timestamp` can be walked back a
window at a time by accesses each of which is accepted, so that nothing bounds how
old an accepted time may be against the newest one.

`Receiver` — the server against time: the clients as sources of messages with skewed clocks, the network as a
set of messages in flight (loss, delay, reordering; no duplication: a
duplicate sets once more what a late message may set), the listener's two-bucket `_set_stats`, and
collectd's thread going through the buckets twice per type. A summary is the set of
clients it adds up. An access to a bucket, with the assignment that
follows it, is one step.

`Server` — the server against its other thread: an access is the comparison of timestamps with the listing of
the keys, then a lookup and a deletion per key, each a step of either thread; a summary lists keys, looks each up in sorted
order, adds up a group at a time with `Message!Add` and hands it to collectd. The clients are a sequence in that order, in which the
programs of a host and the processes of a program are side by side (`OrderAssumption`, as sorted tuples are), and none is called `host`
(`NameAssumption`). Time is in half seconds. A client sends when more than its interval has passed, between `MinGap` and
`MaxGap` half seconds after its last message (the worker looks five times a second), or falls silent. All clocks are one
here, and a datagram is there when it is sent. `streak` is a history of how steadily a client reports: its messages in a
row that were not dropped, up to 2.

`Feed`, `Forward` — `Forward` is collectd's connmon plugin: the start of the loop's thread with its gap between the loop and
the queue, `write()` in several threads, the queue, the senders one after the other with what each may raise, the
subscriptions with their HELOs. `Feed` says what a listener may count on, and `Forward` implements it with `got` and
`accepted` as they are (`FeedImplemented`).

`Stat` — `connmon/stat.py`: the rows of programs and hosts, the five updaters, the sums, the sweep. Its sources are collectds that
report at their interval; what is lost, late or overtaken is chosen freely. A total is a sum over the processes that the
server knows of, so a report may have any: less than the one before when a process has ended, which the history `fell`
remembers. A gauge has the type's name as in the datagram;
a rate is kept as the pair of growth and span, since only its sign and its being defined matter.

How they fit: `Snapshot` composes the accounting with its reader by
extension and is proved to implement `Collector`; `Worker` calls `Sender.send` as `Packets` uses of the mutex, and
`Receiver.Send` and `Server.Sending` are that call seen from the network; what `Server` hands to collectd
(`Dispatched`) is what `Stat` gets in `Reported`, with `Forward` in between, which looks at no value and only at the order.

Definitions introduced as "Mutated" are forms of the
definition after them with a plausible bug. No specification uses them; they show that
each property would notice.

## Runs

All with `tlc -workers 2`; the longest, `server` and `worker`, take two to three minutes.

| Run | Instance | What it asks |
|---|---|---|
| `snapshot` | 2 identities, totals to 2, no orphans | Are the sets exact at every statement (`AccountingInv`, `QuiescentExact`), is no abnormal branch taken (`NoWarnings`), do the totals balance (`Balance`), is an unlocked reading faithful for whatever stood still (`SnapshotFaithful`)? Yes. |
| `collector_orphans` | 2 identities, totals to 3, orphans | When identities come back, is a live connection ever missing (`NeverMissing`), does a handler fail (`NoHandlerFails`)? No. |
| `collector_none` | same, no orphans | Is `num_checkedin` the number of connections in the pool? **No**: `id(None)` is counted after a hard invalidation. |
| `bucket_store` | 2 keys, 12 half seconds, 2 intervals | `LatestReceived`, `NothingStale`, `GoneOnlyIfStale`, for times in any order. Yes. |
| `receiver` | 2 clients half a second apart, one message in two lost, no bound on time | Is nothing ever refused (`NothingRefused`), is who is alive in every sum (`LiveCounted`, `LiveProcessCounted`) and who stopped out of it in time (`Forgotten`), does no sum have connections without their process (`PoolsHaveProcesses`)? Yes. |
| `server` | 2 programs, one of them irregular, messages of the interval 2 s every 2 to 2.5 s; totals and processes; datagrams that do not unpack | Does an eviction race ever cost a steady process its record (`RegularKept`), does a sum leave one out or take too much (`SumsBetween`), are sums told apart (`IdentitiesUnique`)? No, no, yes. |
| `stat` | a host, three sets of metrics, totals that rise and fall, delay almost an interval | Do sums and table forget what went silent (`SumsForget`, `TableForgets`), keep what reports (`ReportingShown`), and are rates over some time and negative only where a total has fallen (`RatesAreReal`)? Yes. |
| `forward` | 2 of collectd's threads, a subscriber and a monitor, 3 messages | Does it implement `Feed` (`FeedImplemented`), is a subscriber that loses no more HELOs than tolerated sent everything (`NoneMissed`), one that left forgotten (`LeaversForgotten`), and under fairness every message dealt with (`EveryoneServed`)? Yes. |
| `worker` | a process and its fork, one application thread each, 2 targets, 3 intervals | Has a process one worker (`OneWorker`), which sends through its own socket (`OwnSocket`) once an interval (`OncePerInterval`), and under fairness goes on reporting on every target (`Reported`)? Yes. |
| `worker_race` | one process, 2 application threads | `OneWorker`? **No**: two threads start two workers, or one gets a RuntimeError. |
| `worker_mutated` | one process, 3 targets | Does the worker survive (`WorkerSurvives`)? **No**: a target added during the iteration ends it. |
| `worker_fork` | a fork while sending allowed | Does the child report (`Reported`, under fairness)? **No**: its copy of the mutex is locked for ever. |

Each expected violation is a disagreement of the code with its own documentation,
quoted in `PROJECT.json` under `findings`.

What some of the properties leave out on purpose, because the code does not give it:

- `RegularKept`: an eviction race does happen, and costs the thread that loses it its message or its summary
  (KeyError, logged). A process whose message is so dropped, because of another that went, may be missing from the sums
  until it has sent two more; one that comes back after a silence may lose its first message.
- `OwnSocket`: a forked process whose first `socket.socket()` fails has recorded its pid by then (`networking.py` 129, 130,
  156), takes the copied socket for its own at the next send, and uses it from then on. It is the one exception.
- `RatesAreReal`: a total that has fallen, when a process ended, does give a negative rate (`stat.py` 184-187).
- `ReportingShown`: a datagram that another overtook sets `last_time` back, and may have the counts of
  its program set to zero until the next report. Such a report counts as lost.
- `LiveCounted` asks that the latest message was not lost: the factor of two on the window does not outlast a loss, the
  factor of five on the process record does (`LiveProcessCounted`).
- `IdentitiesUnique` assumes that no program is called `host`.

### Bounds, and why they are enough

- *Collector, Snapshot.* Two identities: a handler touches one, and no statement compares
  two; the second is there to interleave and, by the reader, to move. Totals bound
  how often each event happens; 2 lets an identity live twice (open, close, open again),
  3 lets it do so after the other did. The theorems hold for any set and any bound.
  Identities are interchangeable, hence SYMMETRY.
- *BucketStore.* Twelve half seconds span three windows of the longer interval,
  so every order of fresh, stale and refused occurs.
- *Receiver, Server, Stat.* Time is not bounded. The VIEW of each MC module identifies
  states that differ only in how long ago something was once that is more than it takes
  to be stale for every step still to come; `now % 2` is kept where the code truncates. In `Receiver` a client sends every 2 to
  2.5 s, a message takes half a second at most and a summary or message is dealt with in the half second it begins.
  In `Server` half a second passes when both threads have done what there was to do in it. The interval is the code's 2 s and
  the gaps are 2 and 2.5 s (the 2.0 to 2.2 of a worker that looks every 0.2 s, rounded up), so that messages fall on and
  between whole seconds and the truncated window of 4 s is met at both; one client is never silent and one is whenever it likes. In `Stat` the interval is 2 s and a datagram may be under way for 1.5 s, so that
  it can be overtaken and be old at a sweep; totals go up and down between 0 and 2; the metrics come in three sets, since no updater reads what another
  one sets but `interval` and `last_time`, which each set shares.
- *Forward.* A tick is the 5 seconds between two HELOs, and 6 of them the 30 of the expiry, as in the code. Three messages: one in
  hand, one in the queue, one being handed over. One subscriber: nothing in the code relates two.
- *Worker.* `MaxTime` intervals, `MaxThreads` Thread objects (one more than the two
  processes need, so that a superfluous one would show). In the passing run each process
  has one application thread and creates one engine, the child beside what it inherits; in
  `worker_race` and `worker_mutated` the omitted cases are what is
  asked about. With a clock of 3 intervals `Reported` asks of a target known by the second that it is reported on in
  the second or the third: a worker that ended after its first round, or read the clock but once, would not do it. One packet
  is enough there (a later one repeats the steps of the first); two are sent in `worker_mutated` and `worker_fork`.

CHECK_DEADLOCK is off where the bounds (totals, messages, clients that stopped, an application
that need not do anything more) end a behaviour.

### Fairness

`Worker`: a thread inside `_check_threads_started` or `_process` is
scheduled again (weak fairness of each thread's steps: Python's scheduler does not
starve a thread that can run), and time passes. Nothing is assumed of an
application (it need not connect, add or fork), nor that a send succeeds.

`Forward`: an event loop runs the callbacks that are ready (weak fairness of the start-up, of taking a message and of each sender's
`send_async`). collectd need not write, a subscriber need not come or renew, a monitor may never be reached.

The other modules state safety only: what must eventually happen in them happens because time passes, and time
passes only when it is done.

## Proofs

Each component has its module of proofs, checked by `tlapm`: `CollectorProofs` (of `Collector` and
`Snapshot`), `BucketStoreProofs`, `ReceiverProofs`, `ServerProofs`, `MessageProofs` (lemmas for
`ServerProofs` and `StatProofs`), `ForwardProofs`, `StatProofs` and `WorkerProofs`. Every safety
property that a passing run checks is proved. The assumptions on the constants are the named ASSUMEs
of the modules; what a single theorem presumes beyond them about clocks, delays or threads is a
named definition in its statement, and where an instance is meant to meet it the MC module says so
in an ASSUME, which TLC evaluates (`InstanceInTime` in `MCReceiver` and `MCStat`, `InstanceInWindow`
in `MCServer`). Strengthenings were checked by TLC before they were proved.

*Accounting.* `QuiescentExact` is not inductive: it says nothing of a connection inside a handler.
`AccountingInv` says, of every statement of every handler, what each of the four sets then holds
(`ConnectionsExact` ...) and where the pool then has the connection (`HandlerFits`). It is inductive
because a step of connection `i` changes the membership of `i` alone (`StepFrame`, `FrameExact`), so
one case per action suffices for any number of connections. `QuiescentExact` and `NoWarnings` follow
at once; `Balance` adds cardinalities. These need `~Orphans`. With orphans a weaker invariant
(`CoverInv`: nothing needed is missing, though more may be there) is inductive, and gives
`NeverMissing` and `NoHandlerFails`.

*Reading.* A step of `Snapshot` is a step of `Collector` or leaves its variables alone
(`SnapshotRefinesCollector`), so `AccountingInv` holds during a reading; with it, `SnapshotInv` is
inductive (`SnapshotInvariant`): each of the reader's steps extends what is known of the connections
that no handler touched, and a handler's step touches its own connection. `SnapshotFaithful` is a
part of it.

*Bucket.* `StoreInv` is the conjunction of the three promises, for any sets of times and intervals:
a record that goes at an access is older than its window then, and `newest` only grows.

*Forwarding.* `ForwardInv` says where the accepted messages are: the last in the queue, in order,
the one before in hand, and what a listener got is no later than that, and earlier while a sender
that reaches it is still to come (`ToServe`). Hence a step of a sender is a step of `Feed` and every
other step a stutter (`StepKeeps`), which is `FeedImplemented`, for any threads, subscribers and
each of the senders that can be configured. `HeardInv` bounds a remembered subscriber's silence by
its record's age and `MaxDelay`, and gives `LeaversForgotten`; `SteadyInv` says of a steady
subscriber that either every HELO since its last arrival was lost, or one is under way that arrives
in time (`InTime`), so that it is never `Expired`: `NoneMissed`, for any `Timeout` and `MaxDelay`
with `MaxDelay + 1 < Timeout`.

*Worker.* A process that knows its own pid has no socket but its own, unless it is one that failed
to replace a copy, and a thread about to send is in a process that knows its pid and has a socket
(`OwnInv`): it holds when a process is forked, at any statement of its parent's worker, because the
child's copy of `pid` is then not its own, and the UDP sender compares the two under its mutex. That
is `OwnSocket`, for any number of processes, threads and forks; a parent's failure is not its
child's. `OneWorker` and `OncePerInterval` presume that a process has one application thread
(`OneThread`), and `worker_race` shows that they must. Then a worker is the one its process knows
of, and where another may be started there is none (`SingleInv`); the thread inserts no target that
is there (`AddingInv`), so that no target is in the dictionary twice, and none was reported on later
than its list says (`MarkedInv`).

*Receiver.* `ReceiverInv` says that no message in flight (`SentInv`) and no record (`StoredInv`) is
later than the last its client sent, by its clock; it gives `ReceiverTypeOK`, and `Forgotten` for
clocks however wrong. The rest presumes that no two clocks differ by more than the shorter window,
less the delay (`ClocksAgree`). Then a bucket was last accessed at the present or an earlier time of
some clock (`TimeInv`), so that it refuses nobody (`NothingRefused`), and whoever has a record that
is not stale has a process record too, or the listener is about to store it (`PairInv`), hence
`PoolsHaveProcesses`. `LiveCounted` presumes besides that a message has come, or is lost, when its
client sends the next, and that this is within the shorter window (`SentInTime`): what is under way
is the last that was sent (`PaceInv`), and the record is of that, or of the one before while it is
under way (`RecentInv`). `LiveProcessCounted` asks the same of the longer window and of as many gaps
as may be lost: a process record is as old as the losses since explain, for each type
(`SentInTimeThoughLost`, `ProcessInv`).

*Messages and sums.* What was packed unpacks to what it was, but for what a conversion changes
(`UnpackPacked`). What a sum does is proved without induction over an operator: a set of subsets
that has the empty set, and with a subset the one with an element more, has every subset of a finite
set (`SubsetInduction`, by the least of the cardinalities that fail). So a sum grows with its
numbers (`SumGrows`), and the sum of a sequence is that of all but its last plus the last
(`SumOfAppended`), though the fold that defines it begins at the other end.

*Server.* `ServerInv` says where each thread is in the access it makes and what the buckets can
hold; it gives `ServerTypeOK`. `RegularKept` presumes that a record outlives the time to the next
message, with the half second that a reading between seconds loses (`GapInWindow`: `MaxGap` and one
more are no more than the window of twice the interval). At the code's interval that is 3 s of the
window's 4, for gaps up to 2.5 s, and it would hold for gaps up to 3.5. Then the record of a process
is as fresh as the last message it sent, or the one before while that is not stored yet
(`FreshInv`), and the key that a thread is about to delete,
having found its record stale perhaps long before, is of one that sent no more than one message
since (`DeleteInv`): it has not sent two in a row. `SumsInv` gives `IdentitiesUnique` and `SumsBetween`. The keys are looked up in
order (`OrderInv`, `RestInv`), so that the records of a group follow each other and a sum is handed
on when its group was looked up whole (`PublishedInv`), and no other is handed on for that group
(`UniqueInv`); a record that is there, or there again, has no less than when it was listed
(`ListedInv`), so that what has been added up of a group lies between what was listed of it and the
most it can have (`ReadInv`).

*Statistics.* Of two totals of a host, on their way or in the table, the later is not the smaller
unless a total fell since the earlier was reported (`OrderInv` in `StatInv`): a rate is made of two
of them, so `RatesAreReal`, for any loss, delay or overtaking. `TableForgets` presumes that a datagram is not under way for longer than a program is
remembered (`ForgetsLate`), `SumsForget` not for longer than its counts are (`SilentLate`): a count
that is not zero came with the latest report, and that is not two intervals old or there was no
sweep since (`RecentInv`). `ReportingShown` presumes that of two reports the second arrives before
the first is two intervals old, truncated to seconds (`ShownInTime`): what is shown is of the last
report, or others since are under way, none longer than `MaxGap` after the one before (`ShownInv`).
`ShownInTime` has half a second to spare: TLC finds no violation in the instance with a delay half a
second longer.

Only model-checked: liveness (`Reported`, `EveryoneServed`), which is out of the prover's reach, and
the properties that are expected to be violated.

## Not modelled, and the plan

Not modelled: the display, `main` and logging (layout and I/O); the registries of `sender.py`,
`networking.py` 133-149 and `collector.py` 46-56 (a dictionary each, entirely under a mutex); the
merging of configuration in `client/plugin.py` (sequential); the start-up of the server plugin, in
which `read()` may find no attribute `receiver_` and raise (nothing is touched by it); the bytes
within a part of a datagram (lengths that lie, buffers that end early); hosts' rows of `Stat` beyond
their being made and updated, since nothing reads them but the display; `x += 1` as two steps, as it
is before CPython 3.10.

Worth having next: one specification in which what `Server` dispatches is what `Forward` carries and
`Stat` reports, in place of the three that meet in their message values; that any datagram of known
parts unpacks to the last of each, and not only those that `Pack` makes; `ReportingShown` without
the half second that `ShownInTime` has to spare; the registries, under their mutexes.
