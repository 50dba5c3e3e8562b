--------------------------------- MODULE Forward ---------------------------------
(***************************************************************************)
(* collectd's connmon plugin (connmon/plugin.py): collectd's threads hand  *)
(* the values it writes over to a thread with an event loop, which sends   *)
(* each to every sender configured.  One sender has subscribers, that      *)
(* renew with a HELO every five seconds and are forgotten after thirty;    *)
(* the other sends to one address (networking.py).                         *)
(*                                                                         *)
(* A tick is the time between two HELOs of a subscriber, and what is       *)
(* stamped with a time is kept as its age.  A message is its number among  *)
(* those accepted; one that is not `packable' makes pack_values raise.     *)
(***************************************************************************)
EXTENDS Naturals, Sequences

CONSTANTS
  Thread,       \* the threads that collectd calls write() in
  Subscriber,
  Senders,      \* the senders configured, a sequence of "listen" and "monitor"
  Timeout,      \* ticks that a subscriber is remembered for: 30 seconds
  MaxDelay,     \* ticks a HELO may be under way
  MaxMessages   \* bound: messages accepted

ASSUME ForwardAssumption ==
  /\ Senders \in {<<>>, <<"listen">>, <<"monitor">>, <<"listen", "monitor">>}
  /\ Timeout \in Nat /\ MaxDelay \in Nat /\ MaxMessages \in Nat
  /\ MaxDelay + 1 < Timeout
  /\ "monitor" \notin Subscriber

VARIABLES
  service,      \* how far the thread of the loop is: "starting", "looping", "ready", "dead"
  pc,           \* where each of collectd's threads is in send()
  accepted,     \* how many messages were handed over
  queue,        \* those that the loop still has to take: its callbacks and the queue
  inHand,       \* the message being sent, in a sequence of at most one
  position,     \* the sender it is with
  connected,    \* UDPClientSender.protocol is there
  got,          \* the messages that each was sent
  addrs,        \* the age of the last HELO of each subscriber that is remembered
  up,           \* the subscribers there are
  due,          \* those of them whose next HELO is due
  helos,        \* the HELOs under way, with their age
  missed,       \* history: how many HELOs of each in a row were lost
  steady,       \* history: those remembered, of which no more were lost than is tolerated
  silent        \* history: age of the last HELO of each that was not lost

senderVars == <<service, pc, accepted, queue, inHand, position, connected, got>>
subscriberVars == <<up, due, helos, missed, steady, silent>>
forwardVars == <<senderVars, addrs, subscriberVars>>

Listener == Subscriber \cup {"monitor"}

Listening == \E i \in DOMAIN Senders : Senders[i] = "listen"

ForwardInit ==
  /\ service = "starting"
  /\ pc = [t \in Thread |-> "idle"]
  /\ accepted = 0
  /\ queue = <<>> /\ inHand = <<>> /\ position = 1
  /\ connected = FALSE
  /\ got = [c \in Listener |-> <<>>]
  /\ addrs = [s \in {} |-> 0]
  /\ up = {} /\ due = {} /\ helos = {} /\ steady = {}
  /\ missed = [s \in Subscriber |-> 0]
  /\ silent = [s \in Subscriber |-> Timeout + MaxDelay + 1]

-----------------------------------------------------------------------------
\* The thread of the loop awaits senders_fn: the address to listen at may be taken,
\* which is the end of the thread.
StartService ==
  /\ service = "starting"
  /\ \/ service' = "looping"
     \/ Listening /\ service' = "dead"
  /\ UNCHANGED <<pc, accepted, queue, inHand, position, connected, got, addrs, subscriberVars>>

MakeQueue ==
  /\ service = "looping"
  /\ service' = "ready"
  /\ UNCHANGED <<pc, accepted, queue, inHand, position, connected, got, addrs, subscriberVars>>

\* send(): is there a loop that runs?  If not, the message is dropped.
Write(t) ==
  /\ pc[t] = "idle"
  /\ accepted < MaxMessages
  /\ service \in {"looping", "ready"}
  /\ pc' = [pc EXCEPT ![t] = "sending"]
  /\ UNCHANGED <<service, accepted, queue, inHand, position, connected, got, addrs, subscriberVars>>

\* Mutated: what was handed over last comes first.
Queued_First(message, messages) == <<message>> \o messages

Queued(message, messages) == Append(messages, message)

\* call_soon_threadsafe(self.queue.put_nowait, message), which raises AttributeError
\* as long as there is no queue.
HandOver(t) ==
  /\ pc[t] = "sending"
  /\ pc' = [pc EXCEPT ![t] = "idle"]
  /\ IF service = "ready" /\ accepted < MaxMessages
       THEN /\ accepted' = accepted + 1
            /\ \E packable \in BOOLEAN : queue' = Queued([n |-> accepted + 1, packable |-> packable], queue)
       ELSE UNCHANGED <<accepted, queue>>
  /\ UNCHANGED <<service, inHand, position, connected, got, addrs, subscriberVars>>

-----------------------------------------------------------------------------
\* _run_service_awaitable: the next message of the queue.
Take ==
  /\ service = "ready"
  /\ inHand = <<>> /\ queue # <<>>
  /\ inHand' = <<Head(queue)>> /\ queue' = Tail(queue)
  /\ position' = 1
  /\ UNCHANGED <<service, pc, accepted, connected, got, addrs, subscriberVars>>

\* Mutated: what raised is tried again.
Raise_Again ==
  /\ position' = 1
  /\ UNCHANGED <<service, inHand, connected, got, addrs>>

\* Mutated: an exception ends the loop.
Caught_Ends == "dead"

\* Where an exception of _run_service_awaitable leaves the thread.
Caught == "ready"

\* An exception keeps the message from the senders that are left.
Raise ==
  /\ inHand' = <<>>
  /\ service' = Caught
  /\ UNCHANGED <<position, connected, got, addrs>>

Sent(to) ==
  /\ got' = [c \in Listener |-> IF c \in to THEN Append(got[c], Head(inHand).n) ELSE got[c]]
  /\ IF position >= Len(Senders)
       THEN inHand' = <<>> /\ UNCHANGED position
       ELSE position' = position + 1 /\ UNCHANGED inHand
  /\ UNCHANGED service

\* Mutated: a subscriber is forgotten with the thirtieth second.
Expired_Early(s) == addrs[s] >= Timeout

\* Mutated: a subscriber is forgotten a tick late.
Expired_Late(s) == addrs[s] > Timeout + 1

Expired(s) == addrs[s] > Timeout

\* UDPServerSender: send_to_all
SendToAll ==
  LET remembered == {s \in DOMAIN addrs : ~Expired(s)}
  IN  /\ addrs' = [s \in remembered |-> addrs[s]]
      /\ Sent(remembered)
      /\ UNCHANGED connected

\* UDPClientSender: its connection is made with the first message, and may fail.
SendToMonitor ==
  \/ connected' = TRUE /\ Sent({"monitor"}) /\ UNCHANGED addrs
  \/ ~connected /\ Raise

\* One sender's send_async.
SendAsync ==
  /\ inHand # <<>>
  /\ IF Senders = <<>> THEN Sent({}) /\ UNCHANGED <<addrs, connected>>
     ELSE IF ~Head(inHand).packable THEN Raise
     ELSE IF Senders[position] = "listen" THEN SendToAll
     ELSE SendToMonitor
  /\ UNCHANGED <<pc, accepted, queue, subscriberVars>>

-----------------------------------------------------------------------------
\* A subscriber is started: a connmon.
Subscribe(s) ==
  /\ s \notin up
  /\ up' = up \cup {s} /\ due' = due \cup {s}
  /\ missed' = [missed EXCEPT ![s] = 0]
  /\ UNCHANGED <<senderVars, addrs, helos, steady, silent>>

Leave(s) ==
  /\ s \in up
  /\ up' = up \ {s} /\ due' = due \ {s} /\ steady' = steady \ {s}
  /\ UNCHANGED <<senderVars, addrs, helos, missed, silent>>

\* Lost HELOs in a row that leave a subscriber remembered, with the delays there are.
Tolerated == Timeout - MaxDelay - 1

Capped(n, bound) == IF n < bound THEN n ELSE bound

\* _send_helo
SendHelo(s) ==
  /\ s \in due
  /\ due' = due \ {s}
  /\ \/ /\ helos' = helos \cup {[from |-> s, age |-> 0]}
        /\ missed' = [missed EXCEPT ![s] = 0]
        /\ silent' = [silent EXCEPT ![s] = 0]
        /\ UNCHANGED steady
     \/ /\ missed' = [missed EXCEPT ![s] = Capped(@ + 1, Tolerated + 1)]
        /\ steady' = IF missed'[s] > Tolerated THEN steady \ {s} ELSE steady
        /\ UNCHANGED <<helos, silent>>
  /\ UNCHANGED <<senderVars, addrs, up>>

Renewed(s) == [r \in DOMAIN addrs \cup {s} |-> IF r = s THEN 0 ELSE addrs[r]]

\* datagram_received, once there is an endpoint; none while the thread sets itself up.
ReceiveHelo(helo) ==
  /\ service # "looping"
  /\ helos' = helos \ {helo}
  /\ IF service = "ready" /\ Listening
       THEN /\ addrs' = Renewed(helo.from)
            /\ steady' = IF helo.from \in up THEN steady \cup {helo.from} ELSE steady
       ELSE UNCHANGED <<addrs, steady>>
  /\ UNCHANGED <<senderVars, up, due, missed, silent>>

Tick ==
  /\ due = {}
  /\ \A helo \in helos : helo.age < MaxDelay
  /\ helos' = {[helo EXCEPT !.age = @ + 1] : helo \in helos}
  /\ addrs' = [s \in DOMAIN addrs |-> Capped(addrs[s] + 1, Timeout + 2)]
  /\ silent' = [s \in Subscriber |-> Capped(silent[s] + 1, Timeout + MaxDelay + 1)]
  /\ due' = up
  /\ UNCHANGED <<senderVars, up, missed, steady>>

ForwardNext ==
  \/ StartService
  \/ MakeQueue
  \/ \E t \in Thread : Write(t) \/ HandOver(t)
  \/ Take
  \/ SendAsync
  \/ \E s \in Subscriber : Subscribe(s) \/ Leave(s) \/ SendHelo(s)
  \/ \E helo \in helos : ReceiveHelo(helo)
  \/ Tick

\* The loop runs whatever it can; nothing makes collectd write or a subscriber come.
ForwardFairness ==
  /\ WF_forwardVars(StartService) /\ WF_forwardVars(MakeQueue)
  /\ WF_forwardVars(Take) /\ WF_forwardVars(SendAsync)

ForwardSpec == ForwardInit /\ [][ForwardNext]_forwardVars /\ ForwardFairness

-----------------------------------------------------------------------------
ForwardTypeOK ==
  /\ service \in {"starting", "looping", "ready", "dead"}
  /\ pc \in [Thread -> {"idle", "sending"}]
  /\ accepted \in 0..MaxMessages
  /\ \A i \in DOMAIN queue : queue[i].n = accepted - Len(queue) + i
  /\ \A i \in DOMAIN inHand : i = 1 /\ inHand[i].n = accepted - Len(queue)
  /\ inHand # <<>> => position \in DOMAIN Senders \cup {1}
  /\ DOMAIN addrs \subseteq Subscriber
  /\ \A helo \in helos : helo.from \in Subscriber /\ helo.age <= MaxDelay
  /\ due \subseteq up /\ steady \subseteq up /\ up \subseteq Subscriber
  /\ \A c \in Listener : got[c] \in Seq(1..accepted)

(***************************************************************************)
(* The plugin implements Feed: however collectd's threads, the loop and    *)
(* the HELOs interleave, and whatever raises, no listener is sent a        *)
(* message twice, out of order, or one that was not accepted.              *)
(***************************************************************************)
FeedOfAccepted ==
  INSTANCE Feed WITH Listener <- Listener, accepted <- accepted, got <- got

FeedImplemented == FeedOfAccepted!FeedSpec

(***************************************************************************)
(* A subscriber is sent every message that the listening sender sends,     *)
(* from its first HELO that arrives until it leaves, though up to          *)
(* Tolerated of its HELOs in a row are lost and the others are late        *)
(* (networking.py 182, 283: 5 and 30 seconds).                             *)
(***************************************************************************)
Listens(n) ==
  /\ inHand # <<>> /\ Head(inHand) = [n |-> n, packable |-> TRUE]
  /\ Senders[position] = "listen"
  /\ <<inHand', position'>> # <<inHand, position>>

NoneMissed ==
  [][\A s \in steady, n \in 1..accepted : Listens(n) => got'[s] = Append(got[s], n)]_forwardVars

(***************************************************************************)
(* A subscriber that left, or whose HELOs are all lost, is sent nothing    *)
(* more than thirty seconds after its last HELO arrived (networking.py     *)
(* 283), though it is looked for only when there is something to send.     *)
(***************************************************************************)
LeaversForgotten ==
  [][\A s \in Subscriber : got'[s] # got[s] => silent[s] <= Timeout + MaxDelay]_forwardVars

(***************************************************************************)
(* Every message accepted is dealt with: neither one that cannot be        *)
(* packed nor a monitor that cannot be reached stops those behind it       *)
(* (changelog: a listener thread goes on after any exception; util.py 25). *)
(***************************************************************************)
DealtWith(n) == accepted - Len(queue) - Len(inHand) >= n

EveryoneServed == \A n \in 1..MaxMessages : accepted >= n ~> DealtWith(n)
=============================================================================
