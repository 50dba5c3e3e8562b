------------------------------ MODULE ForwardProofs ------------------------------
(***************************************************************************)
(* Proofs about Forward: its types, that it implements Feed, and that a    *)
(* subscriber is remembered as long as it should be and no longer.         *)
(***************************************************************************)
EXTENDS Forward, SequenceTheorems, TLAPS

Messages == [n : Nat, packable : BOOLEAN]

\* What collectd's threads and the loop hold: the messages accepted last are in the
\* queue, in order, and the one before them is in hand.
SenderInv ==
  /\ service \in {"starting", "looping", "ready", "dead"}
  /\ pc \in [Thread -> {"idle", "sending"}]
  /\ accepted \in 0..MaxMessages
  /\ queue \in Seq(Messages)
  /\ inHand \in Seq(Messages) /\ Len(inHand) <= 1
  /\ Len(queue) + Len(inHand) <= accepted
  /\ \A i \in DOMAIN queue : queue[i].n = accepted - Len(queue) + i
  /\ inHand # <<>> => inHand[1].n = accepted - Len(queue)
  /\ position \in Nat
  /\ inHand # <<>> => position \in DOMAIN Senders \cup {1}

SubscriberInv ==
  /\ DOMAIN addrs \subseteq Subscriber
  /\ helos \subseteq [from : Subscriber, age : 0..MaxDelay]
  /\ due \subseteq up /\ steady \subseteq up /\ up \subseteq Subscriber

\* The senders that still have the message in hand to send reach these listeners.
ToServe(c) == Senders # <<>> /\ (c = "monitor" \/ Senders[position] = "listen")

\* What the listeners were sent was accepted, and none that is still to be sent the
\* message in hand was sent that one or a later.
GotInv ==
  /\ got \in [Listener -> Seq(Nat)]
  /\ \A c \in Listener : \A i \in DOMAIN got[c] : got[c][i] \in 1..(accepted - Len(queue))
  /\ inHand # <<>> =>
       \A c \in Listener : ToServe(c) => \A i \in DOMAIN got[c] : got[c][i] < inHand[1].n

ForwardInv == SenderInv /\ SubscriberInv /\ GotInv

-----------------------------------------------------------------------------
LEMMA InitInv == ForwardInit => ForwardInv
BY ForwardAssumption, EmptySeq
   DEF ForwardInit, ForwardInv, SenderInv, SubscriberInv, GotInv, Messages, Listener

\* Where the senders are: there is one of each at most, the listening one first.
LEMMA SendersInOrder ==
  /\ Senders \in Seq({"listen", "monitor"})
  /\ Len(Senders) \in 0..2 /\ DOMAIN Senders = 1..Len(Senders)
  /\ \A p \in DOMAIN Senders : p > 1 => Senders[p] = "monitor"
  /\ \A p \in DOMAIN Senders : Senders[p] \in {"listen", "monitor"}
  /\ Senders # <<>> => 1 \in DOMAIN Senders
<1>1. CASE Senders = <<>> BY <1>1
<1>2. CASE Senders = <<"listen">> BY <1>2
<1>3. CASE Senders = <<"monitor">> BY <1>3
<1>4. CASE Senders = <<"listen", "monitor">> BY <1>4
<1> QED BY <1>1, <1>2, <1>3, <1>4, ForwardAssumption

\* Sending the message in hand on keeps the invariant, and is a step of Feed.
LEMMA SentKeeps ==
  ASSUME ForwardInv, inHand # <<>>,
         NEW to \in SUBSET Listener, Sent(to),
         Senders = <<>> => to = {},
         \A c \in to : ToServe(c),
         "monitor" \in to => Senders[position] = "monitor",
         UNCHANGED <<pc, accepted, queue>>
  PROVE  SenderInv' /\ GotInv' /\ FeedOfAccepted!Pass
<1>1. /\ Len(inHand) = 1 /\ Head(inHand) = inHand[1] /\ inHand[1] \in Messages
  <2>1. Len(inHand) = 1
    <3>1. inHand \in Seq(Messages) /\ Len(inHand) <= 1
      BY DEF ForwardInv, SenderInv
    <3>2. Len(inHand) \in Nat \ {0}
      BY <3>1, EmptySeq
    <3> QED BY <3>1, <3>2
  <2>2. DOMAIN inHand = 1..1 /\ inHand[1] \in Messages
    BY <2>1 DEF ForwardInv, SenderInv
  <2> QED BY <2>1, <2>2
<1> DEFINE n == inHand[1].n
<1>2. n \in 1..accepted /\ n = accepted - Len(queue) /\ n \in Nat
  BY <1>1, ForwardAssumption DEF ForwardInv, SenderInv, Messages
<1>3. \A c \in to : \A i \in DOMAIN got[c] : got[c][i] < n
  BY DEF ForwardInv, GotInv
<1>4. got' = [c \in Listener |-> IF c \in to THEN Append(got[c], n) ELSE got[c]]
  BY <1>1 DEF Sent
<1>5. FeedOfAccepted!Pass
  BY <1>2, <1>3, <1>4 DEF FeedOfAccepted!Pass
<1>6. SenderInv'
  <2>1. /\ Len(queue) \in Nat /\ accepted \in Nat /\ Len(queue) + 1 <= accepted
        /\ service' = service /\ position \in Nat
    BY <1>1, LenProperties, ForwardAssumption DEF Sent, ForwardInv, SenderInv
  <2>2. CASE position >= Len(Senders)
    <3>1. inHand' = <<>> /\ inHand' \in Seq(Messages) /\ Len(inHand') = 0 /\ position' = position
      BY <2>2, EmptySeq DEF Sent
    <3> QED BY <2>1, <3>1 DEF ForwardInv, SenderInv
  <2>3. CASE ~(position >= Len(Senders))
    <3>1. inHand' = inHand /\ position' = position + 1
      BY <2>3 DEF Sent
    <3>2. position' \in DOMAIN Senders
      BY <2>1, <2>3, <3>1, SendersInOrder
    <3> QED BY <2>1, <3>1, <3>2 DEF ForwardInv, SenderInv
  <2> QED BY <2>2, <2>3
<1>7. got' \in [Listener -> Seq(Nat)]
  BY <1>2, <1>4, AppendProperties DEF ForwardInv, GotInv
<1>8. ASSUME NEW c \in Listener, NEW i \in DOMAIN got'[c]
      PROVE  got'[c][i] \in 1..(accepted - Len(queue))
  <2>1. CASE c \notin to
    BY <2>1, <1>4, <1>8 DEF ForwardInv, GotInv
  <2>2. CASE c \in to
    <3>1. got[c] \in Seq(Nat) /\ got'[c] = Append(got[c], n)
      BY <2>2, <1>4 DEF ForwardInv, GotInv
    <3>2. i \in 1..Len(got[c]) + 1
      BY <3>1, <1>2, <1>8
    <3>3. CASE i = Len(got[c]) + 1
      BY <3>1, <3>3, <1>2
    <3>4. CASE i \in 1..Len(got[c])
      <4>1. got'[c][i] = got[c][i] /\ i \in DOMAIN got[c]
        BY <3>1, <3>4, <1>2
      <4> QED BY <4>1 DEF ForwardInv, GotInv
    <3> QED BY <3>1, <3>2, <3>3, <3>4
  <2> QED BY <2>1, <2>2
<1>9. ASSUME inHand' # <<>>, NEW c \in Listener, ToServe(c)'
      PROVE  \A i \in DOMAIN got'[c] : got'[c][i] < inHand'[1].n
  <2>1. inHand' = inHand /\ position' = position + 1 /\ Senders # <<>>
    BY <1>9 DEF Sent, ToServe
  <2>2. position' \in DOMAIN Senders /\ position' > 1
    BY <1>6, <1>9, <2>1, SendersInOrder DEF SenderInv, ForwardInv, Sent
  <2>3. c = "monitor"
    BY <1>9, <2>2, SendersInOrder DEF ToServe
  <2>4. Senders[position] # "monitor"
    BY <2>1, <2>2, ForwardAssumption DEF ForwardInv, SenderInv
  <2>5. c \notin to /\ got'[c] = got[c]
    BY <2>3, <2>4, <1>4
  <2> QED BY <2>1, <2>3, <2>5 DEF ForwardInv, GotInv, ToServe
<1> QED
  BY <1>5, <1>6, <1>7, <1>8, <1>9 DEF GotInv
-----------------------------------------------------------------------------
\* A step of Feed, or none that it sees.
FeedStep == [FeedOfAccepted!Accept \/ FeedOfAccepted!Pass]_<<accepted, got>>

\* What leaves the messages and the sender alone keeps what is known of them.
LEMMA MessagesFrame ==
  ASSUME ForwardInv, UNCHANGED <<accepted, queue, inHand, position, got>>,
         service' \in {"starting", "looping", "ready", "dead"},
         pc' \in [Thread -> {"idle", "sending"}]
  PROVE  SenderInv' /\ GotInv' /\ FeedStep
BY DEF ForwardInv, SenderInv, GotInv, ToServe, FeedStep

LEMMA HandOverKeeps ==
  ASSUME ForwardInv, NEW t \in Thread, HandOver(t)
  PROVE  ForwardInv' /\ FeedStep
<1>1. SubscriberInv'
  BY DEF HandOver, ForwardInv, SubscriberInv, subscriberVars
<1>2. pc' \in [Thread -> {"idle", "sending"}]
  BY DEF HandOver, ForwardInv, SenderInv
<1>3. CASE service = "ready" /\ accepted < MaxMessages
  <2>1. PICK packable \in BOOLEAN :
          /\ accepted' = accepted + 1
          /\ queue' = Append(queue, [n |-> accepted + 1, packable |-> packable])
          /\ UNCHANGED <<service, inHand, position, got>>
    BY <1>3 DEF HandOver, Queued
  <2> DEFINE m == [n |-> accepted + 1, packable |-> packable]
  <2>2. m \in Messages /\ m.n = accepted + 1
    BY ForwardAssumption DEF ForwardInv, SenderInv, Messages
  <2>3. /\ queue' \in Seq(Messages) /\ Len(queue') = Len(queue) + 1
        /\ \A i \in 1..Len(queue) : queue'[i] = queue[i]
        /\ queue'[Len(queue) + 1] = m
        /\ Len(queue) \in Nat /\ Len(inHand) \in Nat
    <3> HIDE DEF m
    <3> QED BY <2>1, <2>2, AppendProperties, LenProperties DEF ForwardInv, SenderInv, m
  <2>4. \A i \in DOMAIN queue' : queue'[i].n = accepted' - Len(queue') + i
    <3> SUFFICES ASSUME NEW i \in 1..Len(queue) + 1
                 PROVE  queue'[i].n = accepted' - Len(queue') + i
      BY <2>3
    <3>1. CASE i = Len(queue) + 1
      BY <3>1, <2>1, <2>2, <2>3, ForwardAssumption DEF ForwardInv, SenderInv
    <3>2. CASE i \in 1..Len(queue)
      <4>1. i \in DOMAIN queue /\ queue'[i] = queue[i]
        BY <3>2, <2>3 DEF ForwardInv, SenderInv
      <4> QED BY <4>1, <2>1, <2>3, ForwardAssumption DEF ForwardInv, SenderInv
    <3> QED BY <3>1, <3>2, <2>3
  <2>5. SenderInv'
    BY <1>2, <1>3, <2>1, <2>3, <2>4, ForwardAssumption DEF ForwardInv, SenderInv
  <2>6. accepted' - Len(queue') = accepted - Len(queue)
    BY <2>1, <2>3, ForwardAssumption DEF ForwardInv, SenderInv
  <2>7. GotInv'
    BY <2>1, <2>6 DEF ForwardInv, GotInv, ToServe
  <2>8. FeedOfAccepted!Accept
    BY <2>1 DEF FeedOfAccepted!Accept
  <2> QED BY <1>1, <2>5, <2>7, <2>8 DEF ForwardInv, FeedStep
<1>4. CASE ~(service = "ready" /\ accepted < MaxMessages)
  BY <1>1, <1>2, <1>4, MessagesFrame DEF HandOver, ForwardInv, SenderInv
<1> QED BY <1>3, <1>4

LEMMA TakeKeeps ==
  ASSUME ForwardInv, Take
  PROVE  ForwardInv' /\ FeedStep
<1>1. /\ queue \in Seq(Messages) /\ queue # <<>>
      /\ inHand = <<>> /\ inHand' = <<Head(queue)>> /\ queue' = Tail(queue) /\ position' = 1
      /\ UNCHANGED <<accepted, got, service, pc>>
  BY DEF Take, ForwardInv, SenderInv
<1>2. /\ Head(queue) \in Messages /\ Head(queue) = queue[1] /\ 1 \in DOMAIN queue
      /\ Tail(queue) \in Seq(Messages) /\ Len(queue') = Len(queue) - 1 /\ Len(queue) \in Nat \ {0}
      /\ \A i \in 1..Len(queue') : queue'[i] = queue[i + 1]
  <2>1. Len(queue) \in Nat \ {0} /\ DOMAIN queue = 1..Len(queue)
    BY <1>1, EmptySeq, LenProperties
  <2> QED BY <1>1, <2>1, HeadTailProperties
<1>3. inHand' \in Seq(Messages) /\ Len(inHand') = 1 /\ inHand'[1] = queue[1]
  BY <1>1, <1>2
<1>4. Head(queue).n = accepted - Len(queue') /\ Len(inHand) = 0
  BY <1>1, <1>2, EmptySeq, ForwardAssumption DEF ForwardInv, SenderInv
<1>5. \A i \in DOMAIN queue' : queue'[i].n = accepted' - Len(queue') + i
  <2> SUFFICES ASSUME NEW i \in 1..Len(queue')
               PROVE  queue'[i].n = accepted' - Len(queue') + i
    BY <1>1, <1>2, LenProperties
  <2>1. i + 1 \in DOMAIN queue /\ queue'[i] = queue[i + 1] /\ i \in Nat
    BY <1>1, <1>2, LenProperties
  <2>2. queue[i + 1].n = accepted - Len(queue) + (i + 1)
    BY <2>1 DEF ForwardInv, SenderInv
  <2>3. Len(queue) \in Nat /\ accepted \in Nat /\ Len(queue') = Len(queue) - 1 /\ accepted' = accepted
    BY <1>1, <1>2, ForwardAssumption DEF ForwardInv, SenderInv
  <2> QED BY <2>1, <2>2, <2>3
<1>6. SenderInv'
  BY <1>1, <1>2, <1>3, <1>4, <1>5, ForwardAssumption DEF ForwardInv, SenderInv
<1>7. ASSUME NEW c \in Listener, NEW i \in DOMAIN got[c]
      PROVE  got[c][i] \in 1..(accepted - Len(queue')) /\ got[c][i] < inHand'[1].n
  <2>1. got[c][i] \in 1..(accepted - Len(queue)) /\ accepted \in Nat
    BY ForwardAssumption DEF ForwardInv, GotInv, SenderInv
  <2> QED BY <2>1, <1>2, <1>3, <1>4
<1>8. GotInv'
  BY <1>1, <1>7 DEF ForwardInv, GotInv
<1>9. SubscriberInv'
  BY DEF Take, ForwardInv, SubscriberInv, subscriberVars
<1> QED BY <1>1, <1>6, <1>8, <1>9 DEF ForwardInv, FeedStep

LEMMA RaiseKeeps ==
  ASSUME ForwardInv, Raise, UNCHANGED <<pc, accepted, queue>>
  PROVE  SenderInv' /\ GotInv' /\ FeedStep
<1>1. inHand' = <<>> /\ inHand' \in Seq(Messages) /\ Len(inHand') = 0 /\ service' = "ready"
  BY EmptySeq DEF Raise, Caught
<1>2. Len(queue) \in Nat /\ Len(inHand) \in Nat /\ Len(queue) + 0 <= accepted
  BY LenProperties, ForwardAssumption DEF ForwardInv, SenderInv
<1> QED
  BY <1>1, <1>2 DEF Raise, ForwardInv, SenderInv, GotInv, FeedStep

LEMMA SendAsyncKeeps ==
  ASSUME ForwardInv, SendAsync
  PROVE  ForwardInv' /\ FeedStep
<1>1. inHand # <<>> /\ UNCHANGED <<pc, accepted, queue, subscriberVars>>
  BY DEF SendAsync
<1>2. UNCHANGED addrs => SubscriberInv'
  BY <1>1 DEF ForwardInv, SubscriberInv, subscriberVars
<1>3. CASE Senders = <<>>
  BY <1>1, <1>2, <1>3, SentKeeps DEF SendAsync, ForwardInv, FeedStep
<1>4. CASE Senders # <<>> /\ ~Head(inHand).packable
  BY <1>1, <1>2, <1>4, RaiseKeeps DEF SendAsync, Raise, ForwardInv
<1>5. CASE Senders # <<>> /\ Head(inHand).packable /\ Senders[position] = "listen"
  <2> DEFINE remembered == {s \in DOMAIN addrs : ~Expired(s)}
  <2>1. /\ addrs' = [s \in remembered |-> addrs[s]] /\ Sent(remembered)
    BY <1>5 DEF SendAsync, SendToAll
  <2>2. remembered \subseteq Subscriber
    BY DEF ForwardInv, SubscriberInv
  <2>3. SubscriberInv'
    BY <1>1, <2>1, <2>2 DEF ForwardInv, SubscriberInv, subscriberVars
  <2>4. remembered \in SUBSET Listener /\ "monitor" \notin remembered
    BY <2>2, ForwardAssumption DEF Listener
  <2>5. \A c \in remembered : ToServe(c)
    BY <1>5 DEF ToServe
  <2> HIDE DEF remembered
  <2> QED BY <1>1, <1>5, <2>1, <2>3, <2>4, <2>5, SentKeeps DEF ForwardInv, FeedStep
<1>6. CASE Senders # <<>> /\ Head(inHand).packable /\ Senders[position] # "listen"
  <2>1. SendToMonitor
    BY <1>6 DEF SendAsync
  <2>2. CASE Raise
    BY <1>1, <1>2, <2>2, RaiseKeeps DEF Raise, ForwardInv
  <2>3. CASE Sent({"monitor"}) /\ UNCHANGED addrs
    <3>1. position \in DOMAIN Senders /\ Senders[position] = "monitor"
      BY <1>1, <1>6, SendersInOrder DEF ForwardInv, SenderInv
    <3>2. {"monitor"} \in SUBSET Listener /\ \A c \in {"monitor"} : ToServe(c)
      BY <1>6 DEF ToServe, Listener
    <3> QED BY <1>1, <1>2, <1>6, <2>3, <3>1, <3>2, SentKeeps DEF ForwardInv, FeedStep
  <2> QED BY <2>1, <2>2, <2>3 DEF SendToMonitor
<1> QED BY <1>3, <1>4, <1>5, <1>6

\* The subscribers come, go and renew without the messages being touched.
LEMMA SubscribersKeep ==
  ASSUME ForwardInv,
         \/ \E s \in Subscriber : Subscribe(s) \/ Leave(s) \/ SendHelo(s)
         \/ \E helo \in helos : ReceiveHelo(helo)
         \/ Tick
  PROVE  ForwardInv' /\ FeedStep
<1>1. UNCHANGED senderVars
  BY DEF Subscribe, Leave, SendHelo, ReceiveHelo, Tick
<1>2. SenderInv' /\ GotInv' /\ FeedStep
  BY <1>1, MessagesFrame DEF senderVars, ForwardInv, SenderInv
<1>3. ASSUME NEW s \in Subscriber, Subscribe(s) PROVE SubscriberInv'
  BY <1>3 DEF Subscribe, ForwardInv, SubscriberInv
<1>4. ASSUME NEW s \in Subscriber, Leave(s) PROVE SubscriberInv'
  BY <1>4 DEF Leave, ForwardInv, SubscriberInv
<1>5. ASSUME NEW s \in Subscriber, SendHelo(s) PROVE SubscriberInv'
  <2>1. [from |-> s, age |-> 0] \in [from : Subscriber, age : 0..MaxDelay]
    BY ForwardAssumption
  <2> QED BY <1>5, <2>1 DEF SendHelo, ForwardInv, SubscriberInv
<1>6. ASSUME NEW helo \in helos, ReceiveHelo(helo) PROVE SubscriberInv'
  <2>1. helo.from \in Subscriber
    BY DEF ForwardInv, SubscriberInv
  <2> QED BY <1>6, <2>1 DEF ReceiveHelo, Renewed, ForwardInv, SubscriberInv
<1>7. ASSUME Tick PROVE SubscriberInv'
  <2>1. ASSUME NEW helo \in helos
        PROVE  [helo EXCEPT !.age = @ + 1] \in [from : Subscriber, age : 0..MaxDelay]
    BY <1>7, <2>1, ForwardAssumption DEF Tick, ForwardInv, SubscriberInv
  <2>2. helos' \subseteq [from : Subscriber, age : 0..MaxDelay]
    BY <1>7, <2>1 DEF Tick
  <2> QED BY <1>7, <2>2 DEF Tick, ForwardInv, SubscriberInv
<1> QED BY <1>2, <1>3, <1>4, <1>5, <1>6, <1>7 DEF ForwardInv

LEMMA StepKeeps == ForwardInv /\ [ForwardNext]_forwardVars => ForwardInv' /\ FeedStep
<1> SUFFICES ASSUME ForwardInv, [ForwardNext]_forwardVars
             PROVE  ForwardInv' /\ FeedStep
  OBVIOUS
<1>1. CASE UNCHANGED forwardVars
  BY <1>1 DEF forwardVars, senderVars, subscriberVars, ForwardInv, SenderInv, SubscriberInv,
              GotInv, ToServe, FeedStep
<1>2. CASE StartService
  <2>1. SubscriberInv' BY <1>2 DEF StartService, ForwardInv, SubscriberInv, subscriberVars
  <2> QED BY <1>2, <2>1, MessagesFrame DEF StartService, ForwardInv, SenderInv
<1>3. CASE MakeQueue
  <2>1. SubscriberInv' BY <1>3 DEF MakeQueue, ForwardInv, SubscriberInv, subscriberVars
  <2> QED BY <1>3, <2>1, MessagesFrame DEF MakeQueue, ForwardInv, SenderInv
<1>4. ASSUME NEW t \in Thread, Write(t) PROVE ForwardInv' /\ FeedStep
  <2>1. SubscriberInv' BY <1>4 DEF Write, ForwardInv, SubscriberInv, subscriberVars
  <2> QED BY <1>4, <2>1, MessagesFrame DEF Write, ForwardInv, SenderInv
<1> QED
  BY <1>1, <1>2, <1>3, <1>4, HandOverKeeps, TakeKeeps, SendAsyncKeeps, SubscribersKeep
     DEF ForwardNext

-----------------------------------------------------------------------------
\* The inductive invariant: what connmon's plugin holds and has sent, and who it
\* remembers (connmon/plugin.py 31-43, networking.py 279-290).
THEOREM ForwardInvariant == ForwardSpec => []ForwardInv
<1>1. ForwardInv /\ [ForwardNext]_forwardVars => ForwardInv'
  BY StepKeeps
<1> QED BY <1>1, InitInv, PTL DEF ForwardSpec

\* The state of Forward keeps its type.
THEOREM ForwardTypeCorrect == ForwardSpec => []ForwardTypeOK
<1>1. ForwardInv => ForwardTypeOK
  <2> SUFFICES ASSUME ForwardInv PROVE ForwardTypeOK
    OBVIOUS
  <2>1. \A i \in DOMAIN inHand : i = 1 /\ inHand[i].n = accepted - Len(queue)
    BY LenProperties, EmptySeq DEF ForwardInv, SenderInv
  <2>2. \A c \in Listener : got[c] \in Seq(1..accepted)
    <3> TAKE c \in Listener
    <3>1. got[c] \in Seq(Nat) /\ DOMAIN got[c] = 1..Len(got[c]) /\ Len(got[c]) \in Nat
      BY LenProperties DEF ForwardInv, GotInv
    <3>2. \A i \in 1..Len(got[c]) : got[c][i] \in 1..accepted
      BY <3>1, LenProperties, ForwardAssumption DEF ForwardInv, GotInv, SenderInv
    <3>3. SubSeq(got[c], 1, Len(got[c])) \in Seq(1..accepted)
      BY <3>1, <3>2, SubSeqProperties
    <3> QED BY <3>1, <3>3, SubSeqFull
  <2>3. \A helo \in helos : helo.from \in Subscriber /\ helo.age <= MaxDelay
    BY ForwardAssumption DEF ForwardInv, SubscriberInv
  <2> QED BY <2>1, <2>2, <2>3 DEF ForwardTypeOK, ForwardInv, SenderInv, SubscriberInv
<1> QED BY <1>1, ForwardInvariant, PTL

\* The plugin implements Feed, for any threads, subscribers and senders: no listener
\* is sent a message twice, out of order, or one that was not accepted
\* (connmon/plugin.py 36-43).
THEOREM FeedImplementedHolds == ForwardSpec => FeedImplemented
<1>1. ForwardInit => FeedOfAccepted!FeedInit
  BY DEF ForwardInit, FeedOfAccepted!FeedInit
<1>2. ForwardInv /\ [ForwardNext]_forwardVars => FeedStep
  BY StepKeeps
<1> QED
  BY <1>1, <1>2, ForwardInvariant, PTL DEF ForwardSpec, FeedImplemented, FeedOfAccepted!FeedSpec, FeedStep

-----------------------------------------------------------------------------
\* A subscriber is remembered by a HELO that was under way for at most MaxDelay.
HeardInv ==
  /\ silent \in [Subscriber -> 0..(Timeout + MaxDelay + 1)]
  /\ addrs \in [DOMAIN addrs -> Nat]
  /\ \A s \in DOMAIN addrs : silent[s] <= addrs[s] + MaxDelay
  /\ \A helo \in helos : silent[helo.from] <= helo.age

LEMMA HeardInit == ForwardInit => HeardInv
BY ForwardAssumption DEF ForwardInit, HeardInv

LEMMA TickKeepsHeard ==
  ASSUME SubscriberInv, HeardInv, Tick
  PROVE  HeardInv'
<1> USE ForwardAssumption
<1>1. silent' \in [Subscriber -> 0..(Timeout + MaxDelay + 1)]
  BY DEF Tick, Capped, HeardInv
<1>2. addrs' \in [DOMAIN addrs' -> Nat] /\ DOMAIN addrs' = DOMAIN addrs
  BY DEF Tick, Capped, HeardInv
<1>3. ASSUME NEW s \in DOMAIN addrs
      PROVE  silent'[s] <= addrs'[s] + MaxDelay
  <2>1. s \in Subscriber /\ addrs[s] \in Nat /\ silent[s] \in Nat /\ silent[s] <= addrs[s] + MaxDelay
    BY DEF SubscriberInv, HeardInv
  <2>2. /\ silent'[s] = Capped(silent[s] + 1, Timeout + MaxDelay + 1)
        /\ addrs'[s] = Capped(addrs[s] + 1, Timeout + 2)
    BY <2>1 DEF Tick
  <2> QED BY <2>1, <2>2 DEF Capped
<1>4. ASSUME NEW helo \in helos'
      PROVE  silent'[helo.from] <= helo.age
  <2>1. PICK sent \in helos : helo = [sent EXCEPT !.age = @ + 1]
    BY DEF Tick
  <2>2. /\ sent \in [from : Subscriber, age : 0..MaxDelay]
        /\ silent[sent.from] <= sent.age /\ silent[sent.from] \in Nat
    BY DEF SubscriberInv, HeardInv
  <2>3. helo.from = sent.from /\ helo.age = sent.age + 1 /\ sent.from \in Subscriber
    BY <2>1, <2>2
  <2>4. silent'[helo.from] = Capped(silent[sent.from] + 1, Timeout + MaxDelay + 1)
    BY <2>3 DEF Tick
  <2> QED BY <2>2, <2>3, <2>4 DEF Capped
<1> QED BY <1>1, <1>2, <1>3, <1>4 DEF HeardInv

\* Only the two ends of a subscription and the clock change how old a HELO is; sending
\* forgets subscribers and remembers none.
LEMMA StepKeepsHeard ==
  ASSUME SubscriberInv, HeardInv, [ForwardNext]_forwardVars
  PROVE  HeardInv'
<1> USE ForwardAssumption
<1>1. ASSUME UNCHANGED <<helos, silent>>,
             DOMAIN addrs' \subseteq DOMAIN addrs, addrs' = [s \in DOMAIN addrs' |-> addrs[s]]
      PROVE  HeardInv'
  BY <1>1 DEF HeardInv
<1>2. ASSUME UNCHANGED <<helos, silent, addrs>> PROVE HeardInv'
  BY <1>2 DEF HeardInv
<1>3. CASE UNCHANGED forwardVars \/ StartService \/ MakeQueue \/ Take
  BY <1>2, <1>3 DEF forwardVars, subscriberVars, StartService, MakeQueue, Take
<1>4. ASSUME NEW t \in Thread, Write(t) \/ HandOver(t) PROVE HeardInv'
  BY <1>2, <1>4 DEF subscriberVars, Write, HandOver
<1>5. CASE SendAsync
  <2>1. UNCHANGED <<helos, silent>>
    BY <1>5 DEF SendAsync, subscriberVars
  <2>2. UNCHANGED addrs \/ SendToAll
    BY <1>5 DEF SendAsync, Raise, SendToMonitor
  <2>3. CASE SendToAll
    BY <1>1, <2>1, <2>3 DEF SendToAll
  <2> QED BY <1>2, <2>1, <2>2, <2>3
<1>6. ASSUME NEW s \in Subscriber, Subscribe(s) \/ Leave(s) PROVE HeardInv'
  BY <1>2, <1>6 DEF Subscribe, Leave
<1>7. ASSUME NEW s \in Subscriber, SendHelo(s) PROVE HeardInv'
  <2>1. UNCHANGED addrs
    BY <1>7 DEF SendHelo
  <2>2. CASE UNCHANGED <<helos, silent>>
    BY <1>2, <2>1, <2>2
  <2>3. CASE /\ helos' = helos \cup {[from |-> s, age |-> 0]}
             /\ silent' = [silent EXCEPT ![s] = 0]
    <3>1. \A r \in Subscriber : silent'[r] <= silent[r] /\ silent'[r] \in Nat /\ silent[r] \in Nat
      BY <2>3 DEF HeardInv
    <3>2. \A r \in DOMAIN addrs : silent'[r] <= addrs[r] + MaxDelay
      <4> TAKE r \in DOMAIN addrs
      <4>1. r \in Subscriber /\ addrs[r] \in Nat /\ silent[r] <= addrs[r] + MaxDelay
        BY DEF SubscriberInv, HeardInv
      <4> QED BY <3>1, <4>1
    <3>3. \A helo \in helos' : silent'[helo.from] <= helo.age
      <4> TAKE helo \in helos'
      <4>1. CASE helo = [from |-> s, age |-> 0]
        BY <2>3, <4>1 DEF HeardInv
      <4>2. CASE helo \in helos
        <5>1. helo.from \in Subscriber /\ helo.age \in Nat /\ silent[helo.from] <= helo.age
          BY <4>2 DEF SubscriberInv, HeardInv
        <5> QED BY <3>1, <5>1
      <4> QED BY <2>3, <4>1, <4>2
    <3> QED BY <2>1, <2>3, <3>2, <3>3 DEF HeardInv
  <2> QED BY <1>7, <2>2, <2>3 DEF SendHelo
<1>8. ASSUME NEW helo \in helos, ReceiveHelo(helo) PROVE HeardInv'
  <2>1. helos' \subseteq helos /\ silent' = silent /\ addrs' \in {addrs, Renewed(helo.from)}
    BY <1>8 DEF ReceiveHelo
  <2>2. helo.from \in Subscriber /\ silent[helo.from] <= MaxDelay
    BY DEF SubscriberInv, HeardInv
  <2>3. \A s \in DOMAIN Renewed(helo.from) :
          Renewed(helo.from)[s] \in Nat /\ silent[s] <= Renewed(helo.from)[s] + MaxDelay
    BY <2>2 DEF Renewed, HeardInv
  <2>4. Renewed(helo.from) \in [DOMAIN Renewed(helo.from) -> Nat]
    BY <2>3 DEF Renewed
  <2> QED BY <2>1, <2>3, <2>4 DEF HeardInv
<1>9. CASE Tick
  BY <1>9, TickKeepsHeard
<1> QED
  BY <1>3, <1>4, <1>5, <1>6, <1>7, <1>8, <1>9 DEF ForwardNext

\* The inductive invariant: the HELO that a subscriber is remembered by is at most
\* MaxDelay older than its arrival (networking.py 288-290).
THEOREM HeardInvariant == ForwardSpec => []HeardInv
<1>1. ForwardInv => SubscriberInv
  BY DEF ForwardInv
<1>2. SubscriberInv /\ HeardInv /\ [ForwardNext]_forwardVars => HeardInv'
  BY StepKeepsHeard
<1> QED BY <1>1, <1>2, HeardInit, ForwardInvariant, PTL DEF ForwardSpec

\* Who is sent something was heard of within the thirty seconds and the delay, for any
\* timeout, delay and number of subscribers (networking.py 279-286).
THEOREM LeaversForgottenHolds == ForwardSpec => LeaversForgotten
<1>1. ASSUME ForwardInv, HeardInv, [ForwardNext]_forwardVars
      PROVE  [\A s \in Subscriber : got'[s] # got[s] => silent[s] <= Timeout + MaxDelay]_forwardVars
  <2> SUFFICES ASSUME NEW s \in Subscriber, got'[s] # got[s]
               PROVE  silent[s] <= Timeout + MaxDelay
    OBVIOUS
  <2>1. SendAsync
    BY <1>1 DEF ForwardNext, forwardVars, senderVars, StartService, MakeQueue, Write, HandOver, Take,
                Subscribe, Leave, SendHelo, ReceiveHelo, Tick
  <2>2. s # "monitor" /\ s \in Listener
    BY ForwardAssumption DEF Listener
  <2>3. got \in [Listener -> Seq(Nat)]
    BY <1>1 DEF ForwardInv, GotInv
  <2>4. SendToAll
    BY <2>1, <2>2, <2>3 DEF SendAsync, Raise, SendToMonitor, Sent
  <2>5. s \in DOMAIN addrs /\ ~Expired(s)
    BY <2>2, <2>3, <2>4 DEF SendToAll, Sent
  <2> QED
    BY <1>1, <2>5, ForwardAssumption DEF Expired, HeardInv
<1> QED
  BY <1>1, ForwardInvariant, HeardInvariant, PTL DEF ForwardSpec, LeaversForgotten

-----------------------------------------------------------------------------
\* The HELO that is due counts as lost until it is sent.
Owed(s) == IF s \in due THEN 1 ELSE 0

\* Since the last HELO of a steady subscriber arrived, either all that were sent were
\* lost, or one is under way that will be there in time.
InTime(s) ==
  \/ addrs[s] <= missed[s] + Owed(s) /\ addrs[s] <= Tolerated + Owed(s)
  \/ \E helo \in helos : helo.from = s /\ addrs[s] <= Tolerated + 1 + helo.age

SteadyInv ==
  /\ missed \in [Subscriber -> Nat]
  /\ steady # {} => service = "ready" /\ Listening
  /\ \A s \in steady : s \in DOMAIN addrs /\ InTime(s)

LEMMA InTimeNotExpired ==
  ASSUME SubscriberInv, HeardInv, SteadyInv, NEW s \in steady
  PROVE  s \in DOMAIN addrs /\ ~Expired(s)
<1>1. s \in DOMAIN addrs /\ s \in Subscriber /\ addrs[s] \in Nat
  BY DEF SubscriberInv, HeardInv, SteadyInv
<1>2. Owed(s) \in 0..1
  BY DEF Owed
<1>3. \A helo \in helos : helo.age \in 0..MaxDelay
  BY DEF SubscriberInv
<1>4. InTime(s)
  BY DEF SteadyInv
<1>5. CASE addrs[s] <= Tolerated + Owed(s)
  BY <1>1, <1>2, <1>5, ForwardAssumption DEF Expired, Tolerated
<1>6. CASE \E helo \in helos : helo.from = s /\ addrs[s] <= Tolerated + 1 + helo.age
  BY <1>1, <1>3, <1>6, ForwardAssumption DEF Expired, Tolerated
<1> QED BY <1>1, <1>4, <1>5, <1>6 DEF InTime

LEMMA SendHeloKeepsSteady ==
  ASSUME SubscriberInv, HeardInv, SteadyInv, NEW r \in Subscriber, SendHelo(r)
  PROVE  SteadyInv'
<1> USE ForwardAssumption
<1>1. Tolerated \in Nat
  BY DEF Tolerated
<1>2. /\ r \in due /\ due' = due \ {r} /\ addrs' = addrs
      /\ service' = service /\ steady' \subseteq steady /\ helos \subseteq helos'
  BY DEF SendHelo, senderVars
<1>3. missed' \in [Subscriber -> Nat] /\ \A s \in Subscriber \ {r} : missed'[s] = missed[s]
  BY <1>1 DEF SendHelo, Capped, SteadyInv
<1>4. ASSUME NEW s \in steady'
      PROVE  s \in DOMAIN addrs' /\ InTime(s)'
  <2>1. /\ s \in steady /\ s \in Subscriber /\ s \in DOMAIN addrs /\ addrs[s] \in Nat
        /\ missed[s] \in Nat /\ InTime(s)
    BY <1>2, <1>4 DEF SubscriberInv, HeardInv, SteadyInv
  <2>2. CASE \E helo \in helos : helo.from = s /\ addrs[s] <= Tolerated + 1 + helo.age
    BY <1>2, <2>1, <2>2 DEF InTime, Tolerated
  <2>3. CASE s # r /\ addrs[s] <= missed[s] + Owed(s) /\ addrs[s] <= Tolerated + Owed(s)
    <3>1. Owed(s)' = Owed(s)
      BY <1>2, <2>3 DEF Owed
    <3> QED BY <1>2, <1>3, <2>1, <2>3, <3>1 DEF InTime, Tolerated
  <2>4. CASE s = r /\ addrs[s] <= missed[s] + Owed(s) /\ addrs[s] <= Tolerated + Owed(s)
    <3>1. Owed(s) = 1 /\ Owed(s)' = 0
      BY <1>2, <2>4 DEF Owed
    <3>2. CASE helos' = helos \cup {[from |-> r, age |-> 0]}
      <4> DEFINE fresh == [from |-> r, age |-> 0]
      <4>1. fresh \in helos' /\ fresh.from = s /\ fresh.age = 0
        BY <2>4, <3>2
      <4>2. addrs'[s] <= Tolerated + 1 + fresh.age
        BY <1>1, <1>2, <2>1, <2>4, <3>1, <4>1
      <4>3. Tolerated' = Tolerated
        BY DEF Tolerated
      <4> HIDE DEF fresh
      <4> QED BY <1>2, <2>1, <4>1, <4>2, <4>3 DEF InTime
    <3>3. CASE /\ missed' = [missed EXCEPT ![r] = Capped(@ + 1, Tolerated + 1)]
               /\ steady' = IF missed'[r] > Tolerated THEN steady \ {r} ELSE steady
      <4>1. missed'[s] <= Tolerated /\ missed'[s] = missed[s] + 1
        BY <1>1, <1>4, <2>1, <2>4, <3>3 DEF Capped, SteadyInv
      <4> QED BY <1>1, <1>2, <2>1, <2>4, <3>1, <4>1 DEF InTime, Tolerated
    <3> QED BY <3>2, <3>3 DEF SendHelo
  <2> QED BY <2>1, <2>2, <2>3, <2>4 DEF InTime
<1> QED BY <1>2, <1>3, <1>4 DEF SteadyInv, Listening

LEMMA ReceiveHeloKeepsSteady ==
  ASSUME SubscriberInv, HeardInv, SteadyInv, NEW helo \in helos, ReceiveHelo(helo)
  PROVE  SteadyInv'
<1>1. /\ helos' = helos \ {helo} /\ UNCHANGED <<missed, due, up, service>>
      /\ helo.from \in Subscriber
  BY DEF ReceiveHelo, senderVars, SubscriberInv
<1>2. CASE ~(service = "ready" /\ Listening)
  <2>1. steady' = {}
    BY <1>2 DEF ReceiveHelo, SteadyInv
  <2> QED BY <1>1, <2>1 DEF SteadyInv
<1>3. CASE service = "ready" /\ Listening
  <2>1. /\ addrs' = Renewed(helo.from)
        /\ steady' = IF helo.from \in up THEN steady \cup {helo.from} ELSE steady
    BY <1>3 DEF ReceiveHelo
  <2>2. ASSUME NEW s \in steady'
        PROVE  s \in DOMAIN addrs' /\ InTime(s)'
    <3>1. CASE s = helo.from
      <4>1. addrs'[s] = 0 /\ s \in DOMAIN addrs'
        BY <2>1, <3>1 DEF Renewed
      <4>2. missed'[s] \in Nat /\ Owed(s)' \in 0..1
        BY <1>1, <3>1 DEF Owed, SteadyInv
      <4>3. Tolerated \in Nat
        BY ForwardAssumption DEF Tolerated
      <4> QED BY <4>1, <4>2, <4>3 DEF InTime, Tolerated
    <3>2. CASE s # helo.from
      <4>1. s \in steady /\ s \in DOMAIN addrs' /\ addrs'[s] = addrs[s]
        BY <2>1, <2>2, <3>2 DEF Renewed, SteadyInv
      <4>2. Owed(s)' = Owed(s) /\ missed' = missed
        BY <1>1 DEF Owed
      <4>3. InTime(s)
        BY <4>1 DEF SteadyInv
      <4>4. InTime(s)'
        BY <1>1, <3>2, <4>1, <4>2, <4>3 DEF InTime, Tolerated
      <4> QED BY <4>1, <4>4
    <3> QED BY <3>1, <3>2
  <2> QED BY <1>1, <1>3, <2>1, <2>2 DEF SteadyInv, Listening
<1> QED BY <1>2, <1>3

LEMMA TickKeepsSteady ==
  ASSUME SubscriberInv, HeardInv, SteadyInv, Tick
  PROVE  SteadyInv'
<1> USE ForwardAssumption
<1>1. /\ due = {} /\ due' = up /\ UNCHANGED <<missed, steady, service>>
      /\ helos' = {[helo EXCEPT !.age = @ + 1] : helo \in helos}
      /\ addrs' = [s \in DOMAIN addrs |-> Capped(addrs[s] + 1, Timeout + 2)]
  BY DEF Tick, senderVars
<1>2. ASSUME NEW s \in steady
      PROVE  s \in DOMAIN addrs' /\ InTime(s)'
  <2>1. /\ s \in up /\ s \in Subscriber /\ s \in DOMAIN addrs /\ addrs[s] \in Nat
        /\ missed[s] \in Nat /\ InTime(s)
    BY DEF SubscriberInv, HeardInv, SteadyInv
  <2>2. s \in DOMAIN addrs' /\ addrs'[s] \in Nat /\ addrs'[s] <= addrs[s] + 1
    BY <1>1, <2>1 DEF Capped
  <2>3. Owed(s) = 0 /\ Owed(s)' = 1 /\ Tolerated \in Nat
    BY <1>1, <2>1 DEF Owed, Tolerated
  <2>4. CASE addrs[s] <= missed[s] + Owed(s) /\ addrs[s] <= Tolerated + Owed(s)
    <3>1. addrs'[s] <= missed'[s] + Owed(s)' /\ addrs'[s] <= Tolerated + Owed(s)'
      BY <1>1, <2>1, <2>2, <2>3, <2>4
    <3> QED BY <2>2, <3>1 DEF InTime, Tolerated
  <2>5. CASE \E helo \in helos : helo.from = s /\ addrs[s] <= Tolerated + 1 + helo.age
    <3>1. PICK helo \in helos : helo.from = s /\ addrs[s] <= Tolerated + 1 + helo.age
      BY <2>5
    <3> DEFINE later == [helo EXCEPT !.age = @ + 1]
    <3>2. later \in helos' /\ later.from = s /\ later.age = helo.age + 1 /\ helo.age \in Nat
      <4>1. helo \in [from : Subscriber, age : 0..MaxDelay] /\ helo.age \in Nat
        BY <3>1 DEF SubscriberInv
      <4>2. later \in helos'
        BY <1>1
      <4>3. later.from = helo.from /\ later.age = helo.age + 1
        BY <4>1
      <4> QED BY <3>1, <4>1, <4>2, <4>3
    <3>3. addrs'[s] <= Tolerated + 1 + later.age
      BY <2>1, <2>2, <2>3, <3>1, <3>2
    <3>4. Tolerated' = Tolerated
      BY DEF Tolerated
    <3> HIDE DEF later
    <3> QED BY <2>2, <3>2, <3>3, <3>4 DEF InTime
  <2> QED BY <2>1, <2>4, <2>5 DEF InTime
<1> QED BY <1>1, <1>2 DEF SteadyInv, Listening

LEMMA StepKeepsSteady ==
  ASSUME SubscriberInv, HeardInv, SteadyInv, [ForwardNext]_forwardVars
  PROVE  SteadyInv'
<1>1. ASSUME UNCHANGED <<missed, helos, addrs>>, service' = service \/ service # "ready",
             \A s \in steady' : s \in steady /\ Owed(s)' = Owed(s)
      PROVE  SteadyInv'
  BY <1>1 DEF SteadyInv, InTime, Tolerated, Listening
<1>2. CASE UNCHANGED forwardVars \/ StartService \/ MakeQueue \/ Take
  BY <1>1, <1>2 DEF forwardVars, senderVars, subscriberVars, StartService, MakeQueue, Take, Owed
<1>3. ASSUME NEW t \in Thread, Write(t) \/ HandOver(t) PROVE SteadyInv'
  BY <1>1, <1>3 DEF subscriberVars, Write, HandOver, Owed
<1>4. CASE SendAsync
  <2>1. UNCHANGED subscriberVars /\ (service' = service \/ service' = "ready")
    BY <1>4 DEF SendAsync, SendToAll, SendToMonitor, Raise, Caught, Sent
  <2>2. \A s \in steady : s \in DOMAIN addrs' /\ addrs'[s] = addrs[s]
    BY <1>4, InTimeNotExpired DEF SendAsync, SendToAll, SendToMonitor, Raise, SteadyInv
  <2>3. \A s \in steady : InTime(s)'
    BY <2>1, <2>2 DEF SteadyInv, InTime, Owed, Tolerated, subscriberVars
  <2> QED BY <2>1, <2>2, <2>3 DEF SteadyInv, Listening, subscriberVars
<1>5. ASSUME NEW r \in Subscriber, Subscribe(r) PROVE SteadyInv'
  <2>1. r \notin steady /\ steady' = steady /\ due' = due \cup {r}
        /\ UNCHANGED <<helos, addrs, service>> /\ missed' = [missed EXCEPT ![r] = 0]
    BY <1>5 DEF Subscribe, senderVars, SubscriberInv
  <2>2. \A s \in steady : missed'[s] = missed[s] /\ Owed(s)' = Owed(s)
    BY <2>1 DEF Owed, SteadyInv
  <2>3. \A s \in steady : InTime(s)'
    BY <2>1, <2>2 DEF SteadyInv, InTime, Tolerated
  <2> QED BY <2>1, <2>3 DEF SteadyInv, Listening
<1>6. ASSUME NEW r \in Subscriber, Leave(r) PROVE SteadyInv'
  BY <1>1, <1>6 DEF Leave, senderVars, Owed
<1> QED
  BY <1>2, <1>3, <1>4, <1>5, <1>6, SendHeloKeepsSteady, ReceiveHeloKeepsSteady, TickKeepsSteady
     DEF ForwardNext

\* The inductive invariant: a steady subscriber's next HELO is there before it expires
\* (networking.py 179-182, 279-290).
THEOREM SteadyInvariant == ForwardSpec => []SteadyInv
<1>1. ForwardInit => SteadyInv
  BY DEF ForwardInit, SteadyInv
<1>2. ForwardInv => SubscriberInv
  BY DEF ForwardInv
<1>3. SubscriberInv /\ HeardInv /\ SteadyInv /\ [ForwardNext]_forwardVars => SteadyInv'
  BY StepKeepsSteady
<1> QED BY <1>1, <1>2, <1>3, ForwardInvariant, HeardInvariant, PTL DEF ForwardSpec

\* No subscriber that loses no more HELOs than are tolerated misses a message that is
\* sent to the subscribers, for any timeout, delay and number of them
\* (networking.py 279-286).
THEOREM NoneMissedHolds == ForwardSpec => NoneMissed
<1>1. ASSUME ForwardInv, HeardInv, SteadyInv, [ForwardNext]_forwardVars
      PROVE  [\A s \in steady, n \in 1..accepted :
                Listens(n) => got'[s] = Append(got[s], n)]_forwardVars
  <2> SUFFICES ASSUME NEW s \in steady, NEW n \in 1..accepted, Listens(n)
               PROVE  got'[s] = Append(got[s], n)
    OBVIOUS
  <2>1. SendAsync
    BY <1>1 DEF Listens, ForwardNext, forwardVars, senderVars, StartService, MakeQueue, Write,
                HandOver, Take, Subscribe, Leave, SendHelo, ReceiveHelo, Tick
  <2>2. Senders # <<>>
    <3>1. PICK i \in DOMAIN Senders : Senders[i] = "listen"
      BY <1>1 DEF SteadyInv, Listening
    <3> QED BY <3>1
  <2>3. Head(inHand).packable /\ Head(inHand).n = n
    BY DEF Listens
  <2>4. SendToAll
    BY <2>1, <2>2, <2>3 DEF SendAsync, Listens
  <2>5. s \in DOMAIN addrs /\ ~Expired(s) /\ s \in Listener
    BY <1>1, InTimeNotExpired DEF ForwardInv, SubscriberInv, Listener
  <2> QED BY <2>3, <2>4, <2>5 DEF SendToAll, Sent
<1> QED
  BY <1>1, ForwardInvariant, HeardInvariant, SteadyInvariant, PTL DEF ForwardSpec, NoneMissed
=============================================================================
