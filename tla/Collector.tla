------------------------------ MODULE Collector ------------------------------
(***************************************************************************)
(* The accounting a CollectionTarget keeps of the DBAPI connections of the *)
(* engines that share a program name, and the nine pool event handlers of  *)
(* EngineCollector that write it (client/collector.py).                    *)
(*                                                                         *)
(* SQLAlchemy's pool is external.  What it does to a connection is kept in *)
(* "pool" and "soft", the truth the accounting is compared with.  The pool *)
(* fires its events from whichever application thread uses a connection:   *)
(* the handlers of different connections interleave, those of one          *)
(* connection do not.  Hence a handler is not one step: pc[i] names the    *)
(* next statement of the handler that is running for connection i.         *)
(*                                                                         *)
(* The set "transactions" is left out: nothing ever adds to it, so the     *)
(* statements that discard from it have no effect (_reset_evt is nothing   *)
(* else).                                                                  *)
(***************************************************************************)
EXTENDS Naturals, FiniteSets

CONSTANTS
  Ident,      \* what id() returns for the DBAPI connections; reused after a close
  IdNone,     \* id(None): the pool checks in None for a record it invalidated
  MaxTotal,   \* bound of the model: events counted by each total
  Orphans     \* may the pool lose a connection without firing an event?

ASSUME IdentAssumption ==
  /\ IsFiniteSet(Ident)
  /\ IdNone \notin Ident
  /\ MaxTotal \in Nat
  /\ Orphans \in BOOLEAN

VARIABLES
  pool,         \* external: where each connection is
  soft,         \* external: the connections marked for refresh on next use
  pc,           \* the next statement of the handler running for a connection
  connections, checkedin, invalidated, detached,
  total_checkouts, total_invalidated, total_connects, total_disconnects,
  warned        \* the branches the code holds to be abnormal that were taken

poolVars == <<pool, soft>>
setVars == <<connections, checkedin, invalidated, detached>>
totalVars == <<total_checkouts, total_invalidated, total_connects, total_disconnects>>
vars == <<poolVars, pc, setVars, totalVars, warned>>

Place == {"absent", "checkedin", "checkedout", "detached"}

Statement ==
  {"rest",
   "connect.connections", "connect.checkedin",
   "checkout.checkedin",
   "soft.invalidated", "hard.invalidated",
   "close", "close.checkedin", "close.connections", "close.total", "close.detached",
   "closed.checkedin", "closed.detached", "closed.connections", "closed.total",
   "checkin.none"}

\* A checkout of an unlisted connection, a close of an unknown one, a close of
\* one still in "detached".
Abnormal == {"unlisted", "missing", "detached"}

TypeOK ==
  /\ pool \in [Ident -> Place]
  /\ soft \subseteq Ident
  /\ pc \in [Ident -> Statement]
  /\ connections \subseteq Ident
  /\ checkedin \subseteq Ident \cup {IdNone}
  /\ invalidated \subseteq Ident
  /\ detached \subseteq Ident
  /\ total_checkouts \in Nat /\ total_invalidated \in Nat
  /\ total_connects \in Nat /\ total_disconnects \in Nat
  /\ warned \subseteq Abnormal

Init ==
  /\ pool = [i \in Ident |-> "absent"]
  /\ soft = {}
  /\ pc = [i \in Ident |-> "rest"]
  /\ connections = {} /\ checkedin = {} /\ invalidated = {} /\ detached = {}
  /\ total_checkouts = 0 /\ total_invalidated = 0
  /\ total_connects = 0 /\ total_disconnects = 0
  /\ warned = {}

-----------------------------------------------------------------------------
At(i, place, statement) == pool[i] = place /\ pc[i] = statement
Goto(i, statement) == pc' = [pc EXCEPT ![i] = statement]
Move(i, place) == pool' = [pool EXCEPT ![i] = place]

(***************************************************************************)
(* "connect": a DBAPI connection was opened, under an identity that no     *)
(* open connection has.                                                    *)
(***************************************************************************)
ConnectEvt(i) ==
  /\ At(i, "absent", "rest")
  /\ total_connects < MaxTotal
  /\ total_connects' = total_connects + 1
  /\ Move(i, "checkedin")
  /\ Goto(i, "connect.connections")
  /\ UNCHANGED <<soft, setVars, total_checkouts, total_invalidated, total_disconnects, warned>>

\* Mutated: the identity is taken from the record, whose connection is not set yet.
ConnectAddConnections_NoneIdent(i) ==
  /\ pc[i] = "connect.connections"
  /\ connections' = connections \cup {IdNone}
  /\ Goto(i, "connect.checkedin")
  /\ UNCHANGED <<poolVars, checkedin, invalidated, detached, totalVars, warned>>

ConnectAddConnections(i) ==
  /\ pc[i] = "connect.connections"
  /\ connections' = connections \cup {i}
  /\ Goto(i, "connect.checkedin")
  /\ UNCHANGED <<poolVars, checkedin, invalidated, detached, totalVars, warned>>

\* Mutated: the connection is left to its first "checkin" to be listed.
ConnectAddCheckedin_Omitted(i) ==
  /\ pc[i] = "connect.checkedin"
  /\ Goto(i, "rest")
  /\ UNCHANGED <<poolVars, setVars, totalVars, warned>>

ConnectAddCheckedin(i) ==
  /\ pc[i] = "connect.checkedin"
  /\ checkedin' = checkedin \cup {i}
  /\ Goto(i, "rest")
  /\ UNCHANGED <<poolVars, connections, invalidated, detached, totalVars, warned>>

(***************************************************************************)
(* "checkout".  A record marked for refresh is closed instead (CloseEvt)   *)
(* and a fresh connection is opened.                                       *)
(***************************************************************************)
CheckoutEvt(i) ==
  /\ At(i, "checkedin", "rest")
  /\ i \notin soft
  /\ total_checkouts < MaxTotal
  /\ total_checkouts' = total_checkouts + 1
  /\ Move(i, "checkedout")
  /\ Goto(i, "checkout.checkedin")
  /\ UNCHANGED <<soft, setVars, total_invalidated, total_connects, total_disconnects, warned>>

\* set.remove() raises KeyError for an absent member; the pool answers an
\* exception of a checkout listener by invalidating the record: "invalidate"
\* counts, and the rest of that handler follows.
CheckoutRemoveCheckedin(i) ==
  LET present == i \in checkedin
  IN  /\ pc[i] = "checkout.checkedin"
      /\ checkedin' = checkedin \ {i}
      /\ warned' = warned \cup {w \in {"unlisted"} : ~present}
      /\ total_invalidated' = total_invalidated + (IF present THEN 0 ELSE 1)
      /\ Goto(i, IF present THEN "rest" ELSE "hard.invalidated")
      /\ UNCHANGED <<poolVars, connections, invalidated, detached,
                     total_checkouts, total_connects, total_disconnects>>

CheckinEvt(i) ==
  /\ At(i, "checkedout", "rest")
  /\ checkedin' = checkedin \cup {i}
  /\ Move(i, "checkedin")
  /\ UNCHANGED <<soft, pc, connections, invalidated, detached, totalVars, warned>>

(***************************************************************************)
(* "invalidate" and "soft_invalidate" share a handler.  After the first    *)
(* the pool closes the connection and checks its record in; after the      *)
(* second the connection stays in use and is marked for refresh.  A failed *)
(* ping invalidates a connection on its way out, before "checkout".        *)
(***************************************************************************)
InvalidateEvt(i) ==
  /\ total_invalidated < MaxTotal
  /\ total_invalidated' = total_invalidated + 1
  /\ \/ At(i, "checkedout", "rest") /\ Goto(i, "soft.invalidated")
     \/ (At(i, "checkedout", "rest") \/ At(i, "checkedin", "rest")) /\ Goto(i, "hard.invalidated")
  /\ UNCHANGED <<poolVars, setVars, total_checkouts, total_connects, total_disconnects, warned>>

\* Mutated: a soft invalidation is only counted.
InvalidateAddInvalidated_HardOnly(i) ==
  /\ invalidated' = invalidated \cup {j \in {i} : pc[j] = "hard.invalidated"}
  /\ \/ /\ pc[i] = "soft.invalidated"
        /\ soft' = soft \cup {i}
        /\ Goto(i, "rest")
     \/ /\ pc[i] = "hard.invalidated"
        /\ Goto(i, "close")
        /\ UNCHANGED soft
  /\ UNCHANGED <<pool, connections, checkedin, detached, totalVars, warned>>

InvalidateAddInvalidated(i) ==
  /\ invalidated' = invalidated \cup {i}
  /\ \/ /\ pc[i] = "soft.invalidated"
        /\ soft' = soft \cup {i}
        /\ Goto(i, "rest")
     \/ /\ pc[i] = "hard.invalidated"
        /\ Goto(i, "close")
        /\ UNCHANGED soft
  /\ UNCHANGED <<pool, connections, checkedin, detached, totalVars, warned>>

-----------------------------------------------------------------------------
(***************************************************************************)
(* "close": of a connection in the pool (recycled at a checkout, or the    *)
(* pool disposed of), or of the one just invalidated.                      *)
(***************************************************************************)
CloseEvt(i) ==
  /\ At(i, "checkedin", "rest") \/ pc[i] = "close"
  /\ invalidated' = invalidated \ {i}
  /\ Goto(i, "close.checkedin")
  /\ UNCHANGED <<poolVars, connections, checkedin, detached, totalVars, warned>>

CloseDiscardCheckedin(i) ==
  /\ pc[i] = "close.checkedin"
  /\ checkedin' = checkedin \ {i}
  /\ Goto(i, "close.connections")
  /\ UNCHANGED <<poolVars, connections, invalidated, detached, totalVars, warned>>

\* The body of the try block: a missing member skips the count and logs
\* _warn_missing_connection.
RemoveConnection(i, counting, skipping) ==
  LET present == i \in connections
  IN  /\ connections' = connections \ {i}
      /\ warned' = warned \cup {w \in {"missing"} : ~present}
      /\ Goto(i, IF present THEN counting ELSE skipping)

CloseRemoveConnections(i) ==
  /\ pc[i] = "close.connections"
  /\ RemoveConnection(i, "close.total", "close.detached")
  /\ UNCHANGED <<poolVars, checkedin, invalidated, detached, totalVars>>

CloseCount(i) ==
  /\ pc[i] = "close.total"
  /\ total_disconnects' = total_disconnects + 1
  /\ Goto(i, "close.detached")
  /\ UNCHANGED <<poolVars, setVars, total_checkouts, total_invalidated, total_connects, warned>>

\* The handler's last statements; the connection is gone when it returns.  The
\* pool then fires "checkin" with None for a record it invalidated, and for a
\* record whose reconnection failed after a recycle.
CloseDiscardDetached(i) ==
  /\ pc[i] = "close.detached"
  /\ warned' = warned \cup {w \in {"detached"} : i \in detached}
  /\ detached' = detached \ {i}
  /\ Move(i, "absent")
  /\ soft' = soft \ {i}
  /\ \/ Goto(i, "checkin.none")
     \/ pool[i] = "checkedin" /\ Goto(i, "rest")
  /\ UNCHANGED <<connections, checkedin, invalidated, totalVars>>

CheckinEvtNone(i) ==
  /\ pc[i] = "checkin.none"
  /\ checkedin' = checkedin \cup {IdNone}
  /\ Goto(i, "rest")
  /\ UNCHANGED <<poolVars, connections, invalidated, detached, totalVars, warned>>

-----------------------------------------------------------------------------
DetachEvt(i) ==
  /\ At(i, "checkedout", "rest")
  /\ detached' = detached \cup {i}
  /\ Move(i, "detached")
  /\ UNCHANGED <<soft, pc, connections, checkedin, invalidated, totalVars, warned>>

(***************************************************************************)
(* "close_detached".                                                       *)
(***************************************************************************)
CloseDetachedEvt(i) ==
  /\ At(i, "detached", "rest")
  /\ invalidated' = invalidated \ {i}
  /\ Goto(i, "closed.checkedin")
  /\ UNCHANGED <<poolVars, connections, checkedin, detached, totalVars, warned>>

CloseDetachedDiscardCheckedin(i) ==
  /\ pc[i] = "closed.checkedin"
  /\ checkedin' = checkedin \ {i}
  /\ Goto(i, "closed.detached")
  /\ UNCHANGED <<poolVars, connections, invalidated, detached, totalVars, warned>>

\* Mutated: the identity stays in "detached".
CloseDetachedDiscardDetached_Omitted(i) ==
  /\ pc[i] = "closed.detached"
  /\ Goto(i, "closed.connections")
  /\ UNCHANGED <<poolVars, setVars, totalVars, warned>>

CloseDetachedDiscardDetached(i) ==
  /\ pc[i] = "closed.detached"
  /\ detached' = detached \ {i}
  /\ Goto(i, "closed.connections")
  /\ UNCHANGED <<poolVars, connections, checkedin, invalidated, totalVars, warned>>

\* With a member missing the handler ends here.
CloseDetachedRemoveConnections(i) ==
  /\ pc[i] = "closed.connections"
  /\ RemoveConnection(i, "closed.total", "rest")
  /\ pool' = [pool EXCEPT ![i] = IF i \in connections THEN @ ELSE "absent"]
  /\ soft' = soft \ ({i} \ connections)
  /\ UNCHANGED <<checkedin, invalidated, detached, totalVars>>

\* Mutated: the close of a detached connection is not counted.
CloseDetachedCount_Omitted(i) ==
  /\ pc[i] = "closed.total"
  /\ Move(i, "absent")
  /\ soft' = soft \ {i}
  /\ Goto(i, "rest")
  /\ UNCHANGED <<setVars, totalVars, warned>>

CloseDetachedCount(i) ==
  /\ pc[i] = "closed.total"
  /\ total_disconnects' = total_disconnects + 1
  /\ Move(i, "absent")
  /\ soft' = soft \ {i}
  /\ Goto(i, "rest")
  /\ UNCHANGED <<setVars, total_checkouts, total_invalidated, total_connects, warned>>

(***************************************************************************)
(* No event: a pool is replaced without closing its connections (dispose   *)
(* with close=False, a pool collected with connections returned to it      *)
(* after dispose), or a detached connection is invalidated or dropped.     *)
(***************************************************************************)
Orphan(i) ==
  /\ Orphans
  /\ At(i, "checkedin", "rest") \/ At(i, "detached", "rest")
  /\ Move(i, "absent")
  /\ soft' = soft \ {i}
  /\ UNCHANGED <<pc, setVars, totalVars, warned>>

Step(i) ==
  \/ ConnectEvt(i) \/ ConnectAddConnections(i) \/ ConnectAddCheckedin(i)
  \/ CheckoutEvt(i) \/ CheckoutRemoveCheckedin(i)
  \/ CheckinEvt(i)
  \/ InvalidateEvt(i) \/ InvalidateAddInvalidated(i)
  \/ CloseEvt(i) \/ CloseDiscardCheckedin(i) \/ CloseRemoveConnections(i)
  \/ CloseCount(i) \/ CloseDiscardDetached(i) \/ CheckinEvtNone(i)
  \/ DetachEvt(i)
  \/ CloseDetachedEvt(i) \/ CloseDetachedDiscardCheckedin(i)
  \/ CloseDetachedDiscardDetached(i) \/ CloseDetachedRemoveConnections(i)
  \/ CloseDetachedCount(i)
  \/ Orphan(i)

Next == \E i \in Ident : Step(i)

Spec == Init /\ [][Next]_vars

-----------------------------------------------------------------------------
(***************************************************************************)
(* What each set holds of connection i at each statement of its handler,   *)
(* when no connection is lost without an event.  The four biconditionals   *)
(* hold in every state, not just between handlers, and are inductive       *)
(* together with HandlerFits, which says where the pool has a connection   *)
(* while each handler runs.                                                *)
(***************************************************************************)
Connecting == {"connect.connections", "connect.checkedin"}
Closing == {"close.checkedin", "close.connections", "close.total", "close.detached"}
ClosingDetached == {"closed.checkedin", "closed.detached", "closed.connections", "closed.total"}

HandlerFits(i) ==
  /\ pc[i] \in Connecting => pool[i] = "checkedin" /\ i \notin soft
  /\ pc[i] = "checkout.checkedin" => pool[i] = "checkedout" /\ i \notin soft
  /\ pc[i] = "soft.invalidated" => pool[i] = "checkedout"
  /\ pc[i] \in {"hard.invalidated", "close"} \cup Closing => pool[i] \in {"checkedin", "checkedout"}
  /\ pc[i] \in ClosingDetached => pool[i] = "detached"
  /\ pc[i] = "checkin.none" => pool[i] = "absent"
  /\ pool[i] = "absent" => pc[i] \in {"rest", "checkin.none"} /\ i \notin soft

ConnectionsExact(i) ==
  i \in connections <=>
    /\ pool[i] # "absent"
    /\ pc[i] \notin {"connect.connections", "close.total", "close.detached", "closed.total"}

CheckedinExact(i) ==
  i \in checkedin <=>
    \/ pc[i] = "checkout.checkedin"
    \/ pool[i] = "checkedin" /\ pc[i] \in {"rest", "hard.invalidated", "close", "close.checkedin"}

DetachedExact(i) ==
  i \in detached <=> pool[i] = "detached" /\ pc[i] \notin {"closed.connections", "closed.total"}

InvalidatedExact(i) ==
  i \in invalidated <=>
    \/ pc[i] = "close"
    \/ i \in soft /\ pc[i] \notin Closing \cup ClosingDetached

ExactOf(i) ==
  /\ HandlerFits(i)
  /\ ConnectionsExact(i) /\ CheckedinExact(i)
  /\ DetachedExact(i) /\ InvalidatedExact(i)

AccountingInv == \A i \in Ident : ExactOf(i)

(***************************************************************************)
(* Every connection between two handlers is in exactly the sets its place  *)
(* in the pool calls for, whatever the handlers of the other connections   *)
(* are in the middle of: collector.py 119-187 leave no trace of an earlier *)
(* life of an identity and forget none.                                    *)
(***************************************************************************)
Accounted(i) ==
  /\ i \in connections <=> pool[i] # "absent"
  /\ i \in checkedin <=> pool[i] = "checkedin"
  /\ i \in detached <=> pool[i] = "detached"
  /\ i \in invalidated <=> i \in soft

QuiescentExact == \A i \in Ident : pc[i] = "rest" => Accounted(i)

(***************************************************************************)
(* None of the branches the code treats as abnormal is ever taken: the     *)
(* checkout of an unlisted connection (an exception raised into the        *)
(* application), the close of an unknown one, the close of one still in    *)
(* "detached" (collector.py 129, 154-159, 186).                            *)
(***************************************************************************)
NoWarnings == warned = {}

(***************************************************************************)
(* The two cumulative totals agree with the set: every connect counted and *)
(* not yet matched by a counted disconnect is an identity in "connections" *)
(* or one whose handler is between the two statements (collector.py        *)
(* 122-123, 152-153, 184-185).                                             *)
(***************************************************************************)
Counted ==
  connections \cup
  {i \in Ident : pc[i] \in {"connect.connections", "close.total", "closed.total"}}

Balance == total_connects = total_disconnects + Cardinality(Counted)

(***************************************************************************)
(* With the handlers at rest, num_checkedin (collector.py 72-73) is the    *)
(* number of connections in the pool: what README.rst says of              *)
(* count-checkedin.                                                        *)
(***************************************************************************)
CheckedinAtRest ==
  (\A i \in Ident : pc[i] = "rest") =>
    Cardinality(checkedin) = Cardinality({i \in Ident : pool[i] = "checkedin"})

(***************************************************************************)
(* Whatever the pool loses without an event, and whichever identity comes  *)
(* back for another connection, a connection the pool has is never missing *)
(* from the sets it belongs to (collector.py 117-129, 171-173).            *)
(***************************************************************************)
NeverMissing ==
  \A i \in Ident : pc[i] = "rest" =>
    /\ pool[i] # "absent" => i \in connections
    /\ pool[i] = "checkedin" => i \in checkedin
    /\ pool[i] = "detached" => i \in detached
    /\ i \in soft => i \in invalidated

\* The half of ExactOf that survives the loss of a connection; inductive.
CoversOf(i) ==
  /\ HandlerFits(i)
  /\ pool[i] # "absent" /\ pc[i] \notin {"connect.connections", "close.total", "close.detached", "closed.total"}
       => i \in connections
  /\ pc[i] = "checkout.checkedin" => i \in checkedin
  /\ pool[i] = "checkedin" /\ pc[i] \in {"rest", "hard.invalidated", "close", "close.checkedin"}
       => i \in checkedin
  /\ pool[i] = "detached" /\ pc[i] \notin {"closed.connections", "closed.total"} => i \in detached
  /\ i \in soft /\ pc[i] \notin Closing \cup ClosingDetached => i \in invalidated

CoverInv == \A i \in Ident : CoversOf(i)

(***************************************************************************)
(* Lost connections never turn into an error: no checkout raises KeyError  *)
(* into the application and no close finds its connection unknown          *)
(* (collector.py 129, 151-155, 183-187).                                   *)
(***************************************************************************)
NoHandlerFails == warned \subseteq {"detached"}
=============================================================================
