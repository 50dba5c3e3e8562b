--------------------------- MODULE CollectorProofs ---------------------------
(***************************************************************************)
(* Theorems about Collector and Snapshot, for every set of identities and  *)
(* every bound.                                                            *)
(***************************************************************************)
EXTENDS Snapshot, FiniteSetTheorems, TLAPS

(***************************************************************************)
(* Type correctness.                                                       *)
(***************************************************************************)
LEMMA StepTypeOK ==
  ASSUME TypeOK, NEW i \in Ident, Step(i)
  PROVE  TypeOK'
<1> USE DEF TypeOK, Place, Statement, Abnormal, poolVars, setVars, totalVars, At, Goto, Move
<1>1. CASE ConnectEvt(i) BY <1>1 DEF ConnectEvt
<1>2. CASE ConnectAddConnections(i) BY <1>2 DEF ConnectAddConnections
<1>3. CASE ConnectAddCheckedin(i) BY <1>3 DEF ConnectAddCheckedin
<1>4. CASE CheckoutEvt(i) BY <1>4 DEF CheckoutEvt
<1>5. CASE CheckoutRemoveCheckedin(i)
  <2>1. total_invalidated' \in Nat BY <1>5 DEF CheckoutRemoveCheckedin
  <2>2. warned' \subseteq Abnormal BY <1>5 DEF CheckoutRemoveCheckedin
  <2>3. pc' \in [Ident -> Statement] BY <1>5 DEF CheckoutRemoveCheckedin
  <2> QED BY <2>1, <2>2, <2>3, <1>5 DEF CheckoutRemoveCheckedin
<1>6. CASE CheckinEvt(i) BY <1>6 DEF CheckinEvt
<1>7. CASE InvalidateEvt(i) BY <1>7 DEF InvalidateEvt
<1>8. CASE InvalidateAddInvalidated(i) BY <1>8 DEF InvalidateAddInvalidated
<1>9. CASE CloseEvt(i) BY <1>9 DEF CloseEvt
<1>10. CASE CloseDiscardCheckedin(i) BY <1>10 DEF CloseDiscardCheckedin
<1>11. CASE CloseRemoveConnections(i)
  BY <1>11 DEF CloseRemoveConnections, RemoveConnection
<1>12. CASE CloseCount(i) BY <1>12 DEF CloseCount
<1>13. CASE CloseDiscardDetached(i) BY <1>13 DEF CloseDiscardDetached
<1>14. CASE CheckinEvtNone(i) BY <1>14 DEF CheckinEvtNone
<1>15. CASE DetachEvt(i) BY <1>15 DEF DetachEvt
<1>16. CASE CloseDetachedEvt(i) BY <1>16 DEF CloseDetachedEvt
<1>17. CASE CloseDetachedDiscardCheckedin(i) BY <1>17 DEF CloseDetachedDiscardCheckedin
<1>18. CASE CloseDetachedDiscardDetached(i) BY <1>18 DEF CloseDetachedDiscardDetached
<1>19. CASE CloseDetachedRemoveConnections(i)
  BY <1>19 DEF CloseDetachedRemoveConnections, RemoveConnection
<1>20. CASE CloseDetachedCount(i) BY <1>20 DEF CloseDetachedCount
<1>21. CASE Orphan(i) BY <1>21 DEF Orphan
<1> QED
  BY <1>1, <1>2, <1>3, <1>4, <1>5, <1>6, <1>7, <1>8, <1>9, <1>10, <1>11, <1>12,
     <1>13, <1>14, <1>15, <1>16, <1>17, <1>18, <1>19, <1>20, <1>21 DEF Step

\* The sets stay sets of identities and the totals natural numbers, whatever
\* order the handlers of the connections run in (collector.py 117-187).
THEOREM TypeCorrect == Spec => []TypeOK
<1>1. Init => TypeOK
  BY DEF Init, TypeOK, Place, Statement, Abnormal
<1>2. TypeOK /\ [Next]_vars => TypeOK'
  <2> SUFFICES ASSUME TypeOK, [Next]_vars PROVE TypeOK'
    OBVIOUS
  <2>1. CASE Next
    BY <2>1, StepTypeOK DEF Next
  <2>2. CASE UNCHANGED vars
    BY <2>2 DEF TypeOK, vars, poolVars, setVars, totalVars
  <2> QED BY <2>1, <2>2
<1> QED BY <1>1, <1>2, PTL DEF Spec

-----------------------------------------------------------------------------
(***************************************************************************)
(* A handler of connection i touches the accounting of no other.           *)
(***************************************************************************)
LEMMA StepFrame ==
  ASSUME TypeOK, NEW i \in Ident, Step(i), NEW j \in Ident, j # i
  PROVE  /\ pool'[j] = pool[j] /\ pc'[j] = pc[j]
         /\ j \in soft' <=> j \in soft
         /\ j \in connections' <=> j \in connections
         /\ j \in checkedin' <=> j \in checkedin
         /\ j \in detached' <=> j \in detached
         /\ j \in invalidated' <=> j \in invalidated
<1> USE IdentAssumption DEF TypeOK, poolVars, setVars, totalVars, Goto, Move
<1>1. CASE ConnectEvt(i) BY <1>1 DEF ConnectEvt
<1>2. CASE ConnectAddConnections(i) BY <1>2 DEF ConnectAddConnections
<1>3. CASE ConnectAddCheckedin(i) BY <1>3 DEF ConnectAddCheckedin
<1>4. CASE CheckoutEvt(i) BY <1>4 DEF CheckoutEvt
<1>5. CASE CheckoutRemoveCheckedin(i) BY <1>5 DEF CheckoutRemoveCheckedin
<1>6. CASE CheckinEvt(i) BY <1>6 DEF CheckinEvt
<1>7. CASE InvalidateEvt(i) BY <1>7 DEF InvalidateEvt
<1>8. CASE InvalidateAddInvalidated(i) BY <1>8 DEF InvalidateAddInvalidated
<1>9. CASE CloseEvt(i) BY <1>9 DEF CloseEvt
<1>10. CASE CloseDiscardCheckedin(i) BY <1>10 DEF CloseDiscardCheckedin
<1>11. CASE CloseRemoveConnections(i)
  BY <1>11 DEF CloseRemoveConnections, RemoveConnection
<1>12. CASE CloseCount(i) BY <1>12 DEF CloseCount
<1>13. CASE CloseDiscardDetached(i) BY <1>13 DEF CloseDiscardDetached
<1>14. CASE CheckinEvtNone(i) BY <1>14 DEF CheckinEvtNone
<1>15. CASE DetachEvt(i) BY <1>15 DEF DetachEvt
<1>16. CASE CloseDetachedEvt(i) BY <1>16 DEF CloseDetachedEvt
<1>17. CASE CloseDetachedDiscardCheckedin(i) BY <1>17 DEF CloseDetachedDiscardCheckedin
<1>18. CASE CloseDetachedDiscardDetached(i) BY <1>18 DEF CloseDetachedDiscardDetached
<1>19. CASE CloseDetachedRemoveConnections(i)
  BY <1>19 DEF CloseDetachedRemoveConnections, RemoveConnection
<1>20. CASE CloseDetachedCount(i) BY <1>20 DEF CloseDetachedCount
<1>21. CASE Orphan(i) BY <1>21 DEF Orphan
<1> QED
  BY <1>1, <1>2, <1>3, <1>4, <1>5, <1>6, <1>7, <1>8, <1>9, <1>10, <1>11, <1>12,
     <1>13, <1>14, <1>15, <1>16, <1>17, <1>18, <1>19, <1>20, <1>21 DEF Step

\* Exactness speaks of one connection's share of the state only.
LEMMA FrameExact ==
  ASSUME TypeOK, NEW i \in Ident, Step(i), NEW j \in Ident, j # i, ExactOf(j)
  PROVE  ExactOf(j)'
BY StepFrame DEF ExactOf, HandlerFits, ConnectionsExact, CheckedinExact, DetachedExact,
  InvalidatedExact, Connecting, Closing, ClosingDetached

\* Each statement leaves its own connection as the invariant says.
LEMMA StepExact ==
  ASSUME TypeOK, NEW i \in Ident, Step(i), ~Orphans, ExactOf(i)
  PROVE  ExactOf(i)'
<1> USE IdentAssumption DEF TypeOK, poolVars, setVars, totalVars, At, Goto, Move, ExactOf,
  HandlerFits, ConnectionsExact, CheckedinExact, DetachedExact, InvalidatedExact,
  Connecting, Closing, ClosingDetached
<1>1. CASE ConnectEvt(i) BY <1>1 DEF ConnectEvt
<1>2. CASE ConnectAddConnections(i) BY <1>2 DEF ConnectAddConnections
<1>3. CASE ConnectAddCheckedin(i) BY <1>3 DEF ConnectAddCheckedin
<1>4. CASE CheckoutEvt(i) BY <1>4 DEF CheckoutEvt
<1>5. CASE CheckoutRemoveCheckedin(i) BY <1>5 DEF CheckoutRemoveCheckedin
<1>6. CASE CheckinEvt(i) BY <1>6 DEF CheckinEvt
<1>7. CASE InvalidateEvt(i) BY <1>7 DEF InvalidateEvt
<1>8. CASE InvalidateAddInvalidated(i) BY <1>8 DEF InvalidateAddInvalidated
<1>9. CASE CloseEvt(i) BY <1>9 DEF CloseEvt
<1>10. CASE CloseDiscardCheckedin(i) BY <1>10 DEF CloseDiscardCheckedin
<1>11. CASE CloseRemoveConnections(i)
  BY <1>11 DEF CloseRemoveConnections, RemoveConnection
<1>12. CASE CloseCount(i) BY <1>12 DEF CloseCount
<1>13. CASE CloseDiscardDetached(i) BY <1>13 DEF CloseDiscardDetached
<1>14. CASE CheckinEvtNone(i) BY <1>14 DEF CheckinEvtNone
<1>15. CASE DetachEvt(i) BY <1>15 DEF DetachEvt
<1>16. CASE CloseDetachedEvt(i) BY <1>16 DEF CloseDetachedEvt
<1>17. CASE CloseDetachedDiscardCheckedin(i) BY <1>17 DEF CloseDetachedDiscardCheckedin
<1>18. CASE CloseDetachedDiscardDetached(i) BY <1>18 DEF CloseDetachedDiscardDetached
<1>19. CASE CloseDetachedRemoveConnections(i)
  BY <1>19 DEF CloseDetachedRemoveConnections, RemoveConnection
<1>20. CASE CloseDetachedCount(i) BY <1>20 DEF CloseDetachedCount
<1>21. CASE Orphan(i) BY <1>21 DEF Orphan
<1> QED
  BY <1>1, <1>2, <1>3, <1>4, <1>5, <1>6, <1>7, <1>8, <1>9, <1>10, <1>11, <1>12,
     <1>13, <1>14, <1>15, <1>16, <1>17, <1>18, <1>19, <1>20, <1>21 DEF Step

\* At every statement of the handlers the four sets are exact (collector.py 119-187).
THEOREM AccountingInvariant ==
  ASSUME ~Orphans
  PROVE  Spec => []AccountingInv
<1>1. Init => AccountingInv
  BY DEF Init, AccountingInv, ExactOf, HandlerFits, ConnectionsExact, CheckedinExact,
     DetachedExact, InvalidatedExact, Connecting, Closing, ClosingDetached
<1>2. TypeOK /\ AccountingInv /\ [Next]_vars => AccountingInv'
  <2> SUFFICES ASSUME TypeOK, AccountingInv, [Next]_vars, NEW j \in Ident
               PROVE  ExactOf(j)'
    BY DEF AccountingInv
  <2>1. CASE Next
    <3>1. PICK i \in Ident : Step(i)
      BY <2>1 DEF Next
    <3>2. ExactOf(i) /\ ExactOf(j)
      BY DEF AccountingInv
    <3>3. CASE i = j
      BY <3>1, <3>2, <3>3, StepExact
    <3>4. CASE i # j
      BY <3>1, <3>2, <3>4, FrameExact
    <3> QED BY <3>3, <3>4
  <2>2. CASE UNCHANGED vars
    BY <2>2 DEF AccountingInv, ExactOf, HandlerFits, ConnectionsExact, CheckedinExact,
       DetachedExact, InvalidatedExact, vars, poolVars, setVars
  <2> QED BY <2>1, <2>2
<1> QED BY <1>1, <1>2, TypeCorrect, PTL DEF Spec

\* The sets hold of every connection between two handlers what its place in the
\* pool calls for (collector.py 117-187).
THEOREM QuiescentExactHolds ==
  ASSUME ~Orphans
  PROVE  Spec => []QuiescentExact
<1>1. AccountingInv => QuiescentExact
  BY DEF AccountingInv, ExactOf, HandlerFits, ConnectionsExact, CheckedinExact,
     DetachedExact, InvalidatedExact, QuiescentExact, Accounted, Closing, ClosingDetached
<1> QED BY <1>1, AccountingInvariant, PTL

\* No handler ever takes one of its abnormal branches: no checkout raises, no
\* close warns (collector.py 129, 154-159, 186-187).
THEOREM NoWarningsHolds ==
  ASSUME ~Orphans
  PROVE  Spec => []NoWarnings
<1>1. Init => NoWarnings
  BY DEF Init, NoWarnings
<1>2. AccountingInv /\ NoWarnings /\ [Next]_vars => NoWarnings'
  <2> SUFFICES ASSUME AccountingInv, warned = {}, [Next]_vars
               PROVE  warned' = {}
    BY DEF NoWarnings
  <2>1. CASE Next
    <3>1. PICK i \in Ident : Step(i)
      BY <2>1 DEF Next
    <3>2. ExactOf(i)
      BY DEF AccountingInv
    <3>3. CASE CheckoutRemoveCheckedin(i)
      BY <3>2, <3>3 DEF CheckoutRemoveCheckedin, ExactOf, CheckedinExact
    <3>4. CASE CloseRemoveConnections(i) \/ CloseDetachedRemoveConnections(i)
      BY <3>2, <3>4 DEF CloseRemoveConnections, CloseDetachedRemoveConnections,
         RemoveConnection, ExactOf, HandlerFits, ConnectionsExact, Closing, ClosingDetached
    <3>5. CASE CloseDiscardDetached(i)
      BY <3>2, <3>5 DEF CloseDiscardDetached, ExactOf, HandlerFits, DetachedExact, Closing
    <3>6. CASE UNCHANGED warned
      BY <3>6
    <3> QED
      BY <3>1, <3>3, <3>4, <3>5, <3>6 DEF Step, ConnectEvt, ConnectAddConnections,
         ConnectAddCheckedin, CheckoutEvt, CheckinEvt, InvalidateEvt,
         InvalidateAddInvalidated, CloseEvt, CloseDiscardCheckedin, CloseCount,
         CheckinEvtNone, DetachEvt, CloseDetachedEvt, CloseDetachedDiscardCheckedin,
         CloseDetachedDiscardDetached, CloseDetachedCount, Orphan
  <2>2. CASE UNCHANGED vars
    BY <2>2 DEF vars
  <2> QED BY <2>1, <2>2
<1> QED BY <1>1, <1>2, AccountingInvariant, PTL DEF Spec

-----------------------------------------------------------------------------
(***************************************************************************)
(* The totals.  Only three statements change the set Counted, each with    *)
(* the total that answers for it.                                          *)
(***************************************************************************)
LEMMA StepCounted ==
  ASSUME TypeOK, NEW i \in Ident, Step(i), ~Orphans, ExactOf(i)
  PROVE  \/ /\ Counted' = Counted \cup {i} /\ i \notin Counted
            /\ total_connects' = total_connects + 1
            /\ total_disconnects' = total_disconnects
         \/ /\ Counted' = Counted \ {i} /\ i \in Counted
            /\ total_connects' = total_connects
            /\ total_disconnects' = total_disconnects + 1
         \/ UNCHANGED <<Counted, total_connects, total_disconnects>>
<1> USE DEF TypeOK, poolVars, setVars, totalVars, At, Goto, Move, Counted
<1>1. CASE ConnectEvt(i)
  <2>1. i \notin connections
    BY <1>1 DEF ConnectEvt, ExactOf, ConnectionsExact
  <2>2. i \notin Counted
    BY <1>1, <2>1 DEF ConnectEvt
  <2>3. Counted' = Counted \cup {i}
    BY <1>1 DEF ConnectEvt
  <2> QED BY <1>1, <2>2, <2>3 DEF ConnectEvt
<1>2. CASE ConnectAddConnections(i)
  <2>1. Counted' = Counted
    BY <1>2 DEF ConnectAddConnections
  <2> QED BY <1>2, <2>1 DEF ConnectAddConnections
<1>3. CASE CloseRemoveConnections(i) \/ CloseDetachedRemoveConnections(i)
  <2>1. i \in connections
    BY <1>3 DEF CloseRemoveConnections, CloseDetachedRemoveConnections, ExactOf, HandlerFits,
       ConnectionsExact, Closing, ClosingDetached
  <2>2. Counted' = Counted
    BY <1>3, <2>1 DEF CloseRemoveConnections, CloseDetachedRemoveConnections, RemoveConnection
  <2> QED BY <1>3, <2>2 DEF CloseRemoveConnections, CloseDetachedRemoveConnections
<1>4. CASE CloseCount(i) \/ CloseDetachedCount(i)
  <2>1. i \notin connections
    BY <1>4 DEF CloseCount, CloseDetachedCount, ExactOf, ConnectionsExact
  <2>2. i \in Counted
    BY <1>4 DEF CloseCount, CloseDetachedCount
  <2>3. Counted' = Counted \ {i}
    BY <1>4, <2>1 DEF CloseCount, CloseDetachedCount
  <2> QED BY <1>4, <2>2, <2>3 DEF CloseCount, CloseDetachedCount
<1>5. CASE /\ UNCHANGED <<connections, total_connects, total_disconnects>>
           /\ \E s \in Statement \ {"connect.connections", "close.total", "closed.total"} :
                pc' = [pc EXCEPT ![i] = s]
           /\ pc[i] \notin {"connect.connections", "close.total", "closed.total"}
  <2>1. Counted' = Counted
    BY <1>5
  <2> QED BY <1>5, <2>1
<1>6. CASE UNCHANGED <<connections, pc, total_connects, total_disconnects>>
  <2>1. Counted' = Counted
    BY <1>6
  <2> QED BY <1>6, <2>1
<1>7. CASE ConnectAddCheckedin(i) BY <1>7, <1>5 DEF ConnectAddCheckedin, Statement
<1>8. CASE CheckoutEvt(i) BY <1>8, <1>5 DEF CheckoutEvt, Statement
<1>9. CASE CheckoutRemoveCheckedin(i) BY <1>9, <1>5 DEF CheckoutRemoveCheckedin, Statement
<1>10. CASE CheckinEvt(i) BY <1>10, <1>6 DEF CheckinEvt
<1>11. CASE InvalidateEvt(i) BY <1>11, <1>5 DEF InvalidateEvt, Statement
<1>12. CASE InvalidateAddInvalidated(i) BY <1>12, <1>5 DEF InvalidateAddInvalidated, Statement
<1>13. CASE CloseEvt(i) BY <1>13, <1>5 DEF CloseEvt, Statement
<1>14. CASE CloseDiscardCheckedin(i) BY <1>14, <1>5 DEF CloseDiscardCheckedin, Statement
<1>15. CASE CloseDiscardDetached(i) BY <1>15, <1>5 DEF CloseDiscardDetached, Statement
<1>16. CASE CheckinEvtNone(i) BY <1>16, <1>5 DEF CheckinEvtNone, Statement
<1>17. CASE DetachEvt(i) BY <1>17, <1>6 DEF DetachEvt
<1>18. CASE CloseDetachedEvt(i) BY <1>18, <1>5 DEF CloseDetachedEvt, Statement
<1>19. CASE CloseDetachedDiscardCheckedin(i)
  BY <1>19, <1>5 DEF CloseDetachedDiscardCheckedin, Statement
<1>20. CASE CloseDetachedDiscardDetached(i)
  BY <1>20, <1>5 DEF CloseDetachedDiscardDetached, Statement
<1>21. CASE Orphan(i) BY <1>21 DEF Orphan
<1> QED
  BY <1>1, <1>2, <1>3, <1>4, <1>7, <1>8, <1>9, <1>10, <1>11, <1>12, <1>13, <1>14,
     <1>15, <1>16, <1>17, <1>18, <1>19, <1>20, <1>21 DEF Step

\* The cumulative totals and the set never drift apart: connects exceed
\* disconnects by exactly the connections counted (collector.py 122, 153, 185).
THEOREM BalanceHolds ==
  ASSUME ~Orphans
  PROVE  Spec => []Balance
<1>1. Init => Balance
  <2> SUFFICES ASSUME Init PROVE Balance
    OBVIOUS
  <2>1. Counted = {}
    BY DEF Init, Counted
  <2> QED BY <2>1, FS_EmptySet DEF Init, Balance
<1>2. TypeOK /\ AccountingInv /\ Balance /\ [Next]_vars => Balance'
  <2> SUFFICES ASSUME TypeOK, AccountingInv, Balance, [Next]_vars
               PROVE  Balance'
    OBVIOUS
  <2>1. IsFiniteSet(Counted) /\ Cardinality(Counted) \in Nat
    <3>1. Counted \subseteq Ident
      BY DEF Counted, TypeOK
    <3> QED BY <3>1, IdentAssumption, FS_Subset, FS_CardinalityType
  <2>2. total_connects \in Nat /\ total_disconnects \in Nat
    BY DEF TypeOK
  <2>3. CASE Next
    <3>1. PICK i \in Ident : Step(i)
      BY <2>3 DEF Next
    <3>2. ExactOf(i)
      BY DEF AccountingInv
    <3>3. CASE /\ Counted' = Counted \cup {i} /\ i \notin Counted
               /\ total_connects' = total_connects + 1
               /\ total_disconnects' = total_disconnects
      <4>1. Cardinality(Counted') = Cardinality(Counted) + 1
        BY <2>1, <3>3, FS_AddElement
      <4> QED BY <2>1, <2>2, <3>3, <4>1 DEF Balance
    <3>4. CASE /\ Counted' = Counted \ {i} /\ i \in Counted
               /\ total_connects' = total_connects
               /\ total_disconnects' = total_disconnects + 1
      <4>1. Cardinality(Counted') = Cardinality(Counted) - 1
        BY <2>1, <3>4, FS_RemoveElement
      <4> QED BY <2>1, <2>2, <3>4, <4>1 DEF Balance
    <3>5. CASE UNCHANGED <<Counted, total_connects, total_disconnects>>
      BY <3>5 DEF Balance
    <3> QED BY <3>1, <3>2, <3>3, <3>4, <3>5, StepCounted
  <2>4. CASE UNCHANGED vars
    BY <2>4 DEF Balance, Counted, vars, setVars, totalVars
  <2> QED BY <2>3, <2>4
<1> QED BY <1>1, <1>2, TypeCorrect, AccountingInvariant, PTL DEF Spec

-----------------------------------------------------------------------------
(***************************************************************************)
(* With connections lost and identities reused, one half of the invariant  *)
(* is left, and it is enough for what an application would notice.         *)
(***************************************************************************)
LEMMA StepCovers ==
  ASSUME TypeOK, NEW i \in Ident, Step(i), CoversOf(i)
  PROVE  CoversOf(i)'
<1> USE IdentAssumption DEF TypeOK, poolVars, setVars, totalVars, At, Goto, Move, CoversOf,
  HandlerFits, Connecting, Closing, ClosingDetached
<1>1. CASE ConnectEvt(i) BY <1>1 DEF ConnectEvt
<1>2. CASE ConnectAddConnections(i) BY <1>2 DEF ConnectAddConnections
<1>3. CASE ConnectAddCheckedin(i) BY <1>3 DEF ConnectAddCheckedin
<1>4. CASE CheckoutEvt(i) BY <1>4 DEF CheckoutEvt
<1>5. CASE CheckoutRemoveCheckedin(i) BY <1>5 DEF CheckoutRemoveCheckedin
<1>6. CASE CheckinEvt(i) BY <1>6 DEF CheckinEvt
<1>7. CASE InvalidateEvt(i) BY <1>7 DEF InvalidateEvt
<1>8. CASE InvalidateAddInvalidated(i) BY <1>8 DEF InvalidateAddInvalidated
<1>9. CASE CloseEvt(i) BY <1>9 DEF CloseEvt
<1>10. CASE CloseDiscardCheckedin(i) BY <1>10 DEF CloseDiscardCheckedin
<1>11. CASE CloseRemoveConnections(i)
  BY <1>11 DEF CloseRemoveConnections, RemoveConnection
<1>12. CASE CloseCount(i) BY <1>12 DEF CloseCount
<1>13. CASE CloseDiscardDetached(i) BY <1>13 DEF CloseDiscardDetached
<1>14. CASE CheckinEvtNone(i) BY <1>14 DEF CheckinEvtNone
<1>15. CASE DetachEvt(i) BY <1>15 DEF DetachEvt
<1>16. CASE CloseDetachedEvt(i) BY <1>16 DEF CloseDetachedEvt
<1>17. CASE CloseDetachedDiscardCheckedin(i) BY <1>17 DEF CloseDetachedDiscardCheckedin
<1>18. CASE CloseDetachedDiscardDetached(i) BY <1>18 DEF CloseDetachedDiscardDetached
<1>19. CASE CloseDetachedRemoveConnections(i)
  BY <1>19 DEF CloseDetachedRemoveConnections, RemoveConnection
<1>20. CASE CloseDetachedCount(i) BY <1>20 DEF CloseDetachedCount
<1>21. CASE Orphan(i) BY <1>21 DEF Orphan
<1> QED
  BY <1>1, <1>2, <1>3, <1>4, <1>5, <1>6, <1>7, <1>8, <1>9, <1>10, <1>11, <1>12,
     <1>13, <1>14, <1>15, <1>16, <1>17, <1>18, <1>19, <1>20, <1>21 DEF Step

\* So does what survives the loss of a connection.
LEMMA FrameCovers ==
  ASSUME TypeOK, NEW i \in Ident, Step(i), NEW j \in Ident, j # i, CoversOf(j)
  PROVE  CoversOf(j)'
BY StepFrame DEF CoversOf, HandlerFits, Connecting, Closing, ClosingDetached

\* With or without lost connections, the sets hold what the handlers rely on
\* (collector.py 119-187).
THEOREM CoverInvariant == Spec => []CoverInv
<1>1. Init => CoverInv
  BY DEF Init, CoverInv, CoversOf, HandlerFits, Connecting, Closing, ClosingDetached
<1>2. TypeOK /\ CoverInv /\ [Next]_vars => CoverInv'
  <2> SUFFICES ASSUME TypeOK, CoverInv, [Next]_vars, NEW j \in Ident
               PROVE  CoversOf(j)'
    BY DEF CoverInv
  <2>1. CASE Next
    <3>1. PICK i \in Ident : Step(i)
      BY <2>1 DEF Next
    <3>2. CoversOf(i) /\ CoversOf(j)
      BY DEF CoverInv
    <3>3. CASE i = j
      BY <3>1, <3>2, <3>3, StepCovers
    <3>4. CASE i # j
      BY <3>1, <3>2, <3>4, FrameCovers
    <3> QED BY <3>3, <3>4
  <2>2. CASE UNCHANGED vars
    BY <2>2 DEF CoverInv, CoversOf, HandlerFits, vars, poolVars, setVars
  <2> QED BY <2>1, <2>2
<1> QED BY <1>1, <1>2, TypeCorrect, PTL DEF Spec

\* A connection the pool has is in every set it belongs to, even when the pool
\* loses connections silently and identities come back (collector.py 117-173).
THEOREM NeverMissingHolds == Spec => []NeverMissing
<1>1. CoverInv => NeverMissing
  BY DEF CoverInv, CoversOf, NeverMissing, Closing, ClosingDetached
<1> QED BY <1>1, CoverInvariant, PTL

\* No checkout raises KeyError and no close finds its connection unknown,
\* whatever the pool loses (collector.py 129, 151-155, 183-187).
THEOREM NoHandlerFailsHolds == Spec => []NoHandlerFails
<1>1. Init => NoHandlerFails
  BY DEF Init, NoHandlerFails
<1>2. CoverInv /\ NoHandlerFails /\ [Next]_vars => NoHandlerFails'
  <2> SUFFICES ASSUME CoverInv, warned \subseteq {"detached"}, [Next]_vars
               PROVE  warned' \subseteq {"detached"}
    BY DEF NoHandlerFails
  <2>1. CASE Next
    <3>1. PICK i \in Ident : Step(i)
      BY <2>1 DEF Next
    <3>2. CoversOf(i)
      BY DEF CoverInv
    <3>3. CASE CheckoutRemoveCheckedin(i)
      BY <3>2, <3>3 DEF CheckoutRemoveCheckedin, CoversOf
    <3>4. CASE CloseRemoveConnections(i) \/ CloseDetachedRemoveConnections(i)
      <4>1. pool[i] # "absent" /\ pc[i] \in {"close.connections", "closed.connections"}
        BY <3>2, <3>4 DEF CloseRemoveConnections, CloseDetachedRemoveConnections,
           CoversOf, HandlerFits, Closing, ClosingDetached
      <4>2. i \in connections
        BY <3>2, <4>1 DEF CoversOf
      <4> QED
        BY <3>4, <4>2 DEF CloseRemoveConnections, CloseDetachedRemoveConnections,
           RemoveConnection
    <3>5. CASE CloseDiscardDetached(i)
      BY <3>5 DEF CloseDiscardDetached
    <3>6. CASE UNCHANGED warned
      BY <3>6
    <3> QED
      BY <3>1, <3>3, <3>4, <3>5, <3>6 DEF Step, ConnectEvt, ConnectAddConnections,
         ConnectAddCheckedin, CheckoutEvt, CheckinEvt, InvalidateEvt,
         InvalidateAddInvalidated, CloseEvt, CloseDiscardCheckedin, CloseCount,
         CheckinEvtNone, DetachEvt, CloseDetachedEvt, CloseDetachedDiscardCheckedin,
         CloseDetachedDiscardDetached, CloseDetachedCount, Orphan
  <2>2. CASE UNCHANGED vars
    BY <2>2 DEF vars
  <2> QED BY <2>1, <2>2
<1> QED BY <1>1, <1>2, CoverInvariant, PTL DEF Spec

-----------------------------------------------------------------------------
(* The worker's unlocked reading. *)

\* Every step of the composed specification is a step of Collector, or leaves
\* its variables alone: what is proved of Collector holds here.
THEOREM SnapshotRefinesCollector == SnapshotSpec => Spec
<1>1. SnapshotInit => Init
  BY DEF SnapshotInit
<1>2. [SnapshotNext]_snapshotVars => [Next]_vars
  <2> SUFFICES ASSUME [SnapshotNext]_snapshotVars PROVE [Next]_vars
    OBVIOUS
  <2>1. CASE Read
    BY <2>1 DEF Read, ReadConnections, ReadInvalidated, ReadCheckedin, ReadNumCheckedin,
       ReadNumDetached, ReadNumConnections, SendPool, ReadTotals, ReadTotal, SendTotals
  <2>2. CASE \E i \in Ident : Handle(i)
    BY <2>2 DEF Handle, Next
  <2>3. CASE UNCHANGED snapshotVars
    BY <2>3 DEF snapshotVars
  <2> QED BY <2>1, <2>2, <2>3 DEF SnapshotNext
<1> QED BY <1>1, <1>2, PTL DEF SnapshotSpec, Spec

\* Each read keeps the reader's part of the type.
LEMMA ReaderTypeOK ==
  ASSUME TypeOK, SnapshotTypeOK, [SnapshotNext]_snapshotVars
  PROVE  /\ rpc' \in Reading
         /\ checkedout' \subseteq Ident
         /\ touched' \subseteq Ident
         /\ read' \in [Fields -> SUBSET (Ident \cup {IdNone})]
         /\ totals' \in [Totals -> Nat]
<1> USE DEF SnapshotTypeOK, TypeOK, Goes, Reading, vars, setVars, totalVars
<1>1. CASE ReadConnections BY <1>1 DEF ReadConnections, Busy
<1>2. CASE ReadInvalidated BY <1>2 DEF ReadInvalidated
<1>3. CASE ReadCheckedin BY <1>3 DEF ReadCheckedin
<1>4. CASE ReadNumCheckedin BY <1>4 DEF ReadNumCheckedin
<1>5. CASE ReadNumDetached BY <1>5 DEF ReadNumDetached
<1>6. CASE ReadNumConnections BY <1>6 DEF ReadNumConnections
<1>7. CASE SendPool BY <1>7 DEF SendPool
<1>8. CASE ReadTotals BY <1>8 DEF ReadTotals, ReadTotal
<1>9. CASE SendTotals BY <1>9 DEF SendTotals
<1>10. CASE \E i \in Ident : Handle(i) BY <1>10 DEF Handle
<1>11. CASE UNCHANGED snapshotVars BY <1>11 DEF snapshotVars, readerVars
<1> QED
  BY <1>1, <1>2, <1>3, <1>4, <1>5, <1>6, <1>7, <1>8, <1>9, <1>10, <1>11
  DEF SnapshotNext, Read

\* The messages are built of identities and natural numbers.
THEOREM SnapshotTypeCorrect == SnapshotSpec => []SnapshotTypeOK
<1>1. SnapshotInit /\ TypeOK => SnapshotTypeOK
  BY DEF SnapshotInit, SnapshotTypeOK, Reading, Fields, Totals
<1>2. TypeOK /\ TypeOK' /\ SnapshotTypeOK /\ [SnapshotNext]_snapshotVars => SnapshotTypeOK'
  BY ReaderTypeOK DEF SnapshotTypeOK
<1> QED BY <1>1, <1>2, SnapshotRefinesCollector, TypeCorrect, PTL DEF SnapshotSpec

-----------------------------------------------------------------------------
\* What a step of another connection's handler leaves as it was.
LEMMA HandleKeepsFaith ==
  ASSUME TypeOK, SnapshotTypeOK, SnapshotInv, NEW i \in Ident, Handle(i)
  PROVE  SnapshotInv'
<1>1. CASE rpc \in PoolReading
  <2> SUFFICES ASSUME NEW j \in Ident \ touched'
               PROVE  /\ j \in Ident \ touched /\ j # i
                      /\ pool'[j] = pool[j] /\ pc'[j] = pc[j]
                      /\ j \in soft' <=> j \in soft
                      /\ UNCHANGED <<rpc, checkedout, read>>
    BY DEF SnapshotInv, SnapshotFaithful
  <2>1. j \in Ident \ touched /\ j # i
    BY <1>1 DEF Handle
  <2> QED BY <2>1, StepFrame DEF Handle
<1>2. CASE rpc \notin PoolReading
  BY <1>2 DEF Handle, SnapshotInv, SnapshotFaithful, PoolReading
<1> QED BY <1>1, <1>2

\* Each read extends what is known of the connections that stand still.
LEMMA ReadKeepsFaith ==
  ASSUME TypeOK, SnapshotTypeOK, AccountingInv, SnapshotInv, Read
  PROVE  SnapshotInv'
<1> USE DEF SnapshotInv, SnapshotFaithful, PoolReading, Goes, vars, poolVars, setVars
<1>1. ASSUME NEW j \in Ident, pc[j] = "rest"
      PROVE  Accounted(j)
  BY <1>1 DEF AccountingInv, ExactOf, HandlerFits, ConnectionsExact, CheckedinExact,
     DetachedExact, InvalidatedExact, Accounted, Closing, ClosingDetached
<1>2. \A j \in Ident : pool[j] \in Place
  BY DEF TypeOK
<1> USE DEF Accounted, Place
<1>3. CASE ReadConnections BY <1>1, <1>2, <1>3 DEF ReadConnections, Busy
<1>4. CASE ReadInvalidated BY <1>1, <1>2, <1>4 DEF ReadInvalidated
<1>5. CASE ReadCheckedin BY <1>1, <1>2, <1>5 DEF ReadCheckedin
<1>6. CASE ReadNumCheckedin BY <1>1, <1>6 DEF ReadNumCheckedin, SnapshotTypeOK, Fields
<1>7. CASE ReadNumDetached BY <1>1, <1>7 DEF ReadNumDetached, SnapshotTypeOK, Fields
<1>8. CASE ReadNumConnections BY <1>1, <1>8 DEF ReadNumConnections, SnapshotTypeOK, Fields
<1>9. CASE SendPool BY <1>9 DEF SendPool
<1>10. CASE ReadTotals BY <1>10 DEF ReadTotals, ReadTotal
<1>11. CASE SendTotals BY <1>11 DEF SendTotals
<1> QED
  BY <1>3, <1>4, <1>5, <1>6, <1>7, <1>8, <1>9, <1>10, <1>11 DEF Read

\* The inductive invariant of a reading: what each of its steps has found so far of
\* a connection nobody worked on since it began (sender.py 100-112, collector.py 62-85).
THEOREM SnapshotInvariant ==
  ASSUME ~Orphans
  PROVE  SnapshotSpec => []SnapshotInv
<1>1. SnapshotInit => SnapshotInv
  BY DEF SnapshotInit, SnapshotInv, SnapshotFaithful, PoolReading
<1>2. TypeOK /\ SnapshotTypeOK /\ AccountingInv /\ SnapshotInv /\ [SnapshotNext]_snapshotVars
        => SnapshotInv'
  <2> SUFFICES ASSUME TypeOK, SnapshotTypeOK, AccountingInv, SnapshotInv,
                      [SnapshotNext]_snapshotVars
               PROVE  SnapshotInv'
    OBVIOUS
  <2>1. CASE UNCHANGED snapshotVars
    BY <2>1 DEF snapshotVars, readerVars, vars, poolVars, SnapshotInv, SnapshotFaithful
  <2> QED BY <2>1, HandleKeepsFaith, ReadKeepsFaith DEF SnapshotNext
<1> QED
  BY <1>1, <1>2, SnapshotRefinesCollector, TypeCorrect, SnapshotTypeCorrect,
     AccountingInvariant, PTL DEF SnapshotSpec

\* What the pool message counts of a connection nobody worked on during the
\* reading is where that connection is (sender.py 100-112, collector.py 62-85).
THEOREM SnapshotFaithfulHolds ==
  ASSUME ~Orphans
  PROVE  SnapshotSpec => []SnapshotFaithful
<1>1. SnapshotInv => SnapshotFaithful
  BY DEF SnapshotInv
<1> QED
  BY <1>1, SnapshotInvariant, PTL
=============================================================================
