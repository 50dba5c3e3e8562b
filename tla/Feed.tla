---------------------------------- MODULE Feed ----------------------------------
(***************************************************************************)
(* What collectd's connmon plugin promises the listeners: each is sent     *)
(* messages that were accepted, in the order they were accepted in, none   *)
(* twice; which of them is left open here.                                 *)
(***************************************************************************)
EXTENDS Naturals, Sequences

CONSTANT Listener

VARIABLES
  accepted,     \* how many messages were accepted
  got           \* the numbers of those that each listener was sent

FeedInit ==
  /\ accepted = 0
  /\ got = [c \in Listener |-> <<>>]

Accept ==
  /\ accepted' = accepted + 1
  /\ UNCHANGED got

Pass ==
  \E n \in 1..accepted, to \in SUBSET Listener :
    /\ \A c \in to : \A i \in DOMAIN got[c] : got[c][i] < n
    /\ got' = [c \in Listener |-> IF c \in to THEN Append(got[c], n) ELSE got[c]]
    /\ UNCHANGED accepted

FeedSpec == FeedInit /\ [][Accept \/ Pass]_<<accepted, got>>
=============================================================================
