------------------------------- MODULE MCForward -------------------------------
(***************************************************************************)
(* Forward for TLC: both senders, and 30 seconds of timeout for a HELO     *)
(* every 5 seconds.                                                        *)
(***************************************************************************)
EXTENDS Forward

MCSenders == <<"listen", "monitor">>
=============================================================================
