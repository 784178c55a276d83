-------------------------- MODULE MCDepositHandler --------------------------
(* Constants of DepositHandler for TLC. *)
EXTENDS DepositHandler, TLC

CONSTANTS a1, a2, a3

\* Two accounts race in the first call; the third one comes in a call of its own,
\* while goroutines of the first may still be at work.
TwoThenOne == a1 :> 1 @@ a2 :> 1 @@ a3 :> 2
=============================================================================
