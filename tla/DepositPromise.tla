--------------------------- MODULE DepositPromise ---------------------------
(***************************************************************************)
(* What createTranche takes MakeDeposits for.  Calls follow one another.   *)
(* A call that answers nil has made the deposits of all its accounts; an   *)
(* error says nothing of them: some may be made, others may still follow,  *)
(* even while a later call is at work.  No deposit is made that was not    *)
(* asked for, no one is made twice, and an answer is never taken back.     *)
(***************************************************************************)
EXTENDS Integers

CONSTANTS Accounts, \* all the accounts there are deposits for
          Calls,    \* how many calls there may be
          CallOf    \* the call an account is part of

VARIABLES result,    \* per call: what it returned
          deposited  \* the accounts whose deposit is on the chain

Answers == {"nil", "error"}

Init ==
    /\ result = [c \in 1..Calls |-> "none"]
    /\ deposited = {}

\* The next call, when all those before it have returned.
Begin(c) ==
    /\ result[c] = "none"
    /\ \A b \in 1..(c - 1) : result[b] \in Answers
    /\ result' = [result EXCEPT ![c] = "running"]
    /\ UNCHANGED deposited

\* The deposit of an account whose call has begun, and may be over.
Deposit(a) ==
    /\ a \notin deposited
    /\ result[CallOf[a]] # "none"
    /\ deposited' = deposited \cup {a}
    /\ UNCHANGED result

Return(c, answer) ==
    /\ result[c] = "running"
    /\ answer = "nil" => \A a \in Accounts : CallOf[a] = c => a \in deposited
    /\ result' = [result EXCEPT ![c] = answer]
    /\ UNCHANGED deposited

Next ==
    \/ \E c \in 1..Calls : Begin(c) \/ \E answer \in Answers : Return(c, answer)
    \/ \E a \in Accounts : Deposit(a)

Spec == Init /\ [][Next]_<<result, deposited>>
=============================================================================
