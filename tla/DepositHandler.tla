--------------------------- MODULE DepositHandler ---------------------------
(***************************************************************************)
(* MakeDeposits of internal/server/deposit_handler.go: one goroutine per   *)
(* account funds the account from the key of the handler, waits for the    *)
(* receipt, deposits with the key of the account and waits again.  They    *)
(* share a nonce counter and report to a channel; the call returns at the  *)
(* first error, while the others keep running.  createTranche calls it     *)
(* under Server.lock, so calls follow one another, but the goroutines of a *)
(* call that failed may still be at work during the next ones.             *)
(*                                                                         *)
(* Definitions named ...Bug are faulty variants of the one that follows    *)
(* them: no specification uses them, they show that a property can fail.   *)
(***************************************************************************)
EXTENDS Integers, Sequences, FiniteSets

CONSTANTS Accounts,   \* all the accounts there are deposits for
          Calls,      \* bound: calls of MakeDeposits
          CallOf,     \* the call an account is part of
          MaxPolls,   \* waitForReceipt gives up once its count is above this
          MaxFailures \* bound: requests to the execution node that fail

ASSUME AccountsAssumption == IsFiniteSet(Accounts) /\ CallOf \in [Accounts -> 1..Calls]
ASSUME BoundsAssumption   == Calls \in Nat /\ MaxPolls \in Nat /\ MaxFailures \in Nat

VARIABLES nonce,    \* depositHandler.nonce, the last one handed out
          call,     \* the number of the last call
          result,   \* per call: what it returned
          received, \* reports the call at work has received without an error
          errCh,    \* per call: its channel
          pc, mine, polls, outcome, \* per account: its goroutine, its nonce, how
                                    \* often it slept, what it will report
          txpool, head, \* the execution node: funding transactions it holds, by nonce,
                        \* and the nonce it can mine next
          sent, deposited, reverted, \* deposits it holds, has made, has rejected
          failures  \* requests that failed

goroutines == <<pc, mine, polls, outcome>>
node       == <<txpool, head, sent, deposited, reverted>>
vars       == <<nonce, call, result, received, errCh, goroutines, node, failures>>

NoNonce == 0

AccountsOf(c) == {a \in Accounts : CallOf[a] = c}

\* Room for one report only.
CapacityBug(c) == 1

\* make(chan error, len(accounts))
Capacity(c) == Cardinality(AccountsOf(c))

\* The deposit contract was deployed with nonce 0.
Init ==
    /\ nonce = 0
    /\ call = 0
    /\ result = [c \in 1..Calls |-> "none"]
    /\ received = 0
    /\ errCh = [c \in 1..Calls |-> <<>>]
    /\ pc = [a \in Accounts |-> "idle"]
    /\ mine = [a \in Accounts |-> NoNonce]
    /\ polls = [a \in Accounts |-> 0]
    /\ outcome = [a \in Accounts |-> "nil"]
    /\ txpool = {}
    /\ head = 1
    /\ sent = {}
    /\ deposited = {}
    /\ reverted = {}
    /\ failures = 0

-----------------------------------------------------------------------------
(* The call. *)

Running == call > 0 /\ result[call] = "running"

\* Every account gets a goroutine.
MakeDeposits ==
    /\ ~Running
    /\ call < Calls
    /\ call' = call + 1
    /\ result' = [result EXCEPT ![call'] = "running"]
    /\ received' = 0
    /\ pc' = [a \in Accounts |-> IF CallOf[a] = call' THEN "fund" ELSE pc[a]]
    /\ UNCHANGED <<nonce, errCh, mine, polls, outcome, node, failures>>

\* Counts the reports without a look at them.
ReceiveBug ==
    /\ Running
    /\ received < Cardinality(AccountsOf(call))
    /\ errCh[call] # <<>>
    /\ errCh' = [errCh EXCEPT ![call] = Tail(@)]
    /\ received' = received + 1
    /\ UNCHANGED <<nonce, call, result, goroutines, node, failures>>

\* err := <-errCh; the first error is the answer.
Receive ==
    /\ Running
    /\ received < Cardinality(AccountsOf(call))
    /\ errCh[call] # <<>>
    /\ errCh' = [errCh EXCEPT ![call] = Tail(@)]
    /\ \/ /\ Head(errCh[call]) = "nil"
          /\ received' = received + 1
          /\ UNCHANGED result
       \/ /\ Head(errCh[call]) = "error"
          /\ result' = [result EXCEPT ![call] = "error"]
          /\ UNCHANGED received
    /\ UNCHANGED <<nonce, call, goroutines, node, failures>>

ReturnNil ==
    /\ Running
    /\ received = Cardinality(AccountsOf(call))
    /\ result' = [result EXCEPT ![call] = "nil"]
    /\ UNCHANGED <<nonce, call, received, errCh, goroutines, node, failures>>

-----------------------------------------------------------------------------
(* MakeDeposit, the goroutine of account a. *)

Goto(a, label) == pc' = [pc EXCEPT ![a] = label] /\ UNCHANGED outcome

\* return err
Finish(a, out) ==
    /\ pc' = [pc EXCEPT ![a] = "report"]
    /\ outcome' = [outcome EXCEPT ![a] = out]

\* A request to the node that fails ends the goroutine.
Fail(a) ==
    /\ failures < MaxFailures
    /\ failures' = failures + 1
    /\ Finish(a, "error")

\* Asks the node for the nonce, as many programs do.
FundBug(a) ==
    /\ pc[a] = "fund"
    /\ nonce' = head
    /\ mine' = [mine EXCEPT ![a] = nonce']
    /\ Goto(a, "send")
    /\ UNCHANGED <<call, result, received, errCh, polls, node, failures>>

\* getNextNonce, an atomic increment; the transaction is signed with it.
Fund(a) ==
    /\ pc[a] = "fund"
    /\ nonce' = nonce + 1
    /\ mine' = [mine EXCEPT ![a] = nonce']
    /\ Goto(a, "send")
    /\ UNCHANGED <<call, result, received, errCh, polls, node, failures>>

\* SendRawTransaction; one that fails may have reached the node.
Send(a) ==
    /\ pc[a] = "send"
    /\ \/ /\ txpool' = txpool \cup {mine[a]}
          /\ Goto(a, "receipt")
          /\ UNCHANGED failures
       \/ /\ txpool' \in {txpool, txpool \cup {mine[a]}}
          /\ Fail(a)
    /\ UNCHANGED <<nonce, call, result, received, errCh, mine, polls, head, sent, deposited, reverted>>

Mined(a) == mine[a] < head

\* Goes on without a receipt when it has waited for long enough.
PollBug(a) ==
    /\ pc[a] = "receipt"
    /\ \/ /\ Mined(a) \/ polls[a] > MaxPolls
          /\ Goto(a, "deposit")
          /\ UNCHANGED polls
       \/ /\ ~Mined(a) /\ polls[a] <= MaxPolls
          /\ polls' = [polls EXCEPT ![a] = @ + 1]
          /\ Goto(a, "receipt")
    /\ UNCHANGED <<nonce, call, result, received, errCh, mine, node, failures>>

\* Waits for as long as it takes.
PollForeverBug(a) ==
    /\ pc[a] = "receipt"
    /\ Mined(a)
    /\ Goto(a, "deposit")
    /\ UNCHANGED <<nonce, call, result, received, errCh, mine, polls, node, failures>>

\* Goes round once more than it should.
PollLateBug(a) ==
    /\ pc[a] = "receipt"
    /\ \/ /\ Mined(a)
          /\ Goto(a, "deposit")
          /\ UNCHANGED polls
       \/ /\ ~Mined(a) /\ polls[a] <= MaxPolls + 1
          /\ polls' = [polls EXCEPT ![a] = @ + 1]
          /\ Goto(a, "receipt")
    /\ UNCHANGED <<nonce, call, result, received, errCh, mine, node, failures>>

\* One round of waitForReceipt, whose count is polls: it may sleep for as long as the count is
\* not above MaxPolls, and then asks once more.
Poll(a) ==
    /\ pc[a] = "receipt"
    /\ \/ /\ Mined(a)
          /\ Goto(a, "deposit")
          /\ UNCHANGED <<polls, failures>>
       \/ /\ ~Mined(a) /\ polls[a] <= MaxPolls
          /\ polls' = [polls EXCEPT ![a] = @ + 1]
          /\ Goto(a, "receipt")
          /\ UNCHANGED failures
       \/ /\ ~Mined(a) /\ polls[a] > MaxPolls
          /\ Finish(a, "error")
          /\ UNCHANGED <<polls, failures>>
       \/ /\ Fail(a)
          /\ UNCHANGED polls
    /\ UNCHANGED <<nonce, call, result, received, errCh, mine, node>>

\* txn.Do(), signed with the account's own key; one that fails may have got through.
Deposit(a) ==
    /\ pc[a] = "deposit"
    /\ \/ /\ sent' = sent \cup {a}
          /\ Goto(a, "wait")
          /\ UNCHANGED failures
       \/ /\ sent' \in {sent, sent \cup {a}}
          /\ Fail(a)
    /\ UNCHANGED <<nonce, call, result, received, errCh, mine, polls, txpool, head, deposited, reverted>>

\* Takes any receipt for a deposit.
WaitBug(a) ==
    /\ pc[a] = "wait"
    /\ a \in deposited \cup reverted
    /\ Finish(a, "nil")
    /\ UNCHANGED <<nonce, call, result, received, errCh, mine, polls, node, failures>>

\* txn.Wait(), without a timeout; a deposit that was reverted has no log.
Wait(a) ==
    /\ pc[a] = "wait"
    /\ \/ a \in deposited /\ Finish(a, "nil") /\ UNCHANGED failures
       \/ a \in reverted /\ Finish(a, "error") /\ UNCHANGED failures
       \/ Fail(a)
    /\ UNCHANGED <<nonce, call, result, received, errCh, mine, polls, node>>

\* errCh <- err
Report(a) ==
    LET c == CallOf[a]
    IN  /\ pc[a] = "report"
        /\ Len(errCh[c]) < Capacity(c)
        /\ errCh' = [errCh EXCEPT ![c] = Append(@, outcome[a])]
        /\ Goto(a, "done")
        /\ UNCHANGED <<nonce, call, result, received, mine, polls, node, failures>>

-----------------------------------------------------------------------------
(* The execution node: it mines the transactions of a key in the order of their *)
(* nonces, and those of different keys in any order. *)

MineFund ==
    /\ head \in txpool
    /\ head' = head + 1
    /\ UNCHANGED <<nonce, call, result, received, errCh, goroutines, txpool, sent, deposited,
                   reverted, failures>>

MineDeposit(a) ==
    /\ a \in sent \ (deposited \cup reverted)
    /\ \/ /\ deposited' = deposited \cup {a}
          /\ UNCHANGED <<reverted, failures>>
       \/ /\ failures < MaxFailures
          /\ failures' = failures + 1
          /\ reverted' = reverted \cup {a}
          /\ UNCHANGED deposited
    /\ UNCHANGED <<nonce, call, result, received, errCh, goroutines, txpool, head, sent>>

Step(a) == Fund(a) \/ Send(a) \/ Poll(a) \/ Deposit(a) \/ Wait(a) \/ Report(a)

Caller == MakeDeposits \/ Receive \/ ReturnNil

\* Every call has returned and every goroutine has ended.
Terminated ==
    /\ ~Running /\ call = Calls
    /\ \A a \in Accounts : pc[a] = "done"
    /\ UNCHANGED vars

Next ==
    \/ Caller
    \/ \E a \in Accounts : Step(a) \/ MineDeposit(a)
    \/ MineFund
    \/ Terminated

\* Goroutines are scheduled, and the node mines what it can mine.
Fairness ==
    /\ WF_vars(Receive \/ ReturnNil)
    /\ WF_vars(MineFund)
    /\ \A a \in Accounts : WF_vars(Step(a)) /\ WF_vars(MineDeposit(a))

Spec == Init /\ [][Next]_vars

FairSpec == Spec /\ Fairness

-----------------------------------------------------------------------------
(* Properties. *)

Labels  == {"idle", "fund", "send", "receipt", "deposit", "wait", "report", "done"}
Reports == {"nil", "error"}

\* Every variable stays in its range; waitForReceipt sleeps MaxPolls + 1 times at most, so that
\* it asks MaxPolls + 2 times before it gives up (deposit_handler.go:94-110).
TypeOK ==
    /\ nonce \in Nat /\ head \in Nat \ {0}
    /\ call \in 0..Calls
    /\ result \in [1..Calls -> {"none", "running"} \cup Reports]
    /\ received \in Nat
    /\ errCh \in [1..Calls -> Seq(Reports)]
    /\ pc \in [Accounts -> Labels]
    /\ mine \in [Accounts -> Nat]
    /\ polls \in [Accounts -> 0..MaxPolls + 1]
    /\ outcome \in [Accounts -> Reports]
    /\ txpool \subseteq Nat
    /\ sent \subseteq Accounts /\ deposited \subseteq sent /\ reverted \subseteq sent
    /\ failures \in 0..MaxFailures

\* No two funding transactions, of one call or of several, carry the same nonce
\* (getNextNonce is shared by all the goroutines): the node would drop one of them.
NoncesUnique ==
    \A a, b \in Accounts : mine[a] = mine[b] /\ mine[a] # NoNonce => a = b

\* An account sends its deposit only once its funding has been mined: before, it
\* could not pay for it (MakeDeposit calls fund first).
FundedBeforeDeposit == \A a \in sent : mine[a] < head

\* When MakeDeposits returns nil, the deposit of every account of the call is on the
\* chain: createTranche registers the accounts as a tranche on the strength of that.
NilMeansAllDeposited ==
    \A c \in 1..Calls : result[c] = "nil" => AccountsOf(c) \subseteq deposited

Promise == INSTANCE DepositPromise

\* The calls and the chain are what DepositPromise says, which is all that createTranche
\* relies on (server.go:289): no deposit is made before its call or twice, though the
\* goroutines of a call that failed work on during later ones, and no answer is changed.
PromiseSpec == Promise!Spec

\* A report never blocks, not even when MakeDeposits has returned at an earlier error
\* and nobody receives any more (errCh is made with room for every account).
ReportNeverBlocks ==
    \A a \in Accounts : pc[a] = "report" => Len(errCh[CallOf[a]]) < Capacity(CallOf[a])

\* MakeDeposits returns, while createTranche holds Server.lock, and no goroutine is left
\* behind: each one ends, whatever its call has returned.
DepositsEnd ==
    /\ \A c \in 1..Calls : result[c] = "running" ~> result[c] \in Reports
    /\ \A a \in Accounts : pc[a] = "fund" ~> pc[a] = "done"

\* Expected to be violated. README.md:67 says of deposit create: "For each one, it sends
\* a deposit transaction to the deposit smart contract".  The funding that precedes the
\* deposit, once the node has accepted it, should thus be mined at some time.
FundingsAreMined == \A a \in Accounts : mine[a] \in txpool ~> Mined(a)
=============================================================================
