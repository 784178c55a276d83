------------------------ MODULE DepositHandlerProofs ------------------------
(***************************************************************************)
(* Theorems about DepositHandler, for any number of accounts and calls and *)
(* any mix of failures and timeouts.                                       *)
(***************************************************************************)
EXTENDS DepositHandler, FiniteSetTheorems, TLAPS

-----------------------------------------------------------------------------
(* Type correctness. *)

LEMMA ChannelTyped ==
    ASSUME NEW ch \in Seq(Reports), ch # <<>>
    PROVE  /\ Head(ch) \in Reports
           /\ Tail(ch) \in Seq(Reports)
           /\ Len(Tail(ch)) = Len(ch) - 1
           /\ \A i \in 1..Len(ch) - 1 : Tail(ch)[i] = ch[i + 1]
  OBVIOUS

LEMMA GotoTyped ==
    ASSUME TypeOK, NEW a \in Accounts, NEW l \in Labels, Goto(a, l)
    PROVE  pc' \in [Accounts -> Labels] /\ outcome' \in [Accounts -> Reports]
  BY DEF TypeOK, Goto

LEMMA FinishTyped ==
    ASSUME TypeOK, NEW a \in Accounts, NEW out \in Reports, Finish(a, out)
    PROVE  pc' \in [Accounts -> Labels] /\ outcome' \in [Accounts -> Reports]
  BY DEF TypeOK, Finish, Labels

LEMMA FailTyped ==
    ASSUME TypeOK, NEW a \in Accounts, Fail(a)
    PROVE  /\ pc' \in [Accounts -> Labels] /\ outcome' \in [Accounts -> Reports]
           /\ failures' \in 0..MaxFailures
  <1>1. failures' \in 0..MaxFailures
    BY BoundsAssumption DEF TypeOK, Fail
  <1> QED
    BY <1>1, FinishTyped DEF Fail, Reports

LEMMA InitTyped == Init => TypeOK
  BY AccountsAssumption, BoundsAssumption
  DEF Init, TypeOK, NoNonce, Labels, Reports

LEMMA CallerTyped == TypeOK /\ Caller => TypeOK'
  <1> SUFFICES ASSUME TypeOK, Caller PROVE TypeOK'
    OBVIOUS
  <1> USE AccountsAssumption, BoundsAssumption
  <1>1. CASE MakeDeposits
    <2>1. call' \in 0..Calls /\ call' \in 1..Calls
      BY <1>1 DEF MakeDeposits, TypeOK
    <2>2. result' \in [1..Calls -> {"none", "running"} \cup Reports]
      BY <1>1, <2>1 DEF MakeDeposits, TypeOK
    <2>3. pc' \in [Accounts -> Labels]
      BY <1>1 DEF MakeDeposits, TypeOK, Labels
    <2> QED
      BY <1>1, <2>1, <2>2, <2>3 DEF MakeDeposits, TypeOK, node
  <1>2. CASE Receive
    <2>1. call \in 1..Calls /\ errCh[call] \in Seq(Reports) /\ errCh[call] # <<>>
      BY <1>2 DEF Receive, Running, TypeOK
    <2>2. errCh' \in [1..Calls -> Seq(Reports)]
      BY <1>2, <2>1, ChannelTyped DEF Receive, TypeOK
    <2>3. /\ result' \in [1..Calls -> {"none", "running"} \cup Reports]
          /\ received' \in Nat
      BY <1>2, <2>1 DEF Receive, TypeOK, Reports
    <2> QED
      BY <1>2, <2>2, <2>3 DEF Receive, TypeOK, goroutines, node
  <1>3. CASE ReturnNil
    <2>1. result' \in [1..Calls -> {"none", "running"} \cup Reports]
      BY <1>3 DEF ReturnNil, Running, TypeOK, Reports
    <2> QED
      BY <1>3, <2>1 DEF ReturnNil, TypeOK, goroutines, node
  <1> QED
    BY <1>1, <1>2, <1>3 DEF Caller

LEMMA StepTyped ==
    ASSUME TypeOK, NEW a \in Accounts, Step(a)
    PROVE  TypeOK'
  <1> USE AccountsAssumption, BoundsAssumption
  <1>0. {"send", "receipt", "deposit", "wait", "done"} \subseteq Labels
        /\ {"nil", "error"} \subseteq Reports
    BY DEF Labels, Reports
  <1>1. CASE Fund(a)
    <2>1. /\ nonce' \in Nat /\ mine' \in [Accounts -> Nat]
          /\ pc' \in [Accounts -> Labels] /\ outcome' \in [Accounts -> Reports]
      BY <1>0, <1>1, GotoTyped DEF Fund, TypeOK
    <2> QED
      BY <1>1, <2>1 DEF Fund, TypeOK, node
  <1>2. CASE Send(a)
    <2>0. mine[a] \in Nat /\ txpool \subseteq Nat
      BY DEF TypeOK
    <2>1. txpool' \subseteq Nat
      <3>1. txpool' \in {txpool, txpool \cup {mine[a]}}
        BY <1>2 DEF Send
      <3> QED
        BY <2>0, <3>1
    <2>2. /\ pc' \in [Accounts -> Labels] /\ outcome' \in [Accounts -> Reports]
          /\ failures' \in 0..MaxFailures
      BY <1>0, <1>2, GotoTyped, FailTyped DEF Send, TypeOK
    <2> QED
      BY <1>2, <2>1, <2>2 DEF Send, TypeOK
  <1>3. CASE Poll(a)
    <2>1. polls' \in [Accounts -> 0..MaxPolls + 1]
      <3>1. polls \in [Accounts -> 0..MaxPolls + 1] /\ polls[a] \in 0..MaxPolls + 1
        BY DEF TypeOK
      <3>2. CASE UNCHANGED polls
        BY <3>1, <3>2
      <3>3. CASE polls[a] <= MaxPolls /\ polls' = [polls EXCEPT ![a] = @ + 1]
        <4>1. polls[a] + 1 \in 0..MaxPolls + 1
          BY <3>1, <3>3
        <4> QED
          BY <3>1, <3>3, <4>1
      <3> QED
        BY <1>3, <3>2, <3>3 DEF Poll
    <2>2. /\ pc' \in [Accounts -> Labels] /\ outcome' \in [Accounts -> Reports]
          /\ failures' \in 0..MaxFailures
      BY <1>0, <1>3, GotoTyped, FinishTyped, FailTyped DEF Poll, TypeOK
    <2> QED
      BY <1>3, <2>1, <2>2 DEF Poll, TypeOK, node
  <1>4. CASE Deposit(a)
    <2>1. sent' \subseteq Accounts /\ sent \subseteq sent'
      BY <1>4 DEF Deposit, TypeOK
    <2>2. /\ pc' \in [Accounts -> Labels] /\ outcome' \in [Accounts -> Reports]
          /\ failures' \in 0..MaxFailures
      BY <1>0, <1>4, GotoTyped, FailTyped DEF Deposit, TypeOK
    <2> QED
      BY <1>4, <2>1, <2>2 DEF Deposit, TypeOK
  <1>5. CASE Wait(a)
    <2>1. /\ pc' \in [Accounts -> Labels] /\ outcome' \in [Accounts -> Reports]
          /\ failures' \in 0..MaxFailures
      BY <1>0, <1>5, FinishTyped, FailTyped DEF Wait, TypeOK
    <2> QED
      BY <1>5, <2>1 DEF Wait, TypeOK, node
  <1>6. CASE Report(a)
    <2>1. outcome[a] \in Reports /\ CallOf[a] \in 1..Calls
      BY DEF TypeOK
    <2>2. errCh' \in [1..Calls -> Seq(Reports)]
      BY <1>6, <2>1 DEF Report, TypeOK
    <2>3. pc' \in [Accounts -> Labels] /\ outcome' \in [Accounts -> Reports]
      BY <1>0, <1>6, GotoTyped DEF Report
    <2> QED
      BY <1>6, <2>2, <2>3 DEF Report, TypeOK, node
  <1> QED
    BY <1>1, <1>2, <1>3, <1>4, <1>5, <1>6 DEF Step

LEMMA NodeTyped ==
    ASSUME TypeOK, MineFund \/ \E a \in Accounts : MineDeposit(a)
    PROVE  TypeOK'
  <1>1. CASE MineFund
    BY <1>1 DEF MineFund, TypeOK, goroutines
  <1>2. CASE \E a \in Accounts : MineDeposit(a)
    BY <1>2, BoundsAssumption DEF MineDeposit, TypeOK, goroutines
  <1> QED
    BY <1>1, <1>2

LEMMA NextTyped == TypeOK /\ [Next]_vars => TypeOK'
  <1>1. ASSUME TypeOK, UNCHANGED vars PROVE TypeOK'
    BY <1>1 DEF TypeOK, vars, goroutines, node
  <1> QED
    BY <1>1, CallerTyped, StepTyped, NodeTyped DEF Next, Terminated

\* DepositHandler keeps its variables in their ranges; in particular no goroutine sleeps
\* more than MaxPolls + 1 times over a receipt.
THEOREM TypeCorrect == Spec => []TypeOK
  BY InitTyped, NextTyped, PTL DEF Spec

-----------------------------------------------------------------------------
(* Nonces. *)

\* Every nonce in use was handed out by the counter.
NonceInv == NoncesUnique /\ \A a \in Accounts : mine[a] <= nonce

LEMMA NextNonce == TypeOK /\ NonceInv /\ [Next]_vars => NonceInv'
  <1> SUFFICES ASSUME TypeOK, NonceInv, [Next]_vars PROVE NonceInv'
    OBVIOUS
  <1>1. CASE \E a \in Accounts : Fund(a)
    BY <1>1 DEF Fund, TypeOK, NonceInv, NoncesUnique, NoNonce
  <1>2. CASE UNCHANGED <<nonce, mine>>
    BY <1>2 DEF NonceInv, NoncesUnique
  <1> QED
    BY <1>1, <1>2 DEF Next, Caller, MakeDeposits, Receive, ReturnNil, Step, Send, Poll, Deposit,
       Wait, Report, MineFund, MineDeposit, Terminated, goroutines, node, vars

-----------------------------------------------------------------------------
(* The order of a goroutine's requests. *)

\* The accounts of calls that have not been made are idle; past its receipt a goroutine
\* has its funding mined; what it has sent and reported follows from where it is.
OrderInv ==
    \A a \in Accounts :
        /\ CallOf[a] > call => pc[a] = "idle"
        /\ pc[a] \in {"deposit", "wait"} => Mined(a)
        /\ a \in sent => pc[a] \in {"wait", "report", "done"} /\ Mined(a)
        /\ pc[a] \in {"report", "done"} /\ outcome[a] = "nil" => a \in deposited

\* OrderInv for one account, in terms of the variables it depends on.
LEMMA NextOrderOfOthers ==
    ASSUME TypeOK, OrderInv, NEW a \in Accounts, NEW b \in Accounts, a # b,
           Step(a)
    PROVE  /\ pc'[b] = pc[b] /\ outcome'[b] = outcome[b] /\ mine'[b] = mine[b]
           /\ b \in sent' <=> b \in sent
           /\ UNCHANGED <<call, head, deposited>>
  <1>1. pc'[b] = pc[b] /\ outcome'[b] = outcome[b]
    BY DEF Step, Fund, Send, Poll, Deposit, Wait, Report, Goto, Fail, Finish, TypeOK
  <1>2. mine'[b] = mine[b] /\ (b \in sent' <=> b \in sent)
    BY DEF Step, Fund, Send, Poll, Deposit, Wait, Report, TypeOK, node
  <1> QED
    BY <1>1, <1>2 DEF Step, Fund, Send, Poll, Deposit, Wait, Report, node

LEMMA NextOrderOfItself ==
    ASSUME TypeOK, OrderInv, NEW a \in Accounts, Step(a)
    PROVE  /\ CallOf[a] <= call
           /\ pc'[a] # "idle"
           /\ pc'[a] \in {"deposit", "wait"} => mine'[a] < head'
           /\ a \in sent' => pc'[a] \in {"wait", "report", "done"} /\ mine'[a] < head'
           /\ pc'[a] \in {"report", "done"} /\ outcome'[a] = "nil" => a \in deposited'
  <1>0. /\ call \in Nat /\ CallOf[a] \in Nat /\ (CallOf[a] > call => pc[a] = "idle")
        /\ pc[a] \in {"deposit", "wait"} => mine[a] < head
        /\ a \in sent => pc[a] \in {"wait", "report", "done"} /\ mine[a] < head
        /\ pc[a] \in {"report", "done"} /\ outcome[a] = "nil" => a \in deposited
        /\ pc \in [Accounts -> Labels] /\ outcome \in [Accounts -> Reports]
    BY AccountsAssumption DEF OrderInv, TypeOK, Mined
  <1>1. CASE Fund(a)
    BY <1>0, <1>1 DEF Fund, Goto, node
  <1>2. CASE Send(a)
    BY <1>0, <1>2 DEF Send, Goto, Fail, Finish
  <1>3. CASE Poll(a)
    BY <1>0, <1>3 DEF Poll, Goto, Fail, Finish, Mined, node
  <1>4. CASE Deposit(a)
    BY <1>0, <1>4 DEF Deposit, Goto, Fail, Finish
  <1>5. CASE Wait(a)
    BY <1>0, <1>5 DEF Wait, Fail, Finish, node
  <1>6. CASE Report(a)
    BY <1>0, <1>6 DEF Report, Goto, node
  <1> QED
    BY <1>1, <1>2, <1>3, <1>4, <1>5, <1>6 DEF Step

LEMMA NextOrder == TypeOK /\ OrderInv /\ [Next]_vars => OrderInv'
  <1> SUFFICES ASSUME TypeOK, OrderInv, [Next]_vars PROVE OrderInv'
    OBVIOUS
  <1>1. ASSUME NEW a \in Accounts, Step(a) PROVE OrderInv'
    <2> SUFFICES ASSUME NEW b \in Accounts
                 PROVE  /\ CallOf[b] > call' => pc'[b] = "idle"
                        /\ pc'[b] \in {"deposit", "wait"} => mine'[b] < head'
                        /\ b \in sent' => pc'[b] \in {"wait", "report", "done"}
                                             /\ mine'[b] < head'
                        /\ pc'[b] \in {"report", "done"} /\ outcome'[b] = "nil"
                               => b \in deposited'
      BY DEF OrderInv, Mined
    <2>1. UNCHANGED call
      BY <1>1 DEF Step, Fund, Send, Poll, Deposit, Wait, Report
    <2>2. CASE a = b
      BY <1>1, <2>1, <2>2, NextOrderOfItself, AccountsAssumption DEF TypeOK
    <2>3. CASE a # b
      BY <1>1, <2>3, NextOrderOfOthers DEF OrderInv, Mined
    <2> QED
      BY <2>2, <2>3
  <1>2. CASE MakeDeposits
    BY <1>2, AccountsAssumption, BoundsAssumption DEF MakeDeposits, OrderInv, TypeOK, Mined, node
  <1>3. CASE MineFund
    BY <1>3 DEF MineFund, OrderInv, TypeOK, Mined, goroutines
  <1>4. CASE \E a \in Accounts : MineDeposit(a)
    BY <1>4 DEF MineDeposit, OrderInv, Mined, goroutines
  <1>5. CASE UNCHANGED <<call, goroutines, node>>
    BY <1>5 DEF OrderInv, Mined, goroutines, node
  <1> QED
    BY <1>1, <1>2, <1>3, <1>4, <1>5 DEF Next, Caller, Receive, ReturnNil, Terminated, vars

-----------------------------------------------------------------------------
(* Reports. *)

\* The accounts of call c whose goroutine has reported, by the program counters p.
DoneBy(p, c) == {a \in AccountsOf(c) : p[a] = "done"}

\* A call cannot receive more than was reported.
CountInv ==
    \A c \in 1..Calls :
        /\ Len(errCh[c]) <= Cardinality(DoneBy(pc, c))
        /\ c = call /\ result[c] = "running"
               => received + Len(errCh[c]) = Cardinality(DoneBy(pc, c))

\* The call that is running has not received any error: one that was reported is
\* still in the channel.
ErrorInv ==
    \A a \in Accounts :
        /\ CallOf[a] = call /\ result[call] = "running"
        /\ pc[a] = "done" /\ outcome[a] = "error"
        => \E i \in 1..Len(errCh[call]) : errCh[call][i] = "error"

\* Calls that have not been made have no result.
FutureInv == \A c \in 1..Calls : c > call => result[c] = "none"

IInv == TypeOK /\ NonceInv /\ OrderInv /\ CountInv /\ ErrorInv /\ FutureInv
             /\ NilMeansAllDeposited

LEMMA DoneFinite ==
    ASSUME NEW p, NEW c
    PROVE  /\ IsFiniteSet(AccountsOf(c)) /\ Cardinality(AccountsOf(c)) \in Nat
           /\ IsFiniteSet(DoneBy(p, c)) /\ Cardinality(DoneBy(p, c)) \in Nat
           /\ Cardinality(DoneBy(p, c)) <= Cardinality(AccountsOf(c))
           /\ Cardinality(DoneBy(p, c)) = Cardinality(AccountsOf(c))
                  => DoneBy(p, c) = AccountsOf(c)
  <1>1. AccountsOf(c) \subseteq Accounts /\ DoneBy(p, c) \subseteq AccountsOf(c)
    BY DEF AccountsOf, DoneBy
  <1>2. IsFiniteSet(AccountsOf(c))
    BY <1>1, AccountsAssumption, FS_Subset
  <1>3. IsFiniteSet(DoneBy(p, c)) /\ Cardinality(DoneBy(p, c)) <= Cardinality(AccountsOf(c))
        /\ (Cardinality(DoneBy(p, c)) = Cardinality(AccountsOf(c))
                => DoneBy(p, c) = AccountsOf(c))
    BY <1>1, <1>2, FS_Subset
  <1> QED
    BY <1>2, <1>3, FS_CardinalityType

LEMMA InitIInv == Init => IInv
  <1> SUFFICES ASSUME Init PROVE IInv
    OBVIOUS
  <1>1. TypeOK
    BY InitTyped
  <1>2. NonceInv /\ OrderInv /\ ErrorInv /\ FutureInv /\ NilMeansAllDeposited
    BY AccountsAssumption, BoundsAssumption
    DEF Init, NonceInv, NoncesUnique, NoNonce, OrderInv, ErrorInv, FutureInv,
        NilMeansAllDeposited, Mined
  <1>3. CountInv
    <2>1. \A c \in 1..Calls : Len(errCh[c]) = 0 /\ Cardinality(DoneBy(pc, c)) \in Nat
      BY DoneFinite DEF Init
    <2>2. \A c \in 1..Calls : result[c] # "running"
      BY DEF Init
    <2> QED
      BY <2>1, <2>2 DEF CountInv
  <1> QED
    BY <1>1, <1>2, <1>3 DEF IInv

\* The steps of a goroutine other than its report.
Quiet(a) == Fund(a) \/ Send(a) \/ Poll(a) \/ Deposit(a) \/ Wait(a)

LEMMA QuietKeepsReports ==
    ASSUME TypeOK, NEW a \in Accounts, Quiet(a)
    PROVE  /\ UNCHANGED <<call, result, received, errCh, deposited>>
           /\ pc[a] # "done" /\ pc'[a] # "done"
           /\ \A b \in Accounts : b # a => pc'[b] = pc[b] /\ outcome'[b] = outcome[b]
  <1>1. /\ pc[a] # "done" /\ pc'[a] # "done"
        /\ \A b \in Accounts : b # a => pc'[b] = pc[b] /\ outcome'[b] = outcome[b]
    BY DEF Quiet, Fund, Send, Poll, Deposit, Wait, Goto, Fail, Finish, TypeOK
  <1> QED
    BY <1>1 DEF Quiet, Fund, Send, Poll, Deposit, Wait, node

LEMMA QuietIInv ==
    ASSUME IInv, NEW a \in Accounts, Quiet(a)
    PROVE  CountInv' /\ ErrorInv' /\ FutureInv' /\ NilMeansAllDeposited'
  <1>1. /\ UNCHANGED <<call, result, received, errCh, deposited>>
        /\ \A b \in Accounts : pc'[b] = "done" <=> pc[b] = "done"
        /\ \A b \in Accounts : pc'[b] = "done" => outcome'[b] = outcome[b]
    BY QuietKeepsReports DEF IInv
  <1>2. \A c \in 1..Calls : DoneBy(pc', c) = DoneBy(pc, c)
    BY <1>1 DEF DoneBy, AccountsOf
  <1>3. CountInv'
    BY <1>1, <1>2 DEF IInv, CountInv
  <1>4. ErrorInv'
    BY <1>1 DEF IInv, ErrorInv
  <1> QED
    BY <1>1, <1>3, <1>4 DEF IInv, FutureInv, NilMeansAllDeposited

LEMMA ReportIInv ==
    ASSUME IInv, NEW a \in Accounts, Report(a)
    PROVE  CountInv' /\ ErrorInv' /\ FutureInv' /\ NilMeansAllDeposited'
  <1> DEFINE c == CallOf[a]
  <1>1. c \in 1..Calls /\ errCh[c] \in Seq(Reports) /\ outcome[a] \in Reports
    BY AccountsAssumption DEF IInv, TypeOK
  <1>2. /\ UNCHANGED <<call, result, received, outcome, deposited>>
        /\ pc[a] = "report" /\ pc' = [pc EXCEPT ![a] = "done"]
        /\ errCh' = [errCh EXCEPT ![c] = Append(errCh[c], outcome[a])]
    BY <1>1 DEF Report, Goto, node, IInv, TypeOK
  <1>3. /\ errCh'[c] = Append(errCh[c], outcome[a])
        /\ Len(errCh'[c]) = Len(errCh[c]) + 1
        /\ \A i \in 1..Len(errCh[c]) : errCh'[c][i] = errCh[c][i]
        /\ errCh'[c][Len(errCh[c]) + 1] = outcome[a]
        /\ \A d \in 1..Calls : d # c => errCh'[d] = errCh[d]
    BY <1>1, <1>2 DEF IInv, TypeOK
  <1>4. Cardinality(DoneBy(pc', c)) = Cardinality(DoneBy(pc, c)) + 1
    <2>1. DoneBy(pc', c) = DoneBy(pc, c) \cup {a} /\ a \notin DoneBy(pc, c)
      BY <1>2 DEF DoneBy, AccountsOf, IInv, TypeOK
    <2> QED
      BY <2>1, DoneFinite, FS_AddElement
  <1>5. \A d \in 1..Calls : d # c => DoneBy(pc', d) = DoneBy(pc, d)
    BY <1>2 DEF DoneBy, AccountsOf, IInv, TypeOK
  <1>6. CountInv'
    <2>1. ASSUME NEW d \in 1..Calls
          PROVE  /\ Len(errCh'[d]) <= Cardinality(DoneBy(pc', d))
                 /\ d = call' /\ result'[d] = "running"
                        => received' + Len(errCh'[d]) = Cardinality(DoneBy(pc', d))
      <3>1. CASE d = c
        <4>1. /\ Len(errCh[c]) <= Cardinality(DoneBy(pc, c))
              /\ c = call /\ result[c] = "running"
                     => received + Len(errCh[c]) = Cardinality(DoneBy(pc, c))
          BY <1>1 DEF IInv, CountInv
        <4>2. received \in Nat /\ Len(errCh[c]) \in Nat /\ Cardinality(DoneBy(pc, c)) \in Nat
          BY <1>1, DoneFinite DEF IInv, TypeOK
        <4> HIDE DEF c
        <4> QED
          BY <1>2, <1>3, <1>4, <3>1, <4>1, <4>2
      <3>2. CASE d # c
        BY <1>2, <1>3, <1>5, <3>2 DEF IInv, CountInv
      <3> QED
        BY <3>1, <3>2
    <2> QED
      BY <2>1 DEF CountInv
  <1>7. ErrorInv'
    <2> SUFFICES ASSUME NEW b \in Accounts, CallOf[b] = call', result'[call'] = "running",
                        pc'[b] = "done", outcome'[b] = "error"
                 PROVE  \E i \in 1..Len(errCh'[call']) : errCh'[call'][i] = "error"
      BY DEF ErrorInv
    <2>1. CASE b = a
      <3>1. c = call' /\ Len(errCh[c]) + 1 \in 1..Len(errCh'[c])
        BY <1>1, <1>3, <2>1
      <3> QED
        BY <1>2, <1>3, <2>1, <3>1
    <2>2. CASE b # a
      <3>1. PICK i \in 1..Len(errCh[call]) : errCh[call][i] = "error"
        BY <1>2, <2>2 DEF IInv, ErrorInv, TypeOK
      <3>2. CASE c = call
        <4>1. i \in 1..Len(errCh'[c]) /\ errCh'[c][i] = "error"
          BY <1>1, <1>3, <3>1, <3>2
        <4> QED
          BY <1>2, <3>2, <4>1
      <3>3. CASE c # call
        <4>1. call \in 1..Calls
          <5>1. CallOf[b] \in 1..Calls /\ CallOf[b] = call
            BY <1>2, AccountsAssumption
          <5> QED
            BY <5>1
        <4> QED
          BY <1>2, <1>3, <3>1, <3>3, <4>1
      <3> QED
        BY <3>2, <3>3
    <2> QED
      BY <2>1, <2>2
  <1> QED
    BY <1>2, <1>6, <1>7 DEF IInv, FutureInv, NilMeansAllDeposited

LEMMA ReceiveIInv ==
    ASSUME IInv, Receive
    PROVE  CountInv' /\ ErrorInv' /\ FutureInv' /\ NilMeansAllDeposited'
  <1> DEFINE ch == errCh[call]
  <1>1. /\ call \in 1..Calls /\ result[call] = "running" /\ received \in Nat
        /\ ch \in Seq(Reports) /\ ch # <<>>
    <2>1. call \in 0..Calls /\ call > 0 /\ result[call] = "running" /\ received \in Nat
      BY DEF Receive, Running, IInv, TypeOK
    <2>2. call \in 1..Calls
      BY <2>1, BoundsAssumption
    <2>3. ch \in Seq(Reports) /\ ch # <<>>
      BY <2>2 DEF Receive, IInv, TypeOK
    <2> QED
      BY <2>1, <2>2, <2>3
  <1>2. /\ errCh' = [errCh EXCEPT ![call] = Tail(ch)]
        /\ UNCHANGED <<call, pc, outcome, deposited>>
        /\ \/ Head(ch) = "nil" /\ received' = received + 1 /\ UNCHANGED result
           \/ /\ Head(ch) = "error" /\ UNCHANGED received
              /\ result' = [result EXCEPT ![call] = "error"]
    BY DEF Receive, goroutines, node
  <1>3. /\ errCh'[call] = Tail(ch)
        /\ \A d \in 1..Calls : d # call => errCh'[d] = errCh[d]
    BY <1>1, <1>2 DEF IInv, TypeOK
  <1>4. /\ Len(Tail(ch)) = Len(ch) - 1 /\ Len(ch) \in Nat
        /\ \A i \in 1..Len(ch) - 1 : Tail(ch)[i] = ch[i + 1]
    <2> HIDE DEF ch
    <2> QED
      BY <1>1, ChannelTyped
  <1>5. \A c \in 1..Calls : /\ c # call => result'[c] = result[c]
                            /\ result'[c] = "nil" => result[c] = "nil"
    BY <1>1, <1>2 DEF IInv, TypeOK
  <1>6. CountInv'
    <2>1. ASSUME NEW d \in 1..Calls
          PROVE  /\ Len(errCh'[d]) <= Cardinality(DoneBy(pc', d))
                 /\ d = call' /\ result'[d] = "running"
                        => received' + Len(errCh'[d]) = Cardinality(DoneBy(pc', d))
      <3>1. CASE d = call
        <4>1. /\ Len(ch) <= Cardinality(DoneBy(pc, d))
              /\ received + Len(ch) = Cardinality(DoneBy(pc, d))
              /\ Cardinality(DoneBy(pc, d)) \in Nat
          BY <1>1, <3>1, DoneFinite DEF IInv, CountInv
        <4>2. result'[d] = "running" => received' = received + 1
          BY <1>1, <1>2, <3>1 DEF IInv, TypeOK
        <4>3. errCh'[d] = Tail(ch) /\ DoneBy(pc', d) = DoneBy(pc, d)
          BY <1>2, <1>3, <3>1
        <4> HIDE DEF ch
        <4> QED
          BY <1>1, <1>4, <4>1, <4>2, <4>3
      <3>2. CASE d # call
        BY <1>2, <1>3, <3>2 DEF IInv, CountInv
      <3> QED
        BY <3>1, <3>2
    <2> QED
      BY <2>1 DEF CountInv
  <1>7. ErrorInv'
    <2> SUFFICES ASSUME NEW b \in Accounts, CallOf[b] = call', result'[call'] = "running",
                        pc'[b] = "done", outcome'[b] = "error"
                 PROVE  \E i \in 1..Len(errCh'[call']) : errCh'[call'][i] = "error"
      BY DEF ErrorInv
    <2>1. Head(ch) = "nil"
      BY <1>1, <1>2 DEF IInv, TypeOK
    <2>2. PICK i \in 1..Len(ch) : ch[i] = "error"
      BY <1>1, <1>2 DEF IInv, ErrorInv
    <2>3. i # 1
      BY <1>1, <2>1, <2>2
    <2> HIDE DEF ch
    <2>4. i - 1 \in 1..Len(Tail(ch)) /\ Tail(ch)[i - 1] = "error"
      <3>1. i - 1 \in 1..Len(ch) - 1 /\ (i - 1) + 1 = i
        BY <1>4, <2>2, <2>3
      <3> QED
        BY <1>4, <2>2, <3>1
    <2> QED
      BY <1>2, <1>3, <2>4
  <1>8. FutureInv'
    BY <1>1, <1>2, <1>5 DEF IInv, FutureInv, TypeOK
  <1>9. NilMeansAllDeposited'
    BY <1>2, <1>5 DEF IInv, NilMeansAllDeposited
  <1> QED
    BY <1>6, <1>7, <1>8, <1>9

\* When as many reports were received as there are accounts, everyone has reported, the
\* channel is empty, and so no report was an error.
LEMMA ReturnNilIInv ==
    ASSUME IInv, ReturnNil
    PROVE  CountInv' /\ ErrorInv' /\ FutureInv' /\ NilMeansAllDeposited'
  <1>1. /\ call \in 1..Calls /\ result[call] = "running"
        /\ received = Cardinality(AccountsOf(call)) /\ errCh[call] \in Seq(Reports)
    BY DEF ReturnNil, Running, IInv, TypeOK
  <1>2. /\ result' = [result EXCEPT ![call] = "nil"]
        /\ UNCHANGED <<call, received, errCh, pc, outcome, deposited>>
    BY DEF ReturnNil, goroutines, node
  <1>3. Len(errCh[call]) = 0 /\ DoneBy(pc, call) = AccountsOf(call)
    <2>1. received + Len(errCh[call]) = Cardinality(DoneBy(pc, call)) /\ Len(errCh[call]) \in Nat
      BY <1>1 DEF IInv, CountInv
    <2> QED
      BY <1>1, <2>1, DoneFinite
  <1>4. AccountsOf(call) \subseteq deposited
    <2> SUFFICES ASSUME NEW a \in AccountsOf(call) PROVE a \in deposited
      OBVIOUS
    <2>1. a \in Accounts /\ CallOf[a] = call /\ pc[a] = "done"
      BY <1>3 DEF AccountsOf, DoneBy
    <2>2. outcome[a] # "error"
      BY <1>1, <1>3, <2>1 DEF IInv, ErrorInv
    <2>3. outcome[a] \in Reports
      BY <2>1 DEF IInv, TypeOK
    <2> QED
      BY <2>1, <2>2, <2>3 DEF IInv, OrderInv, Reports
  <1>5. \A c \in 1..Calls : result'[c] = IF c = call THEN "nil" ELSE result[c]
    BY <1>1, <1>2 DEF IInv, TypeOK
  <1>6. CountInv' /\ ErrorInv'
    BY <1>1, <1>2, <1>5 DEF IInv, CountInv, ErrorInv
  <1>7. FutureInv'
    BY <1>1, <1>2, <1>5 DEF IInv, FutureInv, TypeOK
  <1>8. NilMeansAllDeposited'
    BY <1>2, <1>4, <1>5 DEF IInv, NilMeansAllDeposited
  <1> QED
    BY <1>6, <1>7, <1>8

LEMMA MakeDepositsIInv ==
    ASSUME IInv, MakeDeposits
    PROVE  CountInv' /\ ErrorInv' /\ FutureInv' /\ NilMeansAllDeposited'
  <1>1. /\ call \in Nat /\ call' = call + 1 /\ call' \in 1..Calls
        /\ ~(call > 0 /\ result[call] = "running")
    BY BoundsAssumption DEF MakeDeposits, Running, IInv, TypeOK
  <1>2. /\ result' = [result EXCEPT ![call'] = "running"]
        /\ received' = 0
        /\ pc' = [a \in Accounts |-> IF CallOf[a] = call' THEN "fund" ELSE pc[a]]
        /\ UNCHANGED <<errCh, outcome, deposited>>
    BY DEF MakeDeposits, node
  <1>3. \A c \in 1..Calls : result'[c] = IF c = call' THEN "running" ELSE result[c]
    BY <1>1, <1>2 DEF IInv, TypeOK
  <1>4. \A a \in Accounts : CallOf[a] = call' => pc[a] = "idle" /\ pc'[a] = "fund"
    BY <1>1, <1>2 DEF IInv, OrderInv
  <1>5. \A a \in Accounts : pc'[a] = "done" <=> pc[a] = "done"
    BY <1>2, <1>4
  <1>6. \A c \in 1..Calls : DoneBy(pc', c) = DoneBy(pc, c)
    BY <1>5 DEF DoneBy, AccountsOf
  <1>7. DoneBy(pc, call') = {}
    BY <1>4 DEF DoneBy, AccountsOf
  <1>8. CountInv'
    <2>1. Len(errCh[call']) = 0 /\ Cardinality(DoneBy(pc, call')) = 0
      <3>1. Cardinality(DoneBy(pc, call')) = 0
        BY <1>7, FS_EmptySet
      <3>2. Len(errCh[call']) <= 0 /\ Len(errCh[call']) \in Nat
        BY <1>1, <3>1 DEF IInv, CountInv, TypeOK
      <3> QED
        BY <3>1, <3>2
    <2> QED
      BY <1>2, <1>6, <2>1 DEF IInv, CountInv
  <1>9. ErrorInv'
    BY <1>2, <1>4 DEF ErrorInv
  <1>10. FutureInv'
    BY <1>1, <1>3 DEF IInv, FutureInv
  <1>11. NilMeansAllDeposited'
    BY <1>2, <1>3 DEF IInv, NilMeansAllDeposited
  <1> QED
    BY <1>8, <1>9, <1>10, <1>11

LEMMA NextIInv == IInv /\ [Next]_vars => IInv'
  <1> SUFFICES ASSUME IInv, [Next]_vars PROVE IInv'
    OBVIOUS
  <1>1. TypeOK' /\ NonceInv' /\ OrderInv'
    BY NextTyped, NextNonce, NextOrder DEF IInv
  <1>2. CountInv' /\ ErrorInv' /\ FutureInv' /\ NilMeansAllDeposited'
    <2>1. ASSUME NEW a \in Accounts, Step(a)
          PROVE  CountInv' /\ ErrorInv' /\ FutureInv' /\ NilMeansAllDeposited'
      BY <2>1, QuietIInv, ReportIInv DEF Step, Quiet
    <2>2. ASSUME UNCHANGED <<call, result, received, errCh, pc, outcome>>,
                 deposited \subseteq deposited'
          PROVE  CountInv' /\ ErrorInv' /\ FutureInv' /\ NilMeansAllDeposited'
      <3>1. CountInv'
        BY <2>2 DEF IInv, CountInv, DoneBy
      <3>2. ErrorInv' /\ FutureInv'
        BY <2>2 DEF IInv, ErrorInv, FutureInv
      <3>3. NilMeansAllDeposited'
        BY <2>2 DEF IInv, NilMeansAllDeposited
      <3> QED
        BY <3>1, <3>2, <3>3
    <2>3. CASE MineFund \/ \E a \in Accounts : MineDeposit(a)
      BY <2>2, <2>3 DEF MineFund, MineDeposit, goroutines
    <2>4. CASE UNCHANGED vars
      BY <2>2, <2>4 DEF vars, goroutines, node
    <2> QED
      BY <2>1, <2>3, <2>4, MakeDepositsIInv, ReceiveIInv, ReturnNilIInv
      DEF Next, Caller, Terminated
  <1> QED
    BY <1>1, <1>2 DEF IInv

\* No two funding transactions ever share a nonce, however the goroutines of one call or
\* of several interleave.
THEOREM NoncesAreUnique == Spec => []NoncesUnique
  <1>1. IInv => NoncesUnique
    BY DEF IInv, NonceInv
  <1> QED
    BY <1>1, InitIInv, NextIInv, PTL DEF Spec

\* Every account is funded before it deposits.
THEOREM FundedFirst == Spec => []FundedBeforeDeposit
  <1>1. IInv => FundedBeforeDeposit
    BY DEF IInv, OrderInv, TypeOK, FundedBeforeDeposit, Mined
  <1> QED
    BY <1>1, InitIInv, NextIInv, PTL DEF Spec

\* A call that returns nil has made the deposits of all its accounts.
THEOREM NilIsHonest == Spec => []NilMeansAllDeposited
  <1>1. IInv => NilMeansAllDeposited
    BY DEF IInv
  <1> QED
    BY <1>1, InitIInv, NextIInv, PTL DEF Spec

\* A goroutine can always hand over its report, though nobody may be there to take it:
\* the channel holds a report of every account that has finished, and it has not.
THEOREM ReportsAreTaken == Spec => []ReportNeverBlocks
  <1>1. IInv => ReportNeverBlocks
    <2> SUFFICES ASSUME IInv, NEW a \in Accounts, pc[a] = "report"
                 PROVE  Len(errCh[CallOf[a]]) < Cardinality(AccountsOf(CallOf[a]))
      BY DEF ReportNeverBlocks, Capacity
    <2> DEFINE c == CallOf[a]
    <2>1. c \in 1..Calls
      BY AccountsAssumption
    <2>2. Len(errCh[c]) <= Cardinality(DoneBy(pc, c)) /\ Len(errCh[c]) \in Nat
      BY <2>1 DEF IInv, CountInv, TypeOK
    <2>3. a \in AccountsOf(c) /\ a \notin DoneBy(pc, c)
      BY DEF AccountsOf, DoneBy
    <2>4. Cardinality(DoneBy(pc, c)) # Cardinality(AccountsOf(c))
      BY <2>3, DoneFinite
    <2>5. Len(errCh[c]) < Cardinality(AccountsOf(c))
      <3> HIDE DEF c
      <3> QED
        BY <2>2, <2>4, DoneFinite
    <2> QED
      BY <2>5
  <1> QED
    BY <1>1, InitIInv, NextIInv, PTL DEF Spec

-----------------------------------------------------------------------------
(* DepositHandler implements DepositPromise. *)

\* The calls up to the last one were made, and those before it have answered.
ResultInv ==
    /\ \A c \in 1..Calls : c <= call => result[c] # "none"
    /\ \A c \in 1..Calls : c < call => result[c] \in Reports

LEMMA InitResult == Init => ResultInv
  BY BoundsAssumption DEF Init, ResultInv

LEMMA NextResult == TypeOK /\ ResultInv /\ [Next]_vars => ResultInv'
  <1> SUFFICES ASSUME TypeOK, ResultInv, [Next]_vars PROVE ResultInv'
    OBVIOUS
  <1>0. /\ call \in Nat /\ DOMAIN result = 1..Calls
        /\ result = [c \in 1..Calls |-> result[c]]
        /\ \A c \in 1..Calls : result[c] \in {"none", "running"} \cup Reports
    BY BoundsAssumption DEF TypeOK
  <1>1. CASE MakeDeposits
    <2>1. /\ call' = call + 1 /\ call' \in 1..Calls
          /\ result' = [result EXCEPT ![call'] = "running"]
          /\ call > 0 => result[call] # "running"
      BY <1>0, <1>1, BoundsAssumption DEF MakeDeposits, Running
    <2>2. ASSUME NEW c \in 1..Calls, c <= call
          PROVE  result'[c] = result[c] /\ result[c] \in Reports
      BY <1>0, <2>1, <2>2 DEF ResultInv
    <2>3. result'[call'] = "running"
      BY <1>0, <2>1
    <2>4. \A c \in 1..Calls : c < call' => c <= call
      BY <1>0, <2>1
    <2>5. \A c \in 1..Calls : c <= call' => c <= call \/ c = call'
      BY <1>0, <2>1
    <2> QED
      BY <2>2, <2>3, <2>4, <2>5 DEF ResultInv, Reports
  <1>2. CASE Receive \/ ReturnNil
    <2>1. /\ call' = call
          /\ result' = result \/ \E answer \in Reports : result' = [result EXCEPT ![call] = answer]
      BY <1>2 DEF Receive, ReturnNil, Reports
    <2> QED
      BY <1>0, <2>1 DEF ResultInv, Reports
  <1>3. CASE UNCHANGED <<call, result>>
    BY <1>3 DEF ResultInv
  <1> QED
    BY <1>1, <1>2, <1>3 DEF Next, Caller, Step, Fund, Send, Poll, Deposit, Wait, Report, MineFund,
       MineDeposit, Terminated, vars

\* Calls and answers are those of the promise.
LEMMA CallerImplements ==
    ASSUME IInv, ResultInv, Caller, NilMeansAllDeposited'
    PROVE  Promise!Next \/ UNCHANGED <<result, deposited>>
  <1>0. /\ call \in Nat /\ deposited' = deposited
        /\ \A c \in 1..Calls : result[c] \in {"none", "running"} \cup Reports
        /\ DOMAIN result = 1..Calls
    BY BoundsAssumption DEF IInv, TypeOK, Caller, MakeDeposits, Receive, ReturnNil, goroutines, node
  <1>1. CASE MakeDeposits
    <2>1. /\ call + 1 \in 1..Calls
          /\ result' = [result EXCEPT ![call + 1] = "running"]
          /\ call > 0 => result[call] # "running"
      BY <1>0, <1>1, BoundsAssumption DEF MakeDeposits, Running
    <2>2. result[call + 1] = "none"
      BY <1>0, <2>1 DEF IInv, FutureInv
    <2>3. \A b \in 1..((call + 1) - 1) : result[b] \in Promise!Answers
      BY <1>0, <2>1, BoundsAssumption DEF ResultInv, Reports, Promise!Answers
    <2> QED
      BY <1>0, <2>1, <2>2, <2>3 DEF Promise!Next, Promise!Begin
  <1>2. CASE Receive /\ result' # result
    <2>1. call \in 1..Calls /\ result[call] = "running" /\ result' = [result EXCEPT ![call] = "error"]
      BY <1>0, <1>2 DEF Receive, Running, IInv, TypeOK
    <2>2. Promise!Return(call, "error")
      BY <1>0, <2>1 DEF Promise!Return
    <2> QED
      BY <2>1, <2>2 DEF Promise!Next, Promise!Answers
  <1>3. CASE ReturnNil
    <2>1. call \in 1..Calls /\ result[call] = "running" /\ result' = [result EXCEPT ![call] = "nil"]
      BY <1>0, <1>3 DEF ReturnNil, Running, IInv, TypeOK
    <2>2. \A a \in Accounts : CallOf[a] = call => a \in deposited
      BY <1>0, <2>1 DEF NilMeansAllDeposited, AccountsOf
    <2>3. Promise!Return(call, "nil")
      BY <1>0, <2>1, <2>2 DEF Promise!Return
    <2> QED
      BY <2>1, <2>3 DEF Promise!Next, Promise!Answers
  <1> QED
    BY <1>0, <1>1, <1>2, <1>3 DEF Caller

\* Whatever call is at work, the chain only makes deposits that were asked for.
LEMMA MineImplements ==
    ASSUME IInv, ResultInv, NEW a \in Accounts, MineDeposit(a)
    PROVE  Promise!Next \/ UNCHANGED <<result, deposited>>
  <1>1. a \in sent /\ a \notin deposited /\ result' = result
        /\ (deposited' = deposited \/ deposited' = deposited \cup {a})
    BY DEF MineDeposit
  <1>2. CallOf[a] \in 1..Calls /\ ~(CallOf[a] > call) /\ call \in 0..Calls
    BY <1>1, AccountsAssumption DEF IInv, OrderInv, TypeOK
  <1>3. result[CallOf[a]] # "none"
    BY <1>2, BoundsAssumption DEF ResultInv
  <1> QED
    BY <1>1, <1>3 DEF Promise!Next, Promise!Deposit

\* For any accounts and calls, and however their goroutines interleave, MakeDeposits is
\* what createTranche takes it for: the goroutines that outlive a failed call neither
\* change its answer nor make a deposit twice, nor one of a call that is still to come.
THEOREM PromiseKept == Spec => PromiseSpec
  <1>1. Init => Promise!Init
    BY DEF Init, Promise!Init
  <1>2. IInv /\ ResultInv /\ [Next]_vars => ResultInv'
    BY NextResult DEF IInv
  <1>3. ASSUME IInv, ResultInv, [Next]_vars, IInv'
        PROVE  [Promise!Next]_<<result, deposited>>
    <2>1. CASE Caller
      BY <1>3, <2>1, CallerImplements DEF IInv
    <2>2. CASE \E a \in Accounts : MineDeposit(a)
      BY <1>3, <2>2, MineImplements
    <2>3. CASE ~Caller /\ ~\E a \in Accounts : MineDeposit(a)
      BY <1>3, <2>3 DEF Next, Step, Fund, Send, Poll, Deposit, Wait, Report, MineFund, Terminated,
         node, vars
    <2> QED
      BY <2>1, <2>2, <2>3
  <1> QED
    BY <1>1, <1>2, <1>3, InitIInv, NextIInv, InitResult, PTL DEF Spec, PromiseSpec, Promise!Spec
=============================================================================
