--------------------------- MODULE TrancheLedger ---------------------------
(***************************************************************************)
(* What the agent promises about its tranches, whatever calls run at the   *)
(* same time.  A tranche is a set of validator keys, numbered in the order *)
(* of creation from zero.  Its keys are in no other tranche, and it is     *)
(* given to at most one validator client, once and for good; a validator   *)
(* client is given at most one tranche.                                    *)
(***************************************************************************)
EXTENDS Integers

CONSTANTS Keys,      \* every validator key there may ever be
          Owners,    \* the names of the validator clients
          NoOwner,   \* a tranche that nobody has been given
          Genesis    \* how many tranches the ledger starts with

VARIABLE ledger      \* tranche number -> its keys and its owner

Entries == [keys : SUBSET Keys, owner : Owners \cup {NoOwner}]

Disjoint(l) == \A i, j \in DOMAIN l : i # j => l[i].keys \cap l[j].keys = {}

Init ==
    /\ ledger \in [0..(Genesis - 1) -> Entries]
    /\ \A i \in DOMAIN ledger : ledger[i].owner = NoOwner
    /\ Disjoint(ledger)

\* A new tranche takes the next number and shares no key with another.
Create ==
    \E n \in DOMAIN ledger' :
        /\ DOMAIN ledger = 0..(n - 1)
        /\ ledger' \in [0..n -> Entries]
        /\ \A i \in DOMAIN ledger : ledger'[i] = ledger[i]
        /\ ledger'[n].owner = NoOwner
        /\ Disjoint(ledger')

\* A validator client that owns nothing is given a tranche that nobody owns.
Assign ==
    \E i \in DOMAIN ledger :
        LET owner == ledger'[i].owner
        IN  /\ ledger[i].owner = NoOwner
            /\ owner \in Owners
            /\ \A j \in DOMAIN ledger : ledger[j].owner # owner
            /\ ledger' = [ledger EXCEPT ![i].owner = owner]

Next == Create \/ Assign

Spec == Init /\ [][Next]_ledger
=============================================================================
