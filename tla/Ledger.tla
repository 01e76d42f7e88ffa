------------------------------- MODULE Ledger -------------------------------
(***************************************************************************)
(* What every variant of the bank promises about money, with no tables, no *)
(* locks and no versions: accounts open with some money, a transfer moves  *)
(* its amount from one account to another in one step or not at all, and   *)
(* is declined only if its source was found short of the amount.           *)
(***************************************************************************)
EXTENDS Integers

CONSTANTS Ids, Accounts, Transfers, OpeningBalances

VARIABLES
  open,     \* accounts that exist
  balance,  \* balance of each account, 0 for those that do not exist yet
  short,    \* transfers whose source was found short of the amount
  outcome,  \* what is on record of each transfer
  req       \* [from, to, amount] of each transfer

vars == <<open, balance, short, outcome, req>>

Init ==
  /\ open = {}
  /\ balance = [a \in Ids |-> 0]
  /\ short = {}
  /\ outcome = [t \in Transfers |-> "none"]

Open(a) ==
  /\ a \notin open
  /\ open' = open \cup {a}
  /\ \E b \in OpeningBalances :
       b >= 0 /\ balance' = [balance EXCEPT ![a] = b]
  /\ UNCHANGED <<short, outcome, req>>

Complete(t) ==
  LET from == req[t].from
      to == req[t].to
  IN  /\ outcome[t] = "none"
      /\ from # to
      /\ {from, to} \subseteq open
      /\ req[t].amount > 0
      /\ balance[from] >= req[t].amount
      /\ balance' = [balance EXCEPT ![from] = @ - req[t].amount,
                                    ![to] = @ + req[t].amount]
      /\ outcome' = [outcome EXCEPT ![t] = "Completed"]
      /\ UNCHANGED <<open, short, req>>

FindShort(t) ==
  /\ outcome[t] = "none"
  /\ req[t].from \in open
  /\ balance[req[t].from] < req[t].amount
  /\ short' = short \cup {t}
  /\ UNCHANGED <<open, balance, outcome, req>>

Decline(t) ==
  /\ outcome[t] = "none"
  /\ t \in short
  /\ outcome' = [outcome EXCEPT ![t] = "Failed"]
  /\ UNCHANGED <<open, balance, short, req>>

Next ==
  \/ \E a \in Accounts : Open(a)
  \/ \E t \in Transfers : Complete(t) \/ FindShort(t) \/ Decline(t)

Spec == Init /\ [][Next]_vars

=============================================================================
