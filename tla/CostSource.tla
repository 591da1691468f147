------------------------------ MODULE CostSource ------------------------------
(***************************************************************************)
(* What the P&L promises about the same cost reported by several kinds of  *)
(* documents: each account is counted from one kind at a time, a document  *)
(* more never moves an account to a worse kind, and one less never to a    *)
(* better.  How accounts are recognised and matched is left open.          *)
(***************************************************************************)
EXTENDS Naturals

CONSTANTS
  Account,   \* what is owed to one vendor, or one charge of the franchisor
  Source,    \* the kinds an account can be counted from
  Rank       \* how good a kind is for an account: a number, 0 when there is nothing

VARIABLES
  records,   \* how many documents tell of each account
  source     \* the kind each account is counted from

Init ==
  /\ records \in [Account -> Nat]
  /\ source \in [Account -> Source]

Kept(a) == records'[a] = records[a] /\ source'[a] = source[a]

\* Documents arrive, of any accounts.
Arrive ==
  /\ source' \in [Account -> Source]
  /\ records' \in [Account -> Nat]
  /\ \A a \in Account :
       Kept(a) \/ (records'[a] > records[a] /\ Rank[a][source'[a]] >= Rank[a][source[a]])

\* Documents are withdrawn.
Withdraw ==
  /\ source' \in [Account -> Source]
  /\ records' \in [Account -> Nat]
  /\ \A a \in Account :
       Kept(a) \/ (records'[a] < records[a] /\ Rank[a][source'[a]] <= Rank[a][source[a]])

Next == Arrive \/ Withdraw

Spec == Init /\ [][Next]_<<records, source>>
=============================================================================
