----------------------------- MODULE MCEntrepot -----------------------------
(***************************************************************************)
(* A small market: one token, one seller and one buyer, every interleaving *)
(* of the messages of two calls.                                           *)
(***************************************************************************)
EXTENDS Entrepot, TLC

CONSTANTS
  Seller,   \* owns every token at first
  Buyer     \* who locks

\* Calls are interchangeable.
CallSymmetry == Permutations(Calls)

MCInit == Init /\ \A i \in Tokens : owner[i] = Seller

\* Bounds of this instance: only Buyer locks, a list has an identifier of
\* another canister only when an order is pending, a transfer only gives a token
\* back to Seller, and owners and admins step in (transfer, deleteListing)
\* between two calls.
Bounded ==
  /\ \A c \in Calls : calls'[c].op = "lock" => calls'[c].who = Buyer
  /\ \A c \in Calls : calls[c].own /\ ~calls'[c].own =>
       pendingTransactions[calls'[c].index] # None
  /\ UNCHANGED calls =>
       /\ \A i \in Tokens : owner'[i] \in {owner[i], Seller}
       /\ \/ UNCHANGED <<owner, listings>>
          \/ \A c \in Calls : calls[c].pc = "idle"

\* All but passed, which no action reads.
View == <<calls, owner, listings, pendingTransactions, transactions, nextTxId,
          nextSubAccount, stats, pendingDisbursements, balance, lapsed,
          offers, orders, deposited, inTime, sold>>

MCSpec == MCInit /\ [][Next /\ Bounded]_vars
=============================================================================
