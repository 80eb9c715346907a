------------------------- MODULE MCEntrepotOrderly -------------------------
(***************************************************************************)
(* The small market of MCEntrepot with orderly calls, and the same market  *)
(* with one part of Orderly left out.                                      *)
(***************************************************************************)
EXTENDS EntrepotOrderly

CONSTANTS Seller, Buyer

MCInit == Init /\ \A i \in Tokens : owner[i] = Seller

\* Bounds of this instance: only Buyer locks, a list has an identifier of
\* another canister only when an order is pending, and the seller does not
\* change the price (one that covers the ledger's fees, or one that does not).
Bounded ==
  /\ \A c \in Calls :
       /\ calls'[c].op = "lock" => calls'[c].who = Buyer
       /\ calls[c].own /\ ~calls'[c].own =>
            pendingTransactions[calls'[c].index] # None
  /\ \A offer, other \in offers' : offer.price = other.price

MCOrderly == MCInit /\ [][Next /\ Orderly /\ Bounded]_vars
MCOrderlyFair == MCOrderly /\ Fairness

\* A list may overlap other calls on its token.  (Everyone uses identifiers of
\* this canister.)
MCListRace ==
  MCInit /\ [][Next /\ LockAlone /\ TransferAlone /\ Prompt /\ HandsOff
               /\ Bounded /\ \A c \in Calls : calls'[c].own]_vars

\* A lock may overlap other calls on its token.
MCLockRace ==
  MCInit /\ [][Next /\ ListAlone /\ TransferAlone /\ Prompt /\ HandsOff
               /\ Bounded]_vars
=============================================================================
