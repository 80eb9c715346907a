------------------------------ MODULE NftSale ------------------------------
(***************************************************************************)
(* What the marketplace promises, without locks, deadlines, calls and      *)
(* queues: an order binds one payment address to one token, buyer, seller  *)
(* and price, the price is one the owner of the token asked for, and a     *)
(* token is sold for an order only by the seller it names and only after   *)
(* the price was paid to the address of that order.  Entrepot implements   *)
(* it (Entrepot!Sale).                                                     *)
(***************************************************************************)
EXTENDS Naturals

CONSTANTS Tokens, Accounts, Prices, Locks, None

VARIABLES
  owner,      \* who owns each token
  offers,     \* what owners have asked for their tokens
  orders,     \* payment address -> the order it was handed out for, or None
  deposited,  \* payment address -> what was ever paid to it
  sold        \* payment address -> how often its order was carried out

vars == <<owner, offers, orders, deposited, sold>>

Init ==
  /\ owner \in [Tokens -> Accounts]
  /\ offers = {}
  /\ orders = [s \in Locks |-> None]
  /\ deposited = [s \in Locks |-> 0]
  /\ sold = [s \in Locks |-> 0]

\* An owner asks a price for a token.
Ask(i, p) ==
  /\ offers' = offers \cup {[token |-> i, seller |-> owner[i], price |-> p]}
  /\ UNCHANGED <<owner, orders, deposited, sold>>

\* A buyer takes up an offer and gets a payment address never used before.
Reserve(s, offer, to) ==
  /\ orders[s] = None
  /\ orders' = [orders EXCEPT ![s] =
                  [token |-> offer.token, seller |-> offer.seller, to |-> to,
                   price |-> offer.price]]
  /\ UNCHANGED <<owner, offers, deposited, sold>>

\* Something is paid to an address that was handed out.
Deposit(s) ==
  /\ orders[s] # None
  /\ deposited'[s] \in Nat /\ deposited'[s] >= deposited[s]
  /\ deposited' = [deposited EXCEPT ![s] = deposited'[s]]
  /\ UNCHANGED <<owner, offers, orders, sold>>

\* An order is carried out: it is paid, and its seller owns the token.
Sell(s) ==
  /\ orders[s] # None
  /\ deposited[s] >= orders[s].price
  /\ owner[orders[s].token] = orders[s].seller
  /\ owner' = [owner EXCEPT ![orders[s].token] = orders[s].to]
  /\ sold' = [sold EXCEPT ![s] = @ + 1]
  /\ UNCHANGED <<offers, orders, deposited>>

\* An owner gives a token away.
Give(i, to) ==
  /\ owner' = [owner EXCEPT ![i] = to]
  /\ UNCHANGED <<offers, orders, deposited, sold>>

Next ==
  \/ \E i \in Tokens, p \in Prices : Ask(i, p)
  \/ \E s \in Locks, offer \in offers, to \in Accounts : Reserve(s, offer, to)
  \/ \E s \in Locks : Deposit(s) \/ Sell(s)
  \/ \E i \in Tokens, to \in Accounts : Give(i, to)

Spec == Init /\ [][Next]_vars
=============================================================================
