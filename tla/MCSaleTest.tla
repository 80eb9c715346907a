----------------------------- MODULE MCSaleTest -----------------------------
(***************************************************************************)
(* Two users on a canister of one token: the mint of one of them fails, so *)
(* both are after token 0.  The heartbeat has two slots of Calls: one of   *)
(* its settles may sell while another, begun before, is still reading.     *)
(***************************************************************************)
EXTENDS SaleTest

CONSTANTS u1, u2, k1, h1, h2

MCTokens == {0}
MCUsers == {u1, u2}
MCCalls == MCUsers \cup {h1, h2}

\* Bound of this instance: the users are interchangeable, so the first has the
\* first key.
MCInit == TestInit /\ key[u1] = k1

\* Bound of this instance: the heartbeat takes its second slot when the settle
\* in the first has been told of a payment, and then no call is refused.
SecondSlot ==
  /\ calls[h2] = Idle /\ calls'[h2] # Idle =>
       calls[h1].pc = "funds" /\ calls[h1].funds > 0 /\ faults = 0
  /\ calls[h2] # Idle => faults' = faults

MCStep == TestNext /\ ListAlone /\ LockAlone /\ Prompt /\ SecondSlot

MCSpec == MCInit /\ [][MCStep]_testVars /\ TestFairness
=============================================================================
