----------------------------- MODULE MCPayouts -----------------------------
(***************************************************************************)
(* Two sales of one token at one price, so that deleteDisbursementJob can  *)
(* match jobs of both; the second seller's address does not decode.        *)
(***************************************************************************)
EXTENDS Payouts

job(s, to, amount) ==
  [token |-> "t1", to |-> to, sub |-> s, amount |-> amount]

MCSales == {1, 2}
MCUndecodable == {"garbled"}
MCBatch ==
  << << job(1, "seller", 9700), job(1, "royalty", 300) >>,
     << job(2, "garbled", 9700), job(2, "royalty", 300) >> >>

MCFair == PayoutSpec /\ PayoutFairness
=============================================================================
