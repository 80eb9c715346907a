------------------------------ MODULE MCTokens ------------------------------
(***************************************************************************)
(* Three tokens and two calls.  The seeds give each of the six orders of   *)
(* three legends once; in one configuration a legend occurs twice, and one *)
(* is refused for its length.                                              *)
(***************************************************************************)
EXTENDS Tokens

CONSTANTS x, y, z

MCConfs == {<<x, y, z>>, <<x, x, y>>, <<x, y>>}
=============================================================================
