------------------------------ MODULE MCAssets ------------------------------
(***************************************************************************)
(* Two files and two tags: enough for a record that is purged and one that *)
(* stays, for positions that move, and for a file that comes back after    *)
(* its record was blanked.  assetsTag gets one pair, or one for each file. *)
(***************************************************************************)
EXTENDS AssetsCareful

CONSTANTS f1, f2, c1

MCUploads == {<<c1>>, <<c1, c1>>}

Pair(f, tags) == [file |-> f, tags |-> tags]

MCTagRequests ==
  {<<Pair(f, tags)>> : f \in Files, tags \in SUBSET Tags} \cup
  {<<Pair(f1, tags), Pair(f2, more)>> : tags, more \in SUBSET Tags}

\* The store as anyone may use it, for a run that shows what purge does.
MCFree == CarefulInit /\ [][Next /\ UNCHANGED purged]_carefulVars
=============================================================================
