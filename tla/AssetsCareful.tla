---------------------------- MODULE AssetsCareful ----------------------------
(***************************************************************************)
(* The asset store as careful admins use it: after a purge by tag, which   *)
(* leaves the index wrong, they upgrade the canister (or purge the rest)   *)
(* before they do anything else; and a file that was deleted and uploaded  *)
(* again is not deleted again before an upgrade, since its blank record    *)
(* stands before the new one.  Used so, the store keeps what AssetStore    *)
(* promises.                                                               *)
(***************************************************************************)
EXTENDS Assets

VARIABLE purged   \* history: by tag, and no upgrade since

carefulVars == <<vars, purged>>

CarefulInit == Init /\ purged = FALSE

CarefulNext ==
  \/ /\ ~purged
     /\ \/ \E bytes \in Uploads : Upload(bytes)
        \/ \E f \in Files, tags \in SUBSET Tags : UploadFinalize(f, tags)
        \/ UploadClear
        \/ \E f \in Files : Cardinality(Positions(f)) < 2 /\ Delete(f)
        \/ \E requests \in TagRequests : Tag(requests)
     /\ UNCHANGED purged
  \/ \E t \in Tags : ~purged /\ PurgeTagged(t) /\ purged' = TRUE
  \/ (PurgeAll \/ Upgrade) /\ purged' = FALSE

CarefulSpec == CarefulInit /\ [][CarefulNext]_carefulVars

\* The page of a file: its last record, as the next upgrade would restore it.
PageOf(f) ==
  IF Positions(f) = {} THEN [tags |-> {}, payload |-> << >>]
  ELSE LET k == CHOOSE m \in Positions(f) : \A n \in Positions(f) : n <= m
       IN  [tags |-> assets[k].tags, payload |-> assets[k].payload]

AbstractStore ==
  INSTANCE AssetStore WITH page <- [f \in Files |-> PageOf(f)],
                           draft <- buffer

-----------------------------------------------------------------------------
\* Properties.

\* Between purges, what a search by tag finds is what its filename serves.
ServedUnlessPurged == ~purged => FoundIsServed

\* The records and the index implement one page per file: no operation touches
\* a page it does not name, an upgrade changes none, and what is deleted does
\* not come back.
StoreSpec == AbstractStore!StoreSpec
=============================================================================
