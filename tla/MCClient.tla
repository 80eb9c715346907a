------------------------------ MODULE MCClient ------------------------------
(***************************************************************************)
(* Two tokens with backs of their own, of which one has a mask; they share *)
(* the other textures.  Each image has its record.                         *)
(***************************************************************************)
EXTENDS Client

CONSTANTS c1, c2

MCLegend(back, mask) ==
  [back |-> back, border |-> "round", ink |-> "gold", mask |-> mask,
   normal |-> "linen", stock |-> "ivory"]
MCMetadata == [i \in {0, 1} |-> IF i = 0 THEN MCLegend("fool", "sun")
                                ELSE MCLegend("eye", "none")]

MCRecord(file, tags) == [file |-> file, tags |-> tags, payload |-> <<c1>>]

MCNormal == MCRecord("linen.webp", {"normal", "linen"})
MCBack == MCRecord("fool.webp", {"back", "fool"})

\* One record is every preview, the blank asset and the app.
MCProvisioned ==
  << MCRecord("page", {"preview-app", "preview", "flat", "animated",
                       "side-by-side", "back-fool", "back-eye",
                       "border-round", "ink-gold", "blank"}),
     MCNormal,
     MCRecord("sun.webp", {"mask", "sun"}),
     MCBack,
     MCRecord("eye.webp", {"back", "eye"}),
     MCRecord("round.webp", {"border", "round"}),
     MCRecord("art.webp", {"layer"}) >>

MCFiles == {r.file : r \in Range(MCProvisioned)}
MCUploads == {<<c2>>}
MCReplacements == {[file |-> MCBack.file, tags |-> MCBack.tags]}
MCDeletable == {"fool.webp", "sun.webp"}
MCTags == UNION {r.tags : r \in Range(MCProvisioned)}
MCPurgeable == {"mask", "back"}
\* After a deletion and an upgrade, this tags a blank record.
MCTagRequests == {<<[file |-> MCBack.file, tags |-> MCBack.tags]>>}

\* A page that builds its card, or has ended, reads nothing of the canister,
\* which need not change then.
\* One token is minted, the other never.
Reading == stage \notin {"shown", "crashed"} /\ ~Building

\* The user turns to the card when nothing else is going on.
Calm == pending = {} /\ ~toast /\ edits = 0 /\ losses = 0

MCSpec ==
  /\ ClientInit
  /\ [][/\ ClientNext
        /\ Reading \/ UNCHANGED serverVars
        /\ Cardinality(minted') <= 1
        /\ Calm \/ touches' = touches]_clientVars
  /\ ClientFairness
=============================================================================
