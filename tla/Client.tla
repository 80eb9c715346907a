-------------------------------- MODULE Client --------------------------------
(***************************************************************************)
(* The page of a token and the canister that serves it, at once: admins    *)
(* upload, delete, purge and upgrade, tokens are minted, and the browser   *)
(* loads the page one request at a time, shows the card, and lets it move. *)
(***************************************************************************)
EXTENDS Page, Motion, CardGeometry

CONSTANTS
  Provisioned,  \* the records the canister starts with
  Replacements, \* filenames with tags that an admin may upload
  Deletable,    \* files an admin may delete
  Purgeable,    \* tags an admin may purge
  MaxEdits      \* bound: operations of admins

\* The canister starts with any records, within the bound.
ASSUME ClientAssumption ==
  /\ Provisioned \in Seq(Records)
  /\ Len(Restored(Provisioned).assets) <= MaxAssets
  /\ Replacements \subseteq [file : Files, tags : SUBSET Tags]
  /\ Deletable \subseteq Files
  /\ Purgeable \subseteq Tags

VARIABLE edits

serverVars == <<vars, purged, minted, edits>>
clientVars == <<serverVars, pageVars, motionVars, geometryVars>>

ClientInit ==
  /\ assets = Restored(Provisioned).assets
  /\ files = Restored(Provisioned).files
  /\ buffer = << >> /\ purged = FALSE
  /\ minted = {} /\ edits = 0
  /\ PageInit /\ MotionInit /\ GeometryInit

\* Careful admins (AssetsCareful): a purge by tag is followed by an upgrade.
Edit ==
  /\ edits < MaxEdits
  /\ edits' = edits + 1
  /\ \/ /\ ~purged /\ UNCHANGED purged
        /\ \/ \E bytes \in Uploads : Upload(bytes)
           \/ UploadClear
           \/ \E r \in Replacements : UploadFinalize(r.file, r.tags)
           \/ \E f \in Deletable : Cardinality(Positions(f)) < 2 /\ Delete(f)
           \/ \E requests \in TagRequests : Tag(requests)
     \/ \E t \in Purgeable : ~purged /\ PurgeTagged(t) /\ purged' = TRUE
     \/ PurgeAll /\ purged' = FALSE
  /\ UNCHANGED minted

UpgradeServer ==
  /\ Upgrade /\ purged' = FALSE
  /\ UNCHANGED <<minted, edits>>

MintToken(i) ==
  /\ i \notin minted
  /\ minted' = minted \cup {i}
  /\ UNCHANGED <<vars, purged, edits>>

ServerStep ==
  /\ Edit \/ UpgradeServer \/ \E i \in 0 .. Supply - 1 : MintToken(i)
  /\ Notice
  /\ UNCHANGED <<motionVars, geometryVars>>

\* The page opens, and ReactDOM renders App.
OpenPage(i) == Open(i) /\ Mount /\ UNCHANGED <<serverVars, geometryVars>>

\* The page gets on, or all unmounts when something is thrown.
LoadPage ==
  /\ PageReply \/ Lose
  /\ IF stage' = "crashed" THEN Unmount ELSE UNCHANGED motionVars
  /\ UNCHANGED <<serverVars, geometryVars>>

\* The first render of the card builds its geometry, while nothing else runs in
\* the page; then the card mounts.
BuildCard ==
  /\ Loaded
  /\ GroupVertex
  /\ UNCHANGED <<serverVars, pageVars, motionVars>>

ShowCard ==
  /\ Show /\ Grouped
  /\ CardMount
  /\ UNCHANGED <<serverVars, geometryVars>>

Building == vertex > 0 /\ ~Grouped

Moves(step) ==
  /\ ~Building
  /\ step
  /\ UNCHANGED <<serverVars, pageVars, geometryVars>>

Move == Moves(MotionStep)

Render == BuildCard \/ ShowCard

ClientNext ==
  \/ ServerStep
  \/ \E i \in 0 .. Supply - 1 : OpenPage(i)
  \/ LoadPage \/ Render
  \/ Move

ClientSpec == ClientInit /\ [][ClientNext]_clientVars

\* Fairness: every request is answered or lost, React renders what has
\* changed, frames are drawn while the card is there, and timers fire.
ClientFairness ==
  /\ WF_clientVars(LoadPage) /\ WF_clientVars(Render)
  /\ WF_clientVars(Moves(Rerender)) /\ WF_clientVars(Moves(Frame))
  /\ WF_clientVars(Moves(Debounce))

-----------------------------------------------------------------------------
\* Properties.

\* An admin has given tags to f, but no content: a blank record is put into the
\* index again by an upgrade, and assetsTag takes it for one to tag.
Hollow(f) ==
  \E r \in Range(assets) : r.file = f /\ r.tags # {} /\ r.payload = << >>

\* A page that got its manifest ends in a blank window only if a request was
\* lost, the assets changed after the manifest was answered, they were purged by
\* tag and not yet upgraded, or it needs a file that has tags and no content: as
\* long as nobody touches them, all else that a manifest links to is there,
\* whatever was done to the store before.
CrashIsExplained ==
  stage = "crashed" /\ manifest # None =>
    \/ losses > 0 \/ changed \/ strayed
    \/ \E f \in Range(Wanted) : Hollow(f)

\* What is shown is the token's legend: each texture is the file the manifest
\* named, also if the assets changed meanwhile, and if they did not, it has the
\* tags the legend asks for.
ShownIsTheLegend ==
  stage = "shown" /\ ~strayed =>
    /\ \A f \in DOMAIN textures : textures[f].file = f
    /\ changed \/
       LET l == Metadata[index] IN
       /\ {"normal", l.normal} \subseteq textures[manifest.normal].tags
       /\ {"back", l.back} \subseteq textures[manifest.back].tags
       /\ {"border", l.border} \subseteq textures[manifest.border].tags

\* Whatever is answered, late or not at all, App never has more than one
\* listener, none before it mounts or after it unmounts, unless the permission is
\* granted after that.
ListenersComeAndGo ==
  /\ listeners.App = IF app = "mounted" \/ late THEN 1 ELSE 0
  /\ listeners.Card = IF stage = "shown" THEN 1 ELSE 0

\* Who has granted the permission is not asked for it.
NoToastOnceGranted == toast => granted \notin {"granted", "free"}

\* A page that is open gets somewhere: it never suspends for ever.
PageEnds == (stage = "manifest") ~> (stage \in {"shown", "crashed"})

\* A shown card gets its full pixel density back when frames are fast again.
SharpAgain == (stage = "shown") ~> [](dpr = "device")

\* When the user lets go of it, a shown card comes to rest where the last click
\* and the last place of the pointer want it: no frame goes on with the state of
\* an earlier render.
CardSettles ==
  (stage = "shown") ~> [](target = [front |-> flip, lean |-> pointer])
=============================================================================
