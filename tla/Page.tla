--------------------------------- MODULE Page ---------------------------------
(***************************************************************************)
(* How the client (client/src/app.tsx) loads the page of a token: the app, *)
(* then the manifest, then one texture after the other, each under the     *)
(* filename the manifest gave it.  A component that needs what is not here *)
(* yet suspends: it throws the promise and is rendered again when that is  *)
(* settled; useLoader keeps what it loaded by URL.  Whatever fails is      *)
(* thrown, and since no error boundary catches it, React unmounts the app. *)
(* Between two requests the canister may change.                           *)
(***************************************************************************)
EXTENDS Http

CONSTANT MaxLosses   \* bound: requests that the network loses

VARIABLES
  stage,     \* how far the page has come
  index,     \* window.legendIndex
  manifest,  \* what useLegendManifest returns
  textures,  \* the cache of useLoader: file -> the record that was served
  \* History:
  losses,    \* requests that were lost
  changed,   \* the assets changed since the manifest was answered
  strayed    \* the page loaded something while the index was wrong

pageVars == <<stage, index, manifest, textures, losses, changed, strayed>>

Loading == stage \in {"manifest", "textures"}

PageInit ==
  /\ stage = "closed" /\ index = None /\ manifest = None
  /\ textures = << >>
  /\ losses = 0 /\ changed = FALSE /\ strayed = FALSE

\* Someone opens the page of token i, and gets the app (or something else, and
\* then nothing here runs).
Open(i) ==
  /\ stage = "closed"
  /\ GetPage(i).kind = "app"
  /\ stage' = "manifest" /\ index' = i
  /\ UNCHANGED <<manifest, textures, losses, changed, strayed>>

\* suspend: the promise is fulfilled with the manifest, or rejected, since
\* what came is not JSON.
ManifestReply ==
  LET response == GetManifest(index) IN
  /\ stage = "manifest"
  /\ IF response.kind = "manifest"
     THEN stage' = "textures" /\ manifest' = response
     ELSE stage' = "crashed" /\ UNCHANGED manifest
  /\ changed' = FALSE
  /\ strayed' = purged
  /\ UNCHANGED <<index, textures, losses>>

\* The textures in the order the components ask for them: the canvas the
\* normal map, the card the mask, if there is one, the back, the border and
\* the layers.
Wanted ==
  <<manifest.normal>>
  \o (IF manifest.mask = None THEN << >> ELSE <<manifest.mask>>)
  \o <<manifest.back, manifest.border>> \o manifest.layers

Missing == {k \in DOMAIN Wanted : Wanted[k] \notin DOMAIN textures}

\* The first texture that is missing.
Awaited == Wanted[CHOOSE k \in Missing : \A m \in Missing : k <= m]

\* Mutant: the cache keeps the last texture only.
Keep_Last(f, record) == [g \in {f} |-> record]

Keep(f, record) ==
  [g \in DOMAIN textures \cup {f} |-> IF g = f THEN record ELSE textures[g]]

\* A texture arrives, or what arrives is no image.
TextureReply ==
  LET response == GetAsset(Awaited) IN
  /\ stage = "textures" /\ Missing # {}
  /\ IF response.kind = "asset" /\ response.record.payload # << >>
     THEN textures' = Keep(Awaited, response.record) /\ UNCHANGED stage
     ELSE stage' = "crashed" /\ UNCHANGED textures
  /\ strayed' = (strayed \/ purged)
  /\ UNCHANGED <<index, manifest, losses, changed>>

\* The network loses a request: the promise is rejected.
Lose ==
  /\ Loading
  /\ losses < MaxLosses
  /\ losses' = losses + 1
  /\ stage' = "crashed"
  /\ UNCHANGED <<index, manifest, textures, changed, strayed>>

\* Everything is here: the card can be rendered.
Loaded == stage = "textures" /\ Missing = {}

Show ==
  /\ Loaded
  /\ stage' = "shown"
  /\ UNCHANGED <<index, manifest, textures, losses, changed, strayed>>

\* The canister changes while the page loads.
Notice ==
  /\ changed' = (changed \/ assets' # assets)
  /\ UNCHANGED <<stage, index, manifest, textures, losses, strayed>>

PageReply == ManifestReply \/ TextureReply
=============================================================================
