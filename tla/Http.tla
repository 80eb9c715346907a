--------------------------------- MODULE Http ---------------------------------
(***************************************************************************)
(* What the canister answers to the requests of the client, over the asset *)
(* store and the minted tokens: src/Http/lib.mo.  The other paths lead to  *)
(* the same pages, or to a record by its tags.  Requests are queries: each *)
(* sees one state and changes nothing.  Files, tags and the traits of a    *)
(* legend are strings, since the code builds tags from traits.             *)
(***************************************************************************)
EXTENDS AssetsCareful

CONSTANTS
  Supply,    \* how many tokens there are
  Metadata   \* the legend of each token: its six traits

ASSUME HttpAssumption ==
  Supply \in Nat /\ DOMAIN Metadata = 0 .. Supply - 1

VARIABLE minted   \* the tokens that have an owner

-----------------------------------------------------------------------------
\* Responses.

Text(status) == [status |-> status, kind |-> "text"]
NotFound == Text(404)

\* A query that traps, or the code's own 500: no asset, no page, no JSON.
Failed == Text(500)

\* renderAsset.
Asset(r) == [status |-> 200, kind |-> "asset", record |-> r]

\* The preview app: a page of HTML that knows its index.
AppPage(i) == [status |-> 200, kind |-> "app", index |-> i]

-----------------------------------------------------------------------------
\* Looking up assets.

\* Mutant: the first record with one of these tags.
FindTags_Any(tags) ==
  LET found == {k \in DOMAIN assets : tags \cap assets[k].tags # {}}
  IN  IF found = {} THEN None
      ELSE assets[CHOOSE k \in found : \A m \in found : k <= m]

\* _findTags: the first record with all these tags.
FindTags(tags) ==
  LET found == {k \in DOMAIN assets : tags \subseteq assets[k].tags}
  IN  IF found = {} THEN None
      ELSE assets[CHOOSE k \in found : \A m \in found : k <= m]

\* _findAllTag: the files of the records with a tag, in their order.
FilesWith(records, t) ==
  LET Collect(found, r) == IF t \in r.tags THEN Append(found, r.file) ELSE found
  IN  FoldLeft(Collect, << >>, records)

\* renderAssetWithTags.
WithTags(tags) ==
  IF FindTags(tags) = None THEN NotFound ELSE Asset(FindTags(tags))

\* httpAssetFilename: the record at the position the index has for f, of
\* whatever file; a position that is none traps.
GetAsset(f) ==
  IF ~Indexed(Store, f) THEN NotFound
  ELSE IF InRange(Store, f) THEN Asset(assets[files[f]]) ELSE Failed

\* mintedOr404, which answers with the blank asset and not with a 404, before
\* the response of a handler.
IfMinted(i, response) ==
  IF i >= Supply THEN Failed
  ELSE IF i \in minted THEN response ELSE WithTags({"blank"})

-----------------------------------------------------------------------------
\* The pages of a token.

\* renderLegendPreview, with the path /<index>: some record is the app.
GetPage(i) ==
  IfMinted(i, IF FindTags({"preview-app"}) = None THEN NotFound
              ELSE AppPage(i))

\* The tags of the still preview of a token, as its manifest looks for it.
StillTags(i) ==
  LET l == Metadata[i]
  IN  {"preview", "side-by-side",
       "back-" \o l.back, "border-" \o l.border, "ink-" \o l.ink}

\* renderManifest: the files of the textures, or an error when a texture or a
\* view is missing; only the mask may be.
Manifest(i) ==
  LET l == Metadata[i]
      texture(kind, trait) == FindTags({kind, trait})
      needed == {texture("normal", l.normal), texture("back", l.back),
                 texture("border", l.border), FindTags({"preview", "flat"}),
                 FindTags(StillTags(i)),
                 FindTags({"preview", "animated"})}
      mask == texture("mask", l.mask) IN
  IF None \in needed THEN Failed
  ELSE [status |-> 200, kind  |-> "manifest",
        normal |-> texture("normal", l.normal).file,
        back   |-> texture("back", l.back).file,
        border |-> texture("border", l.border).file,
        mask   |-> IF mask = None THEN None ELSE mask.file,
        layers |-> FilesWith(assets, "layer")]

\* httpLegendRootView, with the path /<index>.json.
GetManifest(i) == IfMinted(i, Manifest(i))
=============================================================================
