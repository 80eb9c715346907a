----------------------------- MODULE AssetStore -----------------------------
(***************************************************************************)
(* What the asset store of src/Assets promises its admins: every filename  *)
(* has one page, a draft collects what is uploaded, and each operation     *)
(* touches the pages it names and no other.  There are no positions, no    *)
(* index and no upgrades here.                                             *)
(***************************************************************************)
EXTENDS Sequences

CONSTANTS Files, Tags, Chunks, Uploads

VARIABLES
  page,   \* the tags and payload of each file; NoPage for none
  draft   \* the chunks uploaded since the last page

storeVars == <<page, draft>>

\* A file without content: never uploaded, deleted or purged.
NoPage == [tags |-> {}, payload |-> << >>]

StoreInit ==
  /\ page \in [Files -> [tags : SUBSET Tags, payload : Seq(Chunks)]]
  /\ draft = << >>

Extend(bytes) ==
  /\ draft' = draft \o bytes
  /\ UNCHANGED page

Discard ==
  /\ draft' = << >>
  /\ UNCHANGED page

Publish(f, tags) ==
  /\ page' = [page EXCEPT ![f] = [tags |-> tags, payload |-> draft]]
  /\ draft' = << >>

Remove(gone) ==
  /\ page' = [f \in Files |-> IF f \in gone THEN NoPage ELSE page[f]]
  /\ UNCHANGED draft

\* New tags for some files.  A file without content may, or may not, become an
\* empty page with tags.
Retag(tagging) ==
  /\ \E skipped \in SUBSET {f \in DOMAIN tagging : page[f] = NoPage} :
       page' = [f \in Files |->
                  IF f \in DOMAIN tagging \ skipped
                  THEN [page[f] EXCEPT !.tags = tagging[f]] ELSE page[f]]
  /\ UNCHANGED draft

StoreNext ==
  \/ \E bytes \in Uploads : Extend(bytes)
  \/ Discard
  \/ \E f \in Files, tags \in SUBSET Tags : Publish(f, tags)
  \/ \E f \in Files : Remove({f})
  \/ \E t \in Tags : Remove({f \in Files : t \in page[f].tags})
  \/ Remove(Files)
  \/ \E fs \in SUBSET Files : \E tagging \in [fs -> SUBSET Tags] :
       Retag(tagging)

StoreSpec == StoreInit /\ [][StoreNext]_storeVars
=============================================================================
