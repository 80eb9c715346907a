-------------------------------- MODULE Assets --------------------------------
(***************************************************************************)
(* The asset store of src/Assets/lib.mo: the records in the order they     *)
(* were added, a denormalized index from filenames to positions, and the   *)
(* buffer that collects an upload.  Readers look records up in two ways:   *)
(* by tag, which searches the records (_findTag, _findTags, _findAllTag),  *)
(* and by filename, which goes through the index (getAssetByName).  Every  *)
(* operation here is one message of an admin.                              *)
(***************************************************************************)
EXTENDS Integers, Sequences, FiniteSets, SequencesExt

CONSTANTS
  Files,        \* filenames
  Tags,         \* tags of records
  Chunks,       \* blobs that may be uploaded
  Uploads,      \* arguments of upload: sequences of chunks
  TagRequests,  \* arguments of assetsTag: sequences of [file, tags]
  MaxAssets,    \* bound on the number of records
  MaxBuffer,    \* bound on the chunks of one upload
  None

ASSUME AssetsAssumption ==
  /\ MaxAssets \in Nat /\ MaxBuffer \in Nat
  /\ Uploads \subseteq Seq(Chunks)
  /\ TagRequests \subseteq Seq([file : Files, tags : SUBSET Tags])

VARIABLES
  assets,   \* the records: filename, tags and payload (other fields only
            \* change with these)
  files,    \* the index: for some filenames, a position in assets
  buffer    \* the chunks uploaded and not finalized

vars == <<assets, files, buffer>>

Blank(f) == [file |-> f, tags |-> {}, payload |-> << >>]

Records == [file : Files, tags : SUBSET Tags, payload : Seq(Chunks)]

-----------------------------------------------------------------------------
\* Records and index together, as _putAsset changes them.

Store == [assets |-> assets, files |-> files]
EmptyStore == [assets |-> << >>, files |-> << >>]

Indexed(store, f) == f \in DOMAIN store.files

\* The position the index has for f, if it is one: a stale index may name a
\* position beyond the last record.
InRange(store, f) == store.files[f] <= Len(store.assets)

\* Mutant: the index takes the size after the record was added.
Put_Late(store, r) ==
  IF ~Indexed(store, r.file)
  THEN [assets |-> Append(store.assets, r),
        files  |-> [f \in DOMAIN store.files \cup {r.file} |->
                      IF f = r.file THEN Len(store.assets) + 2
                      ELSE store.files[f]]]
  ELSE IF InRange(store, r.file)
       THEN [store EXCEPT !.assets[store.files[r.file]] = r]
       ELSE store

\* _putAsset: over the record the index names, or else at the end, with a new
\* entry.  Over a position beyond the last record nothing is stored: mo:base's
\* buffer writes where nothing reads, or traps, which undoes the message.
Put(store, r) ==
  IF ~Indexed(store, r.file)
  THEN [assets |-> Append(store.assets, r),
        files  |-> [f \in DOMAIN store.files \cup {r.file} |->
                      IF f = r.file THEN Len(store.assets) + 1
                      ELSE store.files[f]]]
  ELSE IF InRange(store, r.file)
       THEN [store EXCEPT !.assets[store.files[r.file]] = r]
       ELSE store

\* restore: every record of a backup is put, in order.
Restored(records) == FoldLeft(Put, EmptyStore, records)

\* One pair of assetsTag: the record under that filename in the index is put
\* again with these tags, under the filename it has itself.  None: the read
\* traps, and the message with it.
Retagged(store, request) ==
  IF store = None \/ (Indexed(store, request.file)
                      /\ ~InRange(store, request.file))
  THEN None
  ELSE IF Indexed(store, request.file)
       THEN Put(store, [store.assets[store.files[request.file]]
                          EXCEPT !.tags = request.tags])
       ELSE store

Become(store) ==
  /\ store # None
  /\ Len(store.assets) <= MaxAssets
  /\ assets' = store.assets
  /\ files' = store.files

-----------------------------------------------------------------------------
\* The constructor restores whatever records the installation was given.
Init ==
  /\ assets = << >> /\ files = << >>
  /\ buffer = << >>

Upload(bytes) ==
  /\ Len(buffer \o bytes) <= MaxBuffer
  /\ buffer' = buffer \o bytes
  /\ UNCHANGED <<assets, files>>

UploadFinalize(f, tags) ==
  /\ Become(Put(Store, [file |-> f, tags |-> tags, payload |-> buffer]))
  /\ buffer' = << >>

UploadClear ==
  /\ buffer' = << >>
  /\ UNCHANGED <<assets, files>>

\* filterSelf: the records without the tag, in their order.
Untagged(records, t) ==
  LET Filter(kept, r) == IF t \in r.tags THEN kept ELSE Append(kept, r)
  IN  FoldLeft(Filter, << >>, records)

\* purge with a tag: filterSelf calls the callback with whether it kept each
\* record: the index loses the filenames of the records that stay.
PurgeTagged(t) ==
  /\ assets' = Untagged(assets, t)
  /\ files' = [f \in DOMAIN files \ {r.file : r \in Range(assets')} |->
                 files[f]]
  /\ UNCHANGED buffer

\* purge without a tag.
PurgeAll ==
  /\ assets' = << >> /\ files' = << >>
  /\ UNCHANGED buffer

Positions(f) == {k \in DOMAIN assets : assets[k].file = f}
FirstPosition(f) == CHOOSE k \in Positions(f) : \A m \in Positions(f) : k <= m

\* Mutant: the record stays as it is.
Delete_IndexOnly(f) ==
  /\ files' = [g \in DOMAIN files \ {f} |-> files[g]]
  /\ UNCHANGED <<assets, buffer>>

\* delete: out of the index, and the first record of that name is blanked.
Delete(f) ==
  /\ files' = [g \in DOMAIN files \ {f} |-> files[g]]
  /\ assets' = IF Positions(f) = {} THEN assets
               ELSE [assets EXCEPT ![FirstPosition(f)] = Blank(f)]
  /\ UNCHANGED buffer

Tag(requests) ==
  /\ Become(FoldLeft(Retagged, Store, requests))
  /\ UNCHANGED buffer

\* Mutant: the index is kept over an upgrade, but not rebuilt.
Upgrade_NoIndex ==
  /\ UNCHANGED assets
  /\ files' = << >>
  /\ buffer' = << >>

\* backup saves the records, the constructor restores them; the index is
\* built again and the buffer starts empty.
Upgrade ==
  /\ Become(Restored(assets))
  /\ buffer' = << >>

Next ==
  \/ \E bytes \in Uploads : Upload(bytes)
  \/ \E f \in Files, tags \in SUBSET Tags : UploadFinalize(f, tags)
  \/ UploadClear
  \/ \E t \in Tags : PurgeTagged(t)
  \/ PurgeAll
  \/ \E f \in Files : Delete(f)
  \/ \E requests \in TagRequests : Tag(requests)
  \/ Upgrade

Spec == Init /\ [][Next]_vars

-----------------------------------------------------------------------------
\* Properties.

TypeOK ==
  /\ assets \in Seq(Records)
  /\ DOMAIN files \subseteq Files
  /\ \A f \in DOMAIN files : files[f] \in 1 .. MaxAssets
  /\ buffer \in Seq(Chunks)

\* What a search by tag finds is what its filename serves: the manifest of a
\* token links to /assets/<filename> for the records its tags find.  In
\* particular no search finds two records of one filename.
FoundIsServed ==
  \A k \in DOMAIN assets :
    assets[k].tags # {} =>
      /\ assets[k].file \in DOMAIN files
      /\ files[assets[k].file] = k
=============================================================================
