# The Saga Legends NFT canister in TLA+

This directory specifies the canister of this repository (`src/main.mo` and
the modules it is built from), the client it serves (`client/src/app.tsx`) and
its end-to-end test (`node`), and checks them: TLA+ modules translated from the
Motoko and TypeScript source, TLC configurations that explore small instances,
and proofs checked by TLAPS that hold for every instance.

The core, the **marketplace** and its **disbursement queue** (`src/Entrepot`),
**minting** and the **shuffle** of the legends (`src/Tokens`), the **asset
store** (`src/Assets`), the **end-to-end test** and the **client** are modelled,
checked and proved about: every invariant and every refinement that a passing
run checks is also a theorem. What is left is planned below.
Line numbers without a file name are those of `src/Entrepot/lib.mo`.

## 1. The system

### Components

| Component | State it keeps | Operations that change it | Talks to |
|---|---|---|---|
| `Entrepot` (marketplace) | `listings`, `pendingTransactions`, `transactions`, `nextTxId`, `nextSubAccount`, `totalVolume`, `lowestPriceSale`, `highestPriceSale`, `pendingDisbursements` | `list`, `lock`, `settle`, `cronSettlements`, `deleteListing`, `restore` | `Tokens` (owner check, transfer), `NNS.balance` (await), `Cap.insert` (await), itself (`await settle`, `await _canSettle`) |
| `Entrepot` (disbursements) | `pendingDisbursements`, `pendingCount`, the `failed` list local to each `cronDisbursements` | `cronDisbursements`, `deleteDisbursementJob`, `_addDisbursement` | the ICP ledger (await) |
| `main` | the stable copies of everything, `s_heartbeatOn`, `s_heartbeatIntervalSeconds`, `s_heartbeatLastBeat` | `heartbeat`, `preupgrade`, `postupgrade`, `heartbeatSwitch`, `heartbeatSetInterval`, `init`, `configureNri` | all of them |
| `Ext` | none | `transfer` (`approve` and `allowance` are disabled) | `Entrepot._getListing`, `Tokens.transfer`, `Cap.insert` |
| `Tokens` | `ledger`, `metadata`, `isShuffled` | `mint`, `_mint`, `transfer`, `configureMetadata`, `shuffleMetadata`, `restore` | `Random.blob` (await), `Cap.insert` (not awaited) |
| `Admins` | `admins` | `addAdmin`, `removeAdmin` | asked by every admin call |
| `Assets`, `Buffer` | `assets`, `files` (filename -> position), `buffer`, `colors`, `stockColors` | `upload`, `uploadFinalize`, `uploadClear`, `purge`, `delete`, `tag`, `configureColors`, `configureStockColors`, `restore` | read by `Http` |
| `Bazaar` (launchpad) | none | `launchpadMint`, `withdrawAll`, `launchpadEventCreate`, `launchpadEventUpdate` | `Tokens.mint`, the launchpad canister (await) |
| `NNS` | none | `transfer` (admin) | the ICP ledger; `Hex`, `CRC32`, `SHA224` code account identifiers |
| `PublicSale` | `purchases`, `refunds` | `restore` (deprecated) | – |
| `Http` | `nri` | `updateNri`; otherwise queries | `Assets`, `Tokens`, `Entrepot` |
| `Integrations/Stoic` | – | not wired into `main.mo` | – |
| `client` | what has been loaded, the card's side, the pointer, performance and density, permission, toast and listeners | loading, clicks, pointer, frames, permission requests | `Http` (requests), the browser |
| `node` (the sale test) | a key file; the progress and verdict of each user | `mint`, `list`, `lock`, `pay` for every user at once; polling; `verifyBalance` | the canister, the ledger |
| `zsh`, `config`, generated declarations | – | scripts, data, types | – |

### How it runs, and what is hard about that

A canister runs one message at a time. An update call is cut into messages at
each `await`; between two messages of one call any message of any other call may
run, and everything the first message checked may have changed. A message that
traps is undone, but what earlier messages of its call did is not. Other
canisters (ledger, Cap) answer late, in any order, or the system rejects the
call for them. Time passes between messages: a lock has a deadline two minutes
after it was taken. The heartbeat starts the two crons again although an earlier
round may still be awaiting something. An upgrade keeps what `toStable` names
and nothing else.

A sale takes at least four calls of three parties: the owner's `list`, the
buyer's `lock` (three or more messages) and ledger transfer, and a `settle`
(buyer, heartbeat, or a later `list` or `lock` of the same token, each on its
own), then a round of `cronDisbursements` for each of three payouts. What must
hold of each component:

- *marketplace*: one payment address, one order; no sale unpaid, none below
  price, none twice, none by someone who does not own the token; who pays in time
  gets the token; payouts never exceed the payment; finalized sales stay on
  record;
- *disbursements*: a job is in one place, is done once, and is done in the end;
  the two numbers operators poll say when everything is done;
- *Tokens*: a minted token keeps its metadata, is minted once, and the supply is
  a bound;
- *Admins*, *main*: there is always an admin, and an upgrade always succeeds and
  loses nothing;
- *Assets*: the filename index and the assets agree; a purge removes exactly what
  it is asked to;
- *Bazaar*: what the launchpad is told is available can be minted;
- *Http* and *client*: what a manifest links to can be loaded, what is shown is
  the token's legend, a page that suspends goes on or fails, and the card comes
  to rest where the user left it;
- *sale test*: what it prints about a user's payment is true.

The hazards this gives, each at its line, are in `PROJECT.json` with the
properties that watch them.

## 2. The modules

| Module | What it is |
|---|---|
| `Entrepot` | the marketplace, one action per message |
| `NftSale` | what the marketplace promises, without locks, deadlines, calls or queues |
| `EntrepotOrderly` | the marketplace when calls on a token do not get in each other's way, and what it keeps then |
| `EntrepotProofs` | proofs of the invariants of `Entrepot`, and that it implements `NftSale` |
| `Disbursements` | the queue of ledger transfers and its workers |
| `Payouts` | the queue fed by sales, and its properties |
| `PayoutsProofs` | proofs that no job is lost, done twice or dropped |
| `Tokens` | ledger and legends: mint, shuffle, configure, transfer |
| `TokensProofs` | proofs about minting and shuffling |
| `Assets` | the asset store: records, index, upload buffer |
| `AssetStore` | what the asset store promises: a page per file |
| `AssetsCareful` | the asset store as careful admins use it, and its refinement |
| `AssetsProofs` | proofs that records and index agree, and that they implement `AssetStore` |
| `SaleTest` | the end-to-end test, against the marketplace and the disbursement queue over one set of balances |
| `SaleTestProofs` | proofs that what the test prints is true, and that payouts fit |
| `Http` | what the canister answers to the client, over the asset store and the minted tokens |
| `Page` | how the client loads the page of a token |
| `Motion` | permission, toast, listeners, clicks, pointer and frames of the client |
| `CardGeometry` | the outline, texture coordinates and face groups of the card |
| `Client` | `Page`, `Motion` and `CardGeometry` together, and the canister that changes under them |
| `OrderlyProofs` | proofs of what an orderly marketplace keeps |
| `ClientProofs` | proofs about the client's listeners and toast, about the card, and about what it shows |
| `Sums` | lemmas about sums over queues and workers, and about induction |
| `MCEntrepot`, `MCEntrepotOrderly`, `MCPayouts`, `MCTokens`, `MCAssets`, `MCSaleTest`, `MCClient` | the instances TLC checks |

### Entrepot

Variables have the names of the code. `calls[c]` is the call in slot `c`: which
function it is (`op`), where it goes on (`pc`), and its arguments and local
variables. The messages of a call:

```
 list    List  ---------------+                     +--> ListResume / Refuse
                              v                     |
 lock    Lock  -----------> CanSettle --(nothing pending)--> LockResume / Refuse
                              |                     ^
                              v (await settle)      | CanSettleResume
 settle  Settle            SettleBegin              |
           |                  |                     |
           +------> BalanceReply / BalanceReject    |
                              |                     |
           SettleShort / SettleTrap / SettleCommit  |
                              |                     |
                      CapReply / CapReject ---------+
```

`CronSettlements` starts a settle for every pending transaction in one message
and awaits none. `Settle` is the call anyone may make. Reading the diagram
against the code: the owner and lock checks of `list` (525-532) are in `List`
and the write of the listing (543-557) is in `ListResume`; `lock` takes the next
subaccount and writes the lock (631-640) in `Lock` but puts the pending
transaction (653-665) in `LockResume`; `settle` reads the pending transaction in
its first message (688) and uses that copy after the ledger's answer (700-752).

Abstractions, each of data the properties do not tell apart:

- a principal with a subaccount is one member of `Accounts`;
- a lock, its payment subaccount and its deadline are one number, the value of
  `nextSubAccount`: deadlines are all the same time after the lock, so they pass
  in the order of the numbers, and `lapsed` says how far time has come;
- `lock`'s price argument has to equal the listing's (626) and is not kept;
- wrong callers, and token identifiers that do not decode, return before
  anything changes. So do `lock` and `settle` for an identifier of another
  canister (`_unpackTokenIdentifier`, 422); `list` and `_canSettle` read only its
  index (517, 375), so `List` has the argument `own`, whether it names this
  canister, and `SettleBegin` refuses a call that does not, whatever is pending;
- `await state._Nns.balance(...)` is a call to a function that calls the ledger:
  one wait, since nothing is read between the two;
- ledger fees, the two sale fees and truncation are the code's own numbers.

`offers`, `orders`, `deposited`, `inTime`, `sold` and `passed` are history
variables: the code does not keep them, and no action reads them in a guard (but `Pay`: a
buyer pays only to an address he was given).

`Upgrade` needs all calls to be over, as the Motoko runtime refuses to upgrade a
canister that awaits an answer. It keeps everything but `nextTxId`.

### NftSale, and the refinement

`NftSale` has five variables and five actions: an owner asks a price, a buyer
reserves an unused address for an offer, something is paid to an address, an
order is carried out (only paid, only by the seller it names, who must own the
token), an owner gives a token away. `Entrepot` implements it with its history
variables as the mapping: `SaleSpec` is `NftSale`'s specification of the same
variables, checked as a property of run `market`. It holds whatever calls
overlap: what the races below break is what buyers may count on, not who can
sell what.

### EntrepotOrderly

Several things one expects of a marketplace do not hold of this one, because it
checks before an `await` and acts after it. `Orderly` says which orders of
messages they need, one named conjunct each:

- `ListAlone`: no other call on a token while its owner's `list` is under way;
- `LockAlone`: no settle and no other lock on it while a `lock` is;
- `TransferAlone`: no EXT transfer of it while any call is, and nobody buys his
  own token;
- `Prompt`: no deadline passes while the lock that set it is under way, or while
  a settle has the ledger's answer to look at (else a payment that arrives after
  the ledger was read and before the deadline is dropped as lapsed);
- `HandsOff`: no admin deletes a listing.

Settles overlap freely: the heartbeat's, the buyer's and strangers'. Under
`Orderly` the properties of run `orderly` hold. The runs `list_race` and
`lock_race` leave out one conjunct and show what is lost.

An orderly market still has lists with an identifier of another canister. Once
the lock has lapsed, such a list goes past an order that is pending, even a paid
one, and may reprice or delist its token, which the owner can then give away.
`passed` remembers those orders. `InTimePaymentIsKept`, `SoldOnce` and
`FullyCovered` do not mind; `SellerOwns` speaks of all other orders, and
`PaidIsSold` lets such an order go unsold once its seller no longer has the
token. `PaidIsSold` also speaks only of prices that cover the ledger's fees.
Run `foreign_list` shows a list going past an order that was paid in time.

### Disbursements and Payouts

A worker is one call of `cronDisbursements`: it pops a job, awaits the ledger,
takes the answer and pops the next in the same message (`PopNext`), passing over
addresses that do not decode; jobs to retry are in its own `failed` list, which
it puts back before the queue when the queue is empty. `Payouts` adds the sales:
each pushes its batch once, and its subaccount holds what the batch costs, which
is what `FullyCovered` says `Entrepot` guarantees.

### Tokens

`main.mint` (admins) and `launchpadMint` (`src/bazaar`) await `Tokens.mint`,
which Motoko runs as a message of its own, so a mint is three messages: `Mint`,
`MintRun`, `MintReply`. `shuffleMetadata` is two, `ShuffleMetadata` with the
check of `isShuffled` and `ShuffleResume` with the loop; between them anything
may be minted, configured, transferred or shuffled. `Shuffled` is the loop with
the code's arithmetic: `_prng` multiplies and adds as a signed byte (so modulo
256, where its two numbers are 109 and 57) and takes the result modulo 100, which
is also the next state. `Cap.insert` is not awaited by a mint and not modelled.
An upgrade keeps everything here and finds no call in flight.

### Assets, AssetsCareful and AssetStore

A record is a filename, a set of tags and the chunks of its payload; `files` is
the index from filenames to positions (from 1 here). `Put` is `_putAsset`,
`PurgeTagged` is `purge` with a tag, with its callback as it is, and `Upgrade`
puts every record again, in order, into an empty store, as the constructor does.
`Untagged` is `filterSelf`, record by record.
A stale position in range is read and written as the code does; one out of
range traps on a read, and on a write the record is lost, or the message undone
(both are allowed: it depends on the version of `mo:base`).

The store does not keep its promises under every use. `AssetsCareful` says which
it needs: a purge by tag is followed by an upgrade (or a full purge), and a file
deleted and uploaded again is not deleted again before an upgrade. Then it
implements `AssetStore`, a function from files to pages. The mapping takes the
*last* record of a filename; a blank record is no page. A page that was deleted
may come back as an empty one when tags are set on it after an upgrade
(`AssetStore!Retag`), since an upgrade puts blank records back into the index.

### SaleTest

`SaleTest` extends `EntrepotOrderly` and instantiates `Disbursements`, with
`pendingDisbursements` and `balance` shared: a settle reads a balance that a
worker may be taking from. Each user of `node/marketplace.spec.ts` has a slot in
`Calls` and goes `Mint`, `ListToken`/`Listed`, `LockToken`/`Locked`, `PayOrder`,
all users at once (`Promise.all`, 19). The helpers of
`node/actors/legends.ts` pass over most errors: a failed mint makes the token
`NaN`, which encodes as token 0; errors of `list` and of the ledger transfer are
ignored; an error of `lock` makes the address undefined, on which `pay` throws.
`key` is what `node/agent.ts` reads from `keys.json`: a user's name is drawn at
random and names its key, so two users may have one. The addresses of the test
all decode. `Heartbeat` starts a settle for every pending order whatever is in
flight, so settles of one order overlap, and one may read a balance while
workers take the payouts of another from it. No settle, the heartbeat's
included, overlaps a list or lock of its token, though: `ListAlone`, `LockAlone`
and `Prompt` are part of the specification, and the code does not enforce them
(the races of section 3 are what happens without). When all users are done the
process polls the queue size and then the pending count to zero
(`PollQueueSize`, `PollPendingCount`) and reads each address (`VerifyBalance`).

Two things one learns by writing it down: the test passes *before* it verifies
anything (one that prints `ERR!` does not fail), and it prints `OK!` for a user
who could not pay at all, whose address is empty, too. `OkMeansPaidOut` and
`ErrMeansUnsettled` say what its words do mean.

### Http, Page, Motion, CardGeometry and Client

`Http` is the part of `src/Http/lib.mo` the client asks: `GetPage`,
`GetManifest` and `GetAsset`, each of one state, since they are queries.
`IfMinted` answers for a token that is not minted with the blank asset (and
status 200). `Manifest` fails if any texture but the mask, or one of the three
previews, is missing; its still preview is looked for with five tags (261) but
served under seven (654), so the link in a manifest may lead nowhere.

`Page` loads: app, manifest, and the textures in the order in which the
components ask for them, each under the filename the manifest gave
(`suspend`, `useLoader`). The app has no error boundary, so anything that is
thrown, a lost request or a response that is no image, unmounts it all
(`stage = "crashed"`).

`Motion` is what lives while the page is open. `useStore` is called by `App` and
by `LegendCard`, and each call makes a store of its own, again on every render;
so the permission that `requestPermission` stores is never rendered. App's
effect asks once and opens the toast unless the permission is granted; a tap on the
toast asks again (`Answer`, in any order and at any time, also after the app has
unmounted). `Frame` draws with the `flip` of the last render and the pointer of
now, and follows the performance as it was when the frame began; any frame may
be slow, the first too, which counts from the creation of the canvas.
Two clicks before a render are one, as both negate the `flip` of that render.

`CardGeometry` has the two computations on the mesh: `getDimensions` and
`generateTopUV`, which look only at the points where the curves of the outline
start, and the loop that breaks the mesh into one group per face. (The y of an
`offset` would be taken from `offset[0]`; no caller gives one.)

`Client` puts them over an asset store that careful admins change and a
canister that mints. `Edit` has every operation of `AssetsCareful`: upload,
clear, finalize, delete, tag, and both purges. So a file may have tags and no
content (`Hollow`): an empty buffer was finalized, or the file was deleted, the
canister upgraded, which puts the blank record into the index again, and
`assetsTag` gave it tags. A manifest links to such a file, and the page crashes
on it: `CrashIsExplained` names it among the causes. The tilt of the
accelerometer is left out: the card reads it at a render, never in a frame.

## 3. The runs

| Run | Configuration | States | Shows |
|---|---|---|---|
| `market` | `MCEntrepot.cfg` | 1,288,656 | `TypeOK`, `UniquePaymentAddress`, `PaidInFull`, `SaleSpec` hold in every interleaving |
| `orderly` | `MCEntrepotOrderly.cfg` | 304,910 | `InTimePaymentIsKept`, `SoldOnce`, `SellerOwns`, `FullyCovered` and, under fairness, `PaidIsSold` hold of orderly calls |
| `payouts` | `MCPayouts.cfg` | 4,252 | `EveryJobInOnePlace`, `DrainedMeansDone`, `NothingIsDropped` and, under fairness, `EveryJobIsPaid` |
| `assets` | `MCAssets.cfg` | 9,612 | `TypeOK`, `ServedUnlessPurged` and `StoreSpec` (the refinement) hold of careful use |
| `tokens` | `MCTokens.cfg` | 14,655 | `TypeOK`, `MintsAreAnsweredOnce`, `SoldOutIsFinal`, `LegendsAreComplete` hold in every interleaving |
| `sale_test` | `MCSaleTest.cfg` | 139,128 | `OkMeansPaidOut`, `ErrMeansUnsettled`, `PayoutsFit` and, under fairness, `ServedToTheEnd`: marketplace, queue and test together |
| `client` | `MCClient.cfg` | 119,049 | `CrashIsExplained`, `ShownIsTheLegend`, `ListenersComeAndGo`, `NoToastOnceGranted`, `GroupsAreTheFaces`, `ArtFillsTheCard` and, under fairness, `PageEnds`, `SharpAgain`, `CardSettles` |
| `list_race` | `MCListRace.cfg` | violation | without `ListAlone`, `InTimePaymentIsKept` fails |
| `lock_race` | `MCLockRace.cfg` | violation | without `LockAlone`, `SellerOwns` fails |
| `transaction_ids` | `MCTransactionIds.cfg` | violation | `SalesAreRecorded` fails after an upgrade |
| `foreign_list` | `MCForeignList.cfg` | violation | `ListsSettleFirst` fails of a list with an identifier of another canister |
| `shuffle_twice` | `MCShuffleTwice.cfg` | violation | `LegendsAreFinal` fails when two shuffles overlap |

Every property of a passing run has a mutant in `PROJECT.json`: a plausible bug
in the code, defined next to the operator it replaces, that makes TLC find the
property violated.

### What the violations show

- **list_race** (530, 535, 543). The owner calls `list` with no price; it checks
  that the token is not locked and awaits `_canSettle`. A buyer's `lock` runs to
  the end. `list` goes on and deletes the listing, with the lock on it. The next
  settle finds too little money and an unlocked token and drops the order; the
  buyer then pays, within the two minutes, to an address nobody looks at.
- **lock_race** (633, 643, 653). A settle of an old order is awaiting the ledger;
  the order lapses, a new buyer's `lock` begins, the old order is paid late, and
  the settle commits just before `lock`'s `_canSettle`, which finds nothing
  pending and answers `#ok`. The new buyer is told to pay for a token that was
  just sold; that order can only trap.
- **transaction_ids** (64, 723). `nextTxId` is not saved by an upgrade, so the
  next sale gets id 0 again and overwrites the record of the first.
- **foreign_list** (517, 375, 679, 534). A buyer locks and pays in time. After
  the deadline the owner calls `list` with the token's index under the principal
  of another canister. `_canSettle` finds the order and awaits `settle`, which
  refuses the identifier; `_canSettle` takes the error for nothing to settle,
  and `list` writes its price or deletes the listing. Delisted, the token can be
  transferred, and then every settle of the paid order traps at 749.
- **shuffle_twice** (`Tokens/lib.mo` 173, 175). Two calls pass the check before
  either has its random blob. The first shuffles, a token is minted, and the
  second shuffles again: the owner's legend changes.

### What else the code does

Met while modelling; the models have it so, and no document of the repository
says otherwise.

- The callback of a purge by tag deletes the filename of every record that
  *stays* from the index (`Assets/lib.mo` 237, `Buffer.mo` 40-47). Such a record
  is still found by its tags, and linked to by the token manifests, but
  `/assets/<filename>` does not find it until the next upgrade: the reason for
  `~purged` in `ServedUnlessPurged`.
- When `Cap.insert` is rejected (755), the caller of `settle` is told of an error
  although the sale was committed: `ignore` drops a result, not an error
  (`CapReject`). A `list` or `lock` that awaits it fails likewise.
- `shuffleMetadata` of metadata that was never configured traps (`Tokens/lib.mo`
  182), since its loop ends at index 1 (`Fail`).
- The upload buffer is one for all: the chunks of two uploads that overlap end
  up in one asset. `AssetStore` has the one buffer, too.
- A price below 30,000 e8s can be listed, locked and paid, but
  `balance.e8s - 30_000` (710) underflows, so every settle traps, the order
  stays pending for ever, and `list` and `lock` of that token trap with it. That
  is why `PaidIsSold` and `ServedToTheEnd` speak of prices that cover the fees.
- A settle that finds too little money and no lock drops *whatever* order is
  pending (703). The settle of an order that has lapsed, if it is slow, drops
  the next buyer's.
- All randomness of the shuffle is one byte (`Tokens/lib.mo` 162-165, 187).
  After its first step there are only 100 states, which go round in cycles of 4,
  8 or 12, so there are at most 100 orders: from a supply of 101 on, as the
  canisters in `config` have, no legend can reach every token.
- `lowestPriceSale` starts at 0 and only falls (739), and `stats` takes a floor
  of 0 for no listing (579).
- `removeAdmin` may remove the last admin; then the assertion of the constructor
  makes every upgrade trap.
- `preupgrade` compares the ledger with the `supply` of the code that is
  leaving, so its branch for a supply that "has increased" is never taken.
- A grant of the motion permission that comes after the app has unmounted binds
  a listener that nothing removes (`late` in `Motion`).

### Bounds, and why they are enough

One token, one seller, one buyer, two calls in flight, two locks. All state of
the marketplace is per token except the counters and the queue, and every race
is between two calls; two locks are what it takes for one order to come in the
way of the next (and, with an upgrade, for an id to be used twice). `market` has
a price of 40,000 e8s (the one of `node/marketplace.spec.ts`) and payments of
30,000 up to 60,000, so an order is paid in two parts and in excess; `orderly`
has a price below the fees (20,000) and one above, paid at once or in parts.
`market` restricts owners and admins to step in between two calls
(`MCEntrepot!Bounded`), which keeps it within minutes; `orderly` and the races
have their own restrictions. In all of them a list has an identifier of another
canister only if an order is pending, for without one (and without a lock that
overtakes it) it does what any list does; the theorems have no such bound. The
calls of `market` are interchangeable, so it uses symmetry, and its
`VIEW` leaves out `passed`, which no action reads; the runs with liveness use
neither. `payouts` has two workers
and two sales of two jobs; one of the addresses never decodes, and two jobs
differ in their subaccount only, so that a deletion can match both. `tokens` has
three tokens, two calls, and the seeds that give each order of three legends
once. `assets` has two files, two tags and up to four records: a record that
goes and one that stays, a position that moves, a blank before a new record.

`sale_test` has two users and *one* token, so one mint fails and both go for
token 0; the users are interchangeable, so the first has the first key. Of
the prices one is below the fees and one above, one call may be refused
(`MaxFaults`), and there is one worker (two are in `payouts`). The heartbeat has
two slots for settles; it takes the second when the settle in the first has been
told of a payment and nothing was refused (`MCSaleTest!SecondSlot`), so that the
first may sell, and the worker pay out, while the second is at any of its
messages; the theorem needs no such bound. `ListAlone`, `LockAlone` and `Prompt` hold, since without them the races above
are what one finds. `client` has two tokens, one minted, of which one has a
mask; two operations of admins (and any upgrades: a deletion, an upgrade and a
tag on the blank record among them), one lost request, two slow frames and three touches
of the card (`MCSpec`: the canister changes only while the page still reads it,
and the user touches the card when no answer is awaited, so that the two halves
do not multiply). Three touches are a click, a second one before the render, and
a move. The mesh has three vertices to a lid and six to the wall; the card is
the code's 2.75 by 4.75 with corners of .125, in eighths.

`CHECK_DEADLOCK FALSE`: with all locks handed out, everything paid and settled,
nothing need happen, as in the real canister.

### Fairness

`PaidIsSold` assumes that the canister takes the messages in its queue (`WF` of
`Step`), that the ledger answers a balance call that is made again and again
(`SF`), and that the heartbeat goes on (`SF` of `CronSettlements`: the
model's slots for calls may all be in use now and then, which the canister's are
not). The platform delivers every reply or reject, and runs the heartbeat every
round; an admin who switches it off (`heartbeatSwitch`) gives up the property.
A call to Cap is answered or
rejected; the sale is carried out before Cap is told. `EveryJobIsPaid`
assumes the same of the workers and that the ledger, asked again and again,
carries a transfer out; nothing is assumed about buyers, owners or admins.
`ServedToTheEnd` assumes all of these together, and nothing of the users or of
the process of the test, which may stop anywhere.

The client's liveness assumes that a request is answered or lost, that React
renders what has changed, that the browser draws frames while the card is there,
and that the timer of the debounce fires; nothing of the user, the network or
the canister.

## 4. The proofs

### The marketplace

`EntrepotProofs` proves for every number of tokens, accounts, prices, calls and
locks (assuming `MarketAssumption`: prices and payments are natural numbers,
`None` is none of the other values):

| Theorem | Property |
|---|---|
| `TypeCorrect` | `TypeOK` |
| `AddressesAreUnique` | `UniquePaymentAddress` |
| `SalesArePaid` | `PaidInFull` |
| `Refinement` | `SaleSpec` |

`Inv`, their conjunction, is inductive. The three need each other:

- `PaidInFull` speaks of finalized transactions. A settle finalizes its own copy
  of a pending transaction against a balance it was told in an earlier message;
  so the invariant has to say of every call in flight that the balance it was
  told has been deposited on its transaction's subaccount, and that the
  transaction is the order of that subaccount (`UniquePaymentAddress`).
- That the pending transaction a `lock` puts disturbs no other order needs its
  subaccount to be unused when the *last* message of the call runs, while the
  counter was read in the first: so `UniquePaymentAddress` says of every lock in
  flight that it alone holds its number.
- Payments only add to `deposited`, so what was enough stays enough.

`MoveCall` is the lemma for a message that only moves its call forward,
`SideStepKeepsInv` the one for steps that no transaction, order or call depends
on; the other lemmas are one per action, with one step per conjunct of `Inv`.

`Refinement` needs one more invariant, `AskedFor`: a listing, and what a `list`
or `lock` in flight holds of one, is something an owner of the token asked for.
`lock` makes an order of what it read from a listing that may be gone by then;
the offer it came from is not. With it, a `List` with a price is `Ask`,
`LockResume` is `Reserve`, `Pay` is `Deposit`, `SettleCommit` is `Sell` (the
order was paid by `PaidInFull`, and `Tokens.transfer` has asserted the owner),
`Transfer` is `Give`, and every other message leaves `NftSale`'s state alone.
The run `market` restricts when owners and admins may step in; the theorem does
not.

### The orderly marketplace

`OrderlyProofs` proves of `OrderlySpec`, for every number of tokens, accounts,
calls and locks:

| Theorem | Property |
|---|---|
| `PaymentsAreKept` | `InTimePaymentIsKept` |
| `OrdersSettleOnce` | `SoldOnce` |
| `OwnersSell` | `SellerOwns` |
| `OrdersAreCovered` | `FullyCovered` |

None of the first three is inductive by itself, as each depends on what calls in flight know of
their token. `OInv` says it: a listing is the owner's, a pending order too,
unless a list went past it, and before its deadline an order has the lock on the
listing (`Offered`, `Open`); what a list went past is past its deadline
(`Kept`); a list or a lock in flight is alone on its token (`Alone`) and still
right about it (`ListRight`: the token is not locked and, after its settle,
nothing is pending, unless the identifier was another canister's; `LockRight`:
the lock's number is on the listing, an older order has lapsed and,
after the awaited settle, is known to be unpaid); and every settle in flight has
read the order that is still pending or already sold, and was told enough if it
was paid in time (`SettleRight`, `Agreed`). Settles of one token may overlap as
they like: the first to commit makes the buyer the owner, at which the others
trap. Each conjunct of `Orderly` is used: `ListAlone` and `LockAlone` for
`Alone`, `TransferAlone` and `HandsOff` for the owner and the listing, `Prompt`
for a settle that has the ledger's answer. `MoveOrderly` is the lemma for
messages that only move their call, `TokenOrderly` for those that change one
token. TLC checked `OInv` on the instance of run `orderly` first.

`OrdersAreCovered` adds up a queue. `Covered(s)` is its invariant: the queued
jobs of an address cost at most what the address holds, and nothing before its
order is sold. It needs `SoldOnce` (a second settle would push the shares
again) and the arithmetic of `settle`, which takes the ledger's fees for three
transfers and the two sale fees, each truncated, from a balance read before.

### Sums and inductions

The provers cannot use an induction theorem that takes an operator, and they
know nothing of `SumFunction`, with which the models add up a queue. `Sums`
gets around both. An induction is done on a *set* of numbers, which needs no
operator: one that has 0, and with a number also the next, has every number
(`SetInduction`, from the library's well-foundedness of `<`), and each use
supplies a set of its own. A sum of natural numbers is the number of its units:
`Units(f, S)` has, for each `x` in `S`, the pairs of `x` and the numbers up to
`f[x]`, and `SumIsUnits` says that the community modules' fold counts them. So
what happens to a sum when one term changes (`SumChanged`) or the terms are
renamed (`SumRenamed`) follows from the theorems about cardinalities.
`Weight(queue, rate)` is the sum of the rates of a queue's jobs, and the last
lemmas say what it is of two queues in a row, of one in another order, and of
its parts.

### Disbursements and Payouts

`PayoutsProofs` proves of `PayoutSpec`, for any sales, batches of jobs, workers
and addresses that do not decode (assuming `PayoutsAssumption` and
`DisbursementAssumption`):

| Theorem | Property |
|---|---|
| `EveryJobIsInOnePlace` | `EveryJobInOnePlace` |
| `DrainedIsDone` | `DrainedMeansDone` |
| `NothingIsEverDropped` | `NothingIsDropped` |

One observation carries all three. Give every job a weight, whatever it is.
What the jobs in the queue, in the workers' hands and in their failed lists
weigh together, `Open(rate)`, changes only when a job is paid or deleted, or a
sale is made: the pop of the next job, one passed over because its address does
not decode, a failed list put before the queue, or two workers doing so one
after the other leave it alone. With weight 1 for one job and 0 for all others
(`Only(job)`) it counts that job, which is what the first two theorems need;
`DrainedMeansDone` needs besides that `pendingCount` is the number of workers
that await an answer. With the costs of the jobs of one sale (`Costs(s)`) it is
what that sale still takes from its subaccount, and the balance covers it. A
worker's own job is part of the sum (`AskingIsCovered`), so the ledger never
answers `InsufficientFunds` to it, whatever the others have taken.

### The end-to-end test

`SaleTestProofs` proves of `TestSpec`, for any number of users, tokens, workers,
overlapping rounds of the heartbeat and faults, and whatever keys coincide, as
long as no settle overlaps a list or lock of its token (assuming
`SaleTestAssumption` with those of the modules it is built from):

| Theorem | Property |
|---|---|
| `OkIsTrue` | `OkMeansPaidOut` |
| `ErrIsTrue` | `ErrMeansUnsettled` |
| `PayoutsAlwaysFit` | `PayoutsFit` |

The marketplace under the test is orderly, so its invariant `TInv` begins with
`Inv` and `OInv`, whose proofs are used again: the marketplace's part of a step
keeps them, and the other parts do not touch them, but for the balance. To that
comes what ties the three together:

- the users to their calls (`Slots`): the call in a user's slot is the one its
  helper awaits, and no two users have one address. Everyone asks one price, and
  an address holds nothing or that price until its order is sold (`Trade`,
  `Deposits`), so a balance that is enough, read by a settle that then sells, is
  all the order got; a settle that read it while workers were taking from it is
  not the one that sells. The test lists with identifiers of this canister, so
  `passed` stays empty;
- the sales to the queue (`Owed`): from the sale on, the jobs still open for an
  address cost *exactly* what it holds. Before, both sides of that equation are
  something else, and a settle turns one into the other, as the shares of a sale
  and the ledger's fees add up to the balance. So an empty address has no open
  jobs, and each of the three is paid (`Shared`): that is what `OK!` means;
- the process to the queue (`Drained`): the process sees the queue empty first
  and the count at zero after it. In between no job comes back from a worker,
  as none has failed (`Faultless`), so a settled address has no jobs, and by
  `Owed` nothing left; a user who is printed `ERR!` was not settled then.

TLC checked `TInv` on the instance of run `sale_test` first, on all its states.

### Tokens

`TokensProofs` proves of `Tokens!Spec`, for every supply and every number of
calls, assuming `TokensAssumption` (the supply is positive, and `None` and
`NoSupply` are no accounts or indexes):

| Theorem | Property |
|---|---|
| `EveryMintAnsweredOnce` | `MintsAreAnsweredOnce` |
| `SoldOutIsTrue` | `SoldOutIsFinal` |
| `TokensTyped` | `TypeOK` |
| `NoLegendIsLost` | `LegendsAreComplete` |

`Inv`, the first two with the type of the ledger, is inductive: `Tokens.mint`
picks a token nobody owns, so no call holds it and no caller was given it, and
from then on one call holds it until one caller is given it.
`NextMintIndexIsRight` is the fact about `_getNextMintIndex` it rests on, from the
least element of a set of natural numbers.

`LegendInv` says that the legends are a permutation of the configuration. The
loop of the shuffle is a recursive function of the number of turns, so the
proof is an induction over them (`Turns`): each turn swaps two positions, or
passes over a minted one, which leaves the count of every legend as it was
(`SameLegends`). That the two positions are positions is arithmetic on the
code's numbers: `_prng` answers less than 100, and the random index it is scaled
to is below the index of the turn (`RandomIndexFits`).

### The asset store

`AssetsProofs` proves of `CarefulSpec`, for any files, tags, chunks, uploads and
bounds (assuming `AssetsAssumption`):

| Theorem | Property |
|---|---|
| `StoreTyped` | `TypeOK` |
| `SearchesAreServed` | `ServedUnlessPurged` |
| `StoreRefinement` | `StoreSpec` |

The invariant, `CInv`, says that unless the index is wrong after a purge by tag
the store is `Sound`: the index names the *last* record of each of its files,
and every record it does not name is blank. The second half is what
`ServedUnlessPurged` needs; the first is what makes an operation on the record
that the index names one on the page of the refinement, `LastPage`.
`PutKeepsSound` says so of `_putAsset`: it changes the page of its own record's
file and no other.

`restore`, `assetsTag` and `filterSelf` are folds over the records, which
the models write with the fold of the community modules: a recursion over sets
of positions, from the greatest down. `FoldValues` shows that there is such a
recursive function for any step (by induction over the bound of the positions),
and `RestoredSteps`, `TaggedSteps` and `UntaggedSteps` that on the positions
`1 .. k` it does `k` steps. The inductions over those are the heart of the
proofs:

- `RestoredKeepsPages`: *whatever* the records are, putting them one after the
  other into an empty store gives a sound one in which every file has the page
  it had. So an upgrade repairs what a purge by tag did to the index, and keeps
  all pages also then;
- `UntaggedPages`: filtering takes away the pages with the tag and no other. It
  needs `Sound`: if the last record of a file goes, the ones before it are
  blank (`EarlierIsBlank`), so no older page comes to light;
- `TaggedKeepsPages`: the pairs of an `assetsTag` amount to one `Retag`, in
  which the last pair of a file counts.

`DeleteStep` uses the proviso of `AssetsCareful` that the file has at most one
record: with a blank one before it, the first record is not the one the index
named.

### The client

`ClientProofs` proves of `ClientSpec`, for every set of records, tags, tokens and
legends that `ClientAssumption` allows, every number of changes, losses and
touches, and every order of answers:

| Theorem | Property |
|---|---|
| `CrashesAreExplained` | `CrashIsExplained` |
| `LegendIsShown` | `ShownIsTheLegend` |
| `ListenersMatch` | `ListenersComeAndGo` |
| `ToastIsNeeded` | `NoToastOnceGranted` |

The first two join the page to the store. `PageInv` says that as long as
the assets are those the manifest was made from, every file it links to has a
record with tags (`Links`), and what was loaded is that record (`CacheIsRight`).
From the manifest to a texture the browser goes through two look-ups: by tag,
which gives a filename, and by filename, through the index. `ServedIsRecord`
says that they meet in a sound store, so the page needs the store's `CInv`: the
edits are operations of `AssetsCareful`, whose proofs are used again. What is
served then has tags, and content unless the file is `Hollow`. TLC checked this
invariant on the instance of run `client` first, and `CInv` on that of
`assets`.

For the other two the invariant adds what the browser was asked: the effect's
request and the tap's are never open together, and while one is, there is no
toast.

Of the card it proves `GroupsAreRight` (`GroupsAreTheFaces`) for every number
of vertices, from an invariant of the loop (`GroupInv`: the group of a face
starts where the vertices of the faces before it end, and has those looked at so
far), and `ArtIsWhole` (`ArtFillsTheCard`) for every size of card and corner
that `GeometryAssumption` allows.

### What is only model-checked

Liveness (`PaidIsSold`, `EveryJobIsPaid`, `ServedToTheEnd`, `PageEnds`,
`SharpAgain`, `CardSettles`): fairness and `ENABLED` are beyond TLAPS. The runs
that expect a violation are TLC's alone, too.

## 5. The plan

What is left, in this order:

1. `Lifecycle`: `Admins` and the upgrade of `main`, with the backups and
   restores of the tokens and the marketplace (a backup of an earlier time sets
   `nextSubAccount` back) and the heartbeat's switch and interval: there is
   always an admin, an upgrade never traps and keeps every component's state.
2. The other paths of `Http`, checked against the table in the repository's
   README.
3. Proofs about the modules of 1.

## 6. Not modelled, and why

- Queries: they change nothing. That goes for `assetsRestore` too, which
  `main.mo` (422) declares a query: what it restores is gone when it returns,
  whatever the README's "drain and restore" says.
- The text of HTML, JSON and logs, and the hash functions of account identifiers:
  no property here depends on them.
- Limits of the platform: cycles, the length of a canister's output queue, the
  size of stable memory. A call the system refuses appears as a reject.
- `restore` of the marketplace and the tokens, `Admins`, `PublicSale` (deprecated
  in `main.mo`) and the heartbeat's switch: see the plan. `Integrations/Stoic` is
  not wired in.
- `client`: lights, colours, materials and the layout of the page; readings of
  the accelerometer. HTML is cached for a year, which is the browser's affair.
- `node/provision.spec.ts`, `client/vite.config.ts`, `zsh`, and the declarations
  generated from the canisters' interfaces: no state and no order of their own.
- `withdrawAll` reads a balance of the launchpad and transfers in a second call:
  both are the launchpad's, whose code is not here. `transfer` of EXT stores
  account identifiers in upper case, which `launchpadBalanceOf` compares
  exactly; accounts are model values here, without a case.
- A reply that is lost: the platform delivers every reply or a reject.
- The ledger, Cap and the launchpad are other canisters, modelled by the answers
  the code has to deal with.
