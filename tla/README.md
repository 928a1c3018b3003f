# TLA+ models of byom

byom is a personal music server: it scans directory trees, parses the audio files it finds and serves a
library to a web page. The Go process is one program with one SQLite database (transactions begin
`IMMEDIATE`, so each is one step in the models). The interesting part is what runs concurrently in it: scans
that rewrite file rows, a pool of workers that parses what the scans changed, requests that start, cancel and
watch scans, edit locations and read images, and stops of the process in the middle of all that. The web page is
one thread whose calls are answered late, in any order or not at all.

## 1. The system

| Component | State | Operations | Correct when |
|---|---|---|---|
| Parse queue store (`sqlite/parsequeue.go`) | columns `dirty`, `locked_generation`, `seen_generation` of `dirs` | `DirtyDirs` claims, `ReleaseDir`, `ReleaseAndRedirty`, `DirFiles` | a changed dir is parsed again; one claim per dir |
| Parse pipeline (`metadata/pipeline.go`) | channel of claims, wake token, per-dir failure counts, retry timers | `Wake`, dispatcher `pump`, worker `parseClaimed`, `releaseFailed` | wake-ups and retries are not lost, retries are bounded, locks are released |
| Scanner (`scan/scanner.go`) | `byLoc`, `byScan`, run contexts, `cancelling` | `Start`, `runScan`, `Cancel`, `Scan(s)`, `Shutdown`, `Recover` | one run per location; every record closes once; readers see a state that makes sense |
| Walk and sync (`scan/walk.go`, `scan/sync.go`) | walk frames, disc folders waiting for their album, channel of walked dirs | `walkPostOrder`, `discMerger`, `syncDir`, `computeChangeset` | a completed scan records the tree; a partial one takes nothing for missing |
| Scan store (`sqlite/scan.go`) | `scans`, `dirs`, `files`, `locations.scan_generation` | `BeginScan`, `FinishScan`, `SyncDir`, `Sweep`, `AbortRunningScans` | as above; `dirty` is never lost |
| Location store (`sqlite/location.go`) | `locations` | `Insert`, `Update`, `Delete`, guarded by running scans | no location moves under a scan |
| Importer (`metadata/importer.go`) | artist cache | `Import`, `internArtist` | one artist per normalized name |
| Parser and tags (`metadata/parser.go`, `tags.go`, ...) | none | files to albums, tags to fields | pure functions |
| Library store (`sqlite/library.go`) | albums, groups, tracks, credits | `ReplaceDirAlbums`, `promoteOrphanedPrimaries` | a dir is replaced in one step; rows that stay keep their ids; one primary version per group |
| Library reads (`sqlite/libraryread.go`) | none | keyset pages | a page sequence neither skips nor repeats rows that stay where they sort |
| Images (`images/store.go`, `sqlite/images.go`) | blobs and derivatives on disk, `known` cache, flights, index rows | `Add`, `Open`, derived sizes | a row has its blob; one id per hash; no half files |
| RPC servers (`rpc/`) | none | one call and a conversion each | pass-through |
| Web UI: monitor (`lib/rpc/scan-monitor.ts`) | shown scans, polls in flight, a timer | `poll`, `pokeScanMonitor`, visibility, start and stop | polling neither stops nor multiplies; a finished scan drops the cached library |
| Web UI: lists (`lib/pagination.ts`) | cached entries per filter set, signals of the list on screen | `loadMore`, key change, `clearListCache`, sentinel | a list is complete and of one library; loading ends |
| Process (`main.go`) | the signal context | start order, shutdown order | records and claims survive a stop |

Interactions: a scan's `SyncDir` sets `dirty` and then calls `OnDirty`, which is `Pipeline.Wake`. The dispatcher
claims dirty rows (clears `dirty`, sets `locked_generation` to the row's generation) and hands them to workers.
A worker reads the file rows, parses, imports into the library and releases the lock if it still holds that
generation. `BeginScan` clears all locks of its location, meant for workers of a dead process. The location
store refuses edits while a `running` record exists. Workers add covers to the image store, whose ids the library's rows link
and whose hashes the page requests. The page polls `ListScans` while scans run and, when the last one it showed ends, calls
`invalidateLibrary`, which clears the cache of lists. An interrupt cancels the pipeline's context at once, while
the server and then the scanner are shut down.

Hard to test, and what the properties aim at (`PROJECT.json` lists each at its line): a scan re-syncing a dir
whose parse is under way; a wake-up that meets a busy dispatcher; a release that races a later claim; stops
between claim and release; failing releases; starts, cancels and edits of one location at once; rows read before
and used after a run ends; trees edited under the walk; scans that end half way; images added and derived by several
callers at once; pages read while rows change; answers that meet a list, or a monitor, that has moved on.

## 2. Modules

| Module | Models |
|---|---|
| `ParseQueue` | queue columns, scanner writes to them, dispatcher, channel, workers, retries, process |
| `ParseQueueProofs` | TLAPS proofs about `ParseQueue` |
| `ScanRecord` | abstract: what the `scans` and `locations` tables promise |
| `ScanLifecycle` | scanner, location store, readers of a scan, process; implements `ScanRecord` |
| `ScanLifecycleProofs` | TLAPS proofs about `ScanLifecycle`, the refinement included |
| `DirSync` | walk, disc merging, change sets, `SyncDir`, `Sweep`, with the tree edited meanwhile |
| `DirSyncProofs` | TLAPS proofs about `DirSync` |
| `Library` | parse results to rows: the importer's artist cache under concurrent workers, `ReplaceDirAlbums`; implements `Catalog` |
| `Catalog` | abstract: what `ReplaceDirAlbums` promises of the `albums` and `tracks` tables |
| `LibraryProofs` | TLAPS proofs about `Library`: artists, their cache and the locks |
| `LibraryRowsProofs` | TLAPS proofs about `Library`: albums, tracks and covers, the refinement included |
| `ImageStore` | files, index and callers of the image store, with failing calls and stops |
| `ImageStoreProofs` | TLAPS proofs about `ImageStore` |
| `ScanMonitor` | the page's scan monitor, the cards and the shell that drive it, the server as `ListScans` shows it |
| `ScanMonitorProofs` | TLAPS proofs about `ScanMonitor` |
| `ListCache` | the page's infinite lists over the server's keyset pages |
| `ListCacheProofs` | TLAPS proofs about `ListCache` |
| `MC...` | the instance of each module for TLC, with symmetry where it is sound |

What one module takes from another: `ScanMonitor` names a scan by its location, since `ScanLifecycle` shows that a
location has at most one; `Library` lets no two workers carry one dir, which is `ParseQueue`'s `ExclusiveClaim`.

### ParseQueue
`dirs[d]` is the row (`seen`, `dirty`, `locked`; 0 is no row or NULL), `batch` the claims `pump` has not yet sent,
`queue` the channel `toParse`, `job`, `pc` and `snap` a worker in `parseClaimed`, `token` the channel
`dirtyNotify`, `timers` the pending `time.AfterFunc` calls. A file row's content is a version: `content[d]` is the
generation that last changed the rows of `d`, `imported[d]` the version the library was built from, so "the
library is current" is an equality. One action per statement or channel operation: `BeginScan`, `SyncDir`,
`OnDirty`, `ClaimBatch` (`DirtyDirs`), `Send`, `PumpDone`, `Awake`, `TimerFires`, `Take`, `ReadFiles`, `Import`,
`ParseFails`, `Release`, `ReleaseFailed`, and `Boot`, `Crash`, `Interrupt`, `Exit`. Under a cancelled context every
store call fails but the one in `releaseFailed`. Deletion of a location, which cascades to its dirs, is not in
this module. A failing `DirtyDirs` is retried by the code without effect and is a stutter here.

`reaped` and `gaveUp` are history: dirs whose lock a scan took from a live worker, and the generation at
which a dir was released clean after too many failures. They delimit what is true: the properties say "but for
reaped dirs", and `SettledIsCurrent` (a violation run) shows what happens to those.

### ScanLifecycle and ScanRecord
A request is one call of `Start` with its run and record. Steps follow the code's lock regions and transactions:
`Resolve` (location read, root fixed), `Claim` (under the mutex), `BeginScan`, `Register`, `Walk`, `Sweep`,
`FinishScan`, `Release`. `Cancel` is two steps, the look in the maps and the two stores; `GetScan` is two,
the row and the overlay. `Scans` and `cancellingScans` apply the same overlay row by row. The overlay's lookup and
its read of the `cancelling` flag are one step. A shutdown that exceeds its 30 seconds is a `Crash`.
`unclosed` is history: runs whose `FinishScan` failed.
`ScanRecord` has only `uri`, a scan's location and its state; the refinement mapping hides everything else and
treats a record as existing from `BeginScan` to the deletion of its location.

### DirSync
The tree is `onDisk` (directories) and `disk` (stat of the file at a path, for size and time). `stack` is
`walkPostOrder`'s recursion: a frame's `files` and `todo` are what `ReadDir` returned when the dir was entered,
and the stat of a file is taken later, by `Compare`, as in the code. There it fails for files that are gone, and may fail for any
others (`F`): `computeChangeset` marks such a file missing if it has a row and skips it if not, although it is there. `touched` and `left`
(history) count it as if it had been edited, or removed: what the properties say is of files that could be read. `pending` is the disc merger's map. The stats
of one dir are taken in one step. `SyncDir` and `Sweep` are transactions; an aborted walk may still write any of
the change sets already computed. The bounded channel and the number of sync workers are left out: any number
of walked dirs may wait and be written in any order. `Parse` is the whole pipeline in one step. Hidden files,
extensions and the disc name pattern appear as the sets `Name` and `Disc`. The dirs are any tree: `TreeType` says that
from every dir one gets to the root (a set of dirs that holds what its members are in holds the root), which rules out cycles
without an induction. `RemoveDir` takes a dir with all that is below it, as a removal outside the program may do in one go
between two steps of a walk.

### Library and Catalog
A worker takes a dir (`Parse`), builds its albums one by one (`NextAlbum`, and for a name not cached `Lock`, `Lookup`,
`InsertArtist`), then replaces the dir's rows (`BeginReplace`, one `PutAlbum` per album, `Commit`). `mu` is `Importer.mu` held for
writing; a section under the read lock is one step. `tx` is the open transaction: its rows are seen by nobody until
`Commit`, and it excludes every other writer. `ImportFails` is any store call that fails, and any cancelled context. A file
is its album tags; names are members of a set and `NormOf` is `NormalizeArtistName`, with `NoNorm` for names that
normalise to nothing. A group key is the pair it hashes (collisions of the hash are left out). Credits, and the columns that
only describe, are left out; a parse that cannot read a file looks like one that does not find it. No two workers
carry one dir, which is `ExclusiveClaim` of `ParseQueue`; the reaped claims that break it are `pq_stale_import`'s subject.
`orphaned` is history: groups from which the deletion of a location took the primary version.

`Catalog` has the rows of the tables (an album is its id, dir and group) and the calls of `ReplaceDirAlbums` under way. A call is
open while its worker's `pc` is `"albums"`: `BeginReplace` is `Call`, `Commit` is `Replace`, a failing call or a restart is
`Fail`, a deleted location `Remove`; `PutAlbum` and the building of albums are hidden. `Replace` says of the dir what the comment
of `ReplaceDirAlbums` does: its albums are those asked for, each with its files; rows match on dir and group, tracks on their
file; no other dir's row changes. Two spellings of one artist can ask for one album twice: then one of the two is left, with its
tracks (`Apart` is the condition that this does not happen). `ImplementsCatalog` adds that every `Commit` is a `Replace`, since in `Catalog` alone
a call might always fail.

### ImageStore
A caller is a goroutine in `Add` or `Open` (`op`, `path`, `pc`); an image stands for its bytes and so for its hash. `disk` says how much
of a file is under a path, `temp` how much of a caller's temp file is written. `writeFile` is `StatFile`, `WriteTemp`,
`RenameTemp`, shared by blobs and derivatives; `Upsert` is the statement, `Publish` the section under the lock. `JoinFlight`
is `singleflight` (a library: the first caller of a key runs, the others wait for its result). `Fail` is any file
operation or statement that returns an error, `Restart` any end of the process: memory goes, files and rows stay. A power
loss that undoes a rename is not modelled. `given` is history: the ids returned for an image.

### ScanMonitor
A step is what runs between two awaits. `polls` are the calls of `poll` in flight, each with the `previous` it read before its await;
`timer` is the armed timer that the variable names and `loose` those it was overwritten over. `Serve` is the moment the server
reads, so answers are late and overtake each other. `Click` is what a `LocationCard` offers for what is shown, `Return` the poke after a call.
`ListScans` reads one page of 50; the bound is above any set of locations. History: `started` (running scans whose start the page saw
succeed), `ended` (scans ended since the last invalidation), `cut` (a poll was rejected and none has begun since), `overlapped`.
Scans begin and end without bound. The two properties about their end have the premise `Ceases`, that from some moment on none runs,
since the code does nothing before the list is empty: while scans follow each other, of two locations in turn or of one between two
polls, no end drops the caches.

### ListCache
`entries` are the `Entry` objects, also those dropped from the cache that a fetch still holds; `items`, `loading`, `done`, `error` are the signals
of the list on screen; `fired` is what the sentinel's effect last saw of its condition. `Page` is the keyset query: a token holds the
sort key and id of the last row of its page as they were. `Edit` is what an import does to a row a list may show. The server's read is
part of `Receive`: an edit between the read and the answer cannot be told from one after it. History: `missed` (the list lost an
answer, or a call, to a fetch of another list), `strayed` (its key changed while it was loading), `epochs` and `touched` of an
entry. Lists mounted together share nothing, so there is one; scroll offsets are left out. A row's
id is a number from 1 to the number of rows, so that `Rank`, the token, orders by sort key and then id as the row comparison does, and
two rows never share a rank; `InOrder` is the `ORDER BY`: the sequence of the rows in which ranks increase.

## 3. Runs

All runs set `CHECK_DEADLOCK FALSE`: the models are bounded in scans, edits and stops and come to rest at the
bounds, and a stopped service is a legal state.

| Run | Bounds | Shows |
|---|---|---|
| `pq_faults` | 1 dir, 2 workers, 2 attempts, 2 scans, 1 stop, failing releases | `NoLostUpdate`, `ExclusiveClaim`, `IInv` (with `TypeOK`) |
| `pq_live_pool` | 2 dirs, 1 worker, 2 attempts, 1 stop | `ClaimBound`; `TriggeredDirIsClaimed`: a wake-up during a pump and a retry both end in a claim |
| `pq_live_resync` | 1 dir, 2 workers, 2 attempts, 2 scans | `LockIsReleased`, `EventuallyQuiescent`: parsing ends, also of a dir that always fails |
| `pq_stale_import` | as `pq_faults`, no faults | violation: a reaped live claim lets the older of two parses win |
| `pq_lost_wake` | 1 dir | violation: a dir queued during its parse waits for an unrelated wake-up |
| `scan_runs` | 2 scans, 2 locations, 2 URIs, 2 edits, 1 stop, store faults, one scan polled and cancelled | `LifeInv`, `MapsAgreeWithRecords`, `TerminalAnswerIsFinal`, `LocationIsHeld`, `ExitClosesRecords`, `ImplementsRecord`, `EveryScanCloses`, `LocationIsFreed` |
| `sync_tree` | root, album, disc folder; a file name in each; 2 stats, 2 scans, 2 edits or failing stats, any initial tree | `SyncInv` (with `TypeOK`), `StayingFileIsPresent`, `CompletedScanIsExact`, `CleanDirIsParsed` |
| `sync_return` | root, album; 3 scans, 2 edits or failing stats | violation: a file that returns unchanged, or whose stat failed once, stays missing |
| `library` | 2 workers; 2 dirs with 2 and 1 tracks, 2 images of which one exists at the start; two spellings of an artist and a blank name; 3 imports, 1 edit, 1 stop | `LibInv` (with `TypeOK`), `OneArtistPerName`, `CacheIsStored`, `GroupHasItsPrimary`, `OneCoverPerAlbum`, `RowsAreKept`, `ImplementsCatalog` |
| `images` | 2 callers, a sound image and one that decodes no further than its header, 1 size, 2 faults, 2 stops | `StoreInv`, `LinksCanBeServed`, `OneIdPerImage`, `EveryCallEnds` |
| `ui_monitor` | 2 locations, any number of scans, 3 user actions, 2 polls at once, 1 rejected call | `MonitorInv`, `PollingGoesOn`, `PollsDoNotMultiply`, `IndicatorClears`, `ShownEndIsFlushed` |
| `ui_lists` | 2 rows, 2 filter sets (all rows, one of them), pages of 1, 2 sort positions, 1 edit, 2 turns of the reader, 1 invalidation, 1 rejected call | `ListInv` (with `TypeOK`), `PagesAreSound`, `ListsAreNotMixed`, `LoadingMeansFetching`, `ListIsCompleted` |

Why the bounds are enough. Interference in the queue is between one row and the actors that touch it, so one
dir with two workers and a re-scan reaches every pair of steps; two scans are needed for one to reap or
re-sync what the other queued, and two attempts for a retry to be followed by giving up. Two dirs on one worker
fill the channel and make the dispatcher wait. The proofs lift the safety part, `ClaimBound` included, to
any size. Two starts are the least that can race for a location, two edits allow one to exist and to be moved or deleted. For
`sync_tree` two scans are the least in which the second can damage what the first recorded,
and two edits allow a removal and a return, or a removal and a file that fails to stat. `sync_return` needs three scans: see it, miss it, see it again.
In `library` two workers race for one name, and three imports are the least in which a second dir joins a group and the
first then leaves it. Tags start in any state but a blank artist in the second dir; one image is there at the start and an edit takes it away or
puts one before it, the two changes that can move a cover. In `images` a caller may act again and again, so two make every pair of calls
overlap, and the proofs cover any number. In `ui_monitor` two polls in flight are the least that overlap, and scans of two
locations may overlap, alternate or come after the list was empty, as often as they like. In `ui_lists` a key gets at most one entry between two invalidations, so four entries hold every list that
two keys and one invalidation can make; two turns leave a list and return to it. The rows start in the order of their ids, against it,
in one position, or with one still to come; two sort positions let the edit move a row over the other, the row of the cursor included. Longer
sequences of edits are the theorem's.

Each property of a passing run has a mutant in its module, a plausible bug that breaks it.

### Fairness
`ParseQueue!Fairness`: the dispatcher, each worker, pending `OnDirty` calls and retry timers make progress, an exiting
process exits and is started again. These are goroutines that are never blocked on a lock for ever, and timers.
No fairness on scans (nobody must start one), on crashes, or between success and failure of a parse: a parse
may fail every time. `LockIsReleased` is checked with no stop and no store fault, since after either the lock
waits for the next scan, by design. `ScanLifecycle!Fairness`: a run's goroutine proceeds (a tree is finite), handlers
that have begun end, shutdown proceeds, the process restarts. No fairness on requests. `ImageStore!FairSpec`: a goroutine in a call proceeds;
none on failures, stops or new calls. `ScanMonitor!Fairness`: scans end (`EveryScanCloses`), calls are answered or rejected, timers
expire; none on clicks, other clients or faults. `ListCache!Fairness`: calls are answered or rejected and the sentinel's effect runs;
none on what a reader does.

### What the violation runs show
* `pq_stale_import`: `BeginScan` (`sqlite/scan.go:47`) cannot tell a dead worker's lock from a live one's.
* `pq_lost_wake`: `ReleaseDir` does not wake the dispatcher, so the flag that "survives" has no pump to find it; a dir
  that `BeginScan` re-enqueues waits the same way if the scan finds it unchanged.
* `sync_return`: `KnownFiles` does not select `missing`, which `computeChangeset` consults. So a file that returns unchanged stays
  missing, and one that fails to stat once, though it is there, is not "missing for now" (`scan/sync.go:89`) but until it changes.

Also met while modelling, without a run of their own.

In the server: `Start` reads the location and its root before it claims it (`scan/scanner.go:165`), so an `Update` in between succeeds and the scan
walks the former root under the new URI, although `sqlite/location.go:107-109` promises `ErrScanRunning` while a scan is in progress (in
`ScanLifecycle`, `Resolve` then `Update` then `Claim`); `RetryBackoff` delays only a wake-up, and any other pump takes
the failed dir at once; an interrupted process leaves claims of its channel locked; a `Cancel` that arrives in the
sweep is acknowledged and the scan recorded as done; a row read before the end of a cancelled scan and overlaid
after its release is answered `running`; missing counts grow before the sweep (`scan/sync.go:69`); rows already missing
are reported again by each scan, which queues their dir again; `Sweep` queues no dir, so the tracks of a removed
folder stay in the library. In `Library`, with TLC: two spellings of one artist in a dir make two parsed albums (`albumMetaKey` compares
names) that are one row (`group_key` compares artists), and the second's `deleteStale` removes the tracks of the first, so
part of the album is missing after each import; a location's deletion leaves groups without a primary version
(`library/album.go` says exactly one) until a new version is imported; a track retagged into another album of its dir loses its
id if the album it leaves is processed first, which is the order of a Go map; an image already linked never becomes the cover
when the cover is removed.

In the page, with TLC: `poll` compares its answer with what was shown when it was sent, and calls `invalidateLibrary` only when the list
becomes empty, although the comments speak of "a scan leaving the running set" (`scan-monitor.ts:25`) and of "when a scan finishes"
(`invalidate.ts:8`): without its premise `Ceases`, `ShownEndIsFlushed` fails on scans that follow each other; polls that overlap leave
extra chains of timers, and a hidden tab goes on polling if a poll was in flight when it was hidden (the comment says polling "pauses");
a rejected poll ends the polling until a poke; a scan that begins and ends between polls, or that another client starts after an empty
poll, is not seen; the library is invalidated when the scan ends, before its imports do. In the lists (`pagination.ts`): a key change while loading, to
a list that needs no load, leaves `loading` set for good, and with it the sentinel and the buttons off (`strayed`; line 89 has
the case of a newer fetch only); a list remounted, or re-keyed, while its page is in flight may never show that answer, or lose its own call to that
fetch (`missed`); a mounted list is not fetched again after an invalidation, and continues with an empty entry, so its
next page is again the first; the sentinel asks again at once after a failure; the retry button stays during the retry.

## 4. Proofs

`ParseQueueProofs`, from the named assumptions of `ParseQueue` (the constants' types only; `Dir`, `Location` and `Worker` are
arbitrary sets):

* `TypeInvariance`: `Spec => [](TypeOK /\ JobOK)`. `JobOK` says a worker holds a claim exactly while it is in
  `parseClaimed`; without it the columns a worker writes would not be those of a dir.
* `Invariance`: `Spec => []IInv`.
* `NoChangeIsLost`: `Spec => []NoLostUpdate`.
* `ClaimsAreExclusive`: `Spec => []ExclusiveClaim`.

`NoLostUpdate` is not inductive. When a worker releases, the row must be dirty or the library current, so the
invariant must say what a worker knows at each program counter (`Fresh`: the version it read, or imported, is the row's, or the
row is dirty again). That survives only if no other worker imports into the dir, hence `Disjoint` (no two carriers) and `Owns`
(a carried claim's generation is the row's lock). `Owns` also bounds the row's version by the claim's generation unless dirty,
which is what makes giving up sound: what is given up on was tried. `RowOK` orders generations, so that a `SyncDir`'s version is
newer than any lock. All of it is relative to `reaped`, where a scan breaks it. The proof has one lemma per action, with
`LetGoCore` shared by the releases.

`LibraryProofs`, from `ConstantsType`, for any workers, names and restarts: `Interned`: `Spec => []InternInv`, and from it
`ArtistsAreUnique` (`OneArtistPerName`), `CachedArtistsExist` (`CacheIsStored`) and `LocksAreReleased` (`LocksAreHeldInside`).
`OneArtistPerName` is not inductive: an insert must still be the first of its name, so the invariant says that a worker about
to insert knows of no row of its name (`StillUnknown`), which holds because lookup and insert are under one lock that one worker
holds. Steps outside `internArtist` share the lemma `OutsideIntern`.

`ClaimsAreBounded` (`ClaimBound`): a batch and the channel never exceed a pool. It needs `FiniteType` (`Dir` and `Worker` finite), for
cardinalities: a claimed set of at most `Pool` dirs is finite, and `Send` moves one claim only where the channel has room.

`ScanLifecycleProofs`, from `NullsType` (the three null values are no real ones) and the types of the bounds, for any locations, requests, edits and stops, and
whatever store calls fail: `LifeInvariance`: `Spec => []LifeInv`, and from it `MapsAgree` (`MapsAgreeWithRecords`), `AnswersAreFinal`
(`TerminalAnswerIsFinal`), the action properties `LocationsAreHeld` (`LocationIsHeld`) and `ExitCloses` (`ExitClosesRecords`), and the refinement
`ScannerImplementsRecord` (`ImplementsRecord`). `MapsAgreeWithRecords` is not inductive. `RunIsSound` adds that a request has no record before `BeginScan` (so what
that aborts is never a live run's), that a running record's location still exists (so `Insert` is no edit of it), and that a run lets
go of its location only once its record is closed or given up; `ReaderIsSound` carries what a `GetScan` holds between row and
overlay; `ProcessIsSound` says that a draining process opens no scan, which is why its exit finds none. One lemma per step; `StepInRun` and
`LetGo` serve the reservations, `RunsUntouched` the steps that leave runs alone. In the refinement `BeginScan` is `Open`, `FinishScan` is
`Close` or, when the store fails, a stutter, `Boot` is `AbortAll`, `Insert` and `Update` are `SetUri`, `Delete` is `Remove`; all else is hidden.

`ImageStoreProofs`, from `ConstantsType`, for any callers, images, sizes, failures and stops: `StoreInvariance`: `Spec => []StoreInv`, and from
it `LinksAreServed` (`LinksCanBeServed`) and `IdsAreUnique` (`OneIdPerImage`). What makes them last is `CallIsSound`: between its steps a caller relies
on its blob being there when it upserts, and on the row still having the id it will publish. `OthersStaySound` shows once that no step
of another disturbs this (files only grow, rows keep their ids), so each action's lemma is about its own caller; `WrittenStep` serves
every way out of `writeFile`.

`ScanMonitorProofs`, from `BoundsType`, for any locations, polls and actions: `MonitorInvariance`: `Spec => []MonitorInv`, and from it `WatchingIsKeptUp`
(`PollingGoesOn`) and the action property `ChainsAreKept` (`PollsDoNotMultiply`). `PollingGoesOn` is not inductive: an answer from before a
start may be the only poll in flight that is looked at. `StartIsFollowed` says that then another poll or a timer is under way that can
still find the scan, because the poke's poll began after the start.

`DirSyncProofs`, from `TreeType`, `NullsType` and `SizesType`, for any tree of dirs, files, scans, failures and edits: `SyncInvariance`:
`Spec => []SyncInv`, and from it `StayingFilesArePresent` (`StayingFileIsPresent`), `CompletedScansAreExact` (`CompletedScanIsExact`) and
`CleanDirsAreParsed` (`CleanDirIsParsed`). That a completed scan is exact says nothing of a scan under way, so `SyncInv` follows a file
through one. `WalkIsSound` has the recursion's frames as a path of the tree and each dir in one place only. `WalkIsComplete` says that of the
dirs above a file that stays, one whose parent was reached is reached itself or still to be visited; once the stack is empty, the dirs reached are
closed downwards along the way to that file, and since they hold the root, they hold its dir. That step would be an induction
along the path; it is done with the no-cycle clause of `TreeType` instead (the dirs above the file that were not reached would be
a set without the root). `ResultsAreSound` and `PayloadIsSound` then say of each result, in a frame, held by the disc merger, on the channel or
computed, that its list is right for files that stay, and `SyncedIsExact` that what is written is. Edits are harmless because they touch a
path, and remove it only into `left`: all these parts speak of untouched paths, or of those never removed. A failing stat of a file that
is there is an edit in that sense: `Compare` adds it to `touched`, and to `left` if it has a row, in the step that computes the change set.

`LibraryRowsProofs`, from `ConstantsType`, for any workers, dirs, files, spellings, failures and restarts: `LibInvariance`: `Spec => []LibInv`, and from it
`GroupsHaveTheirPrimary` (`GroupHasItsPrimary`), `AlbumsHaveOneCover` (`OneCoverPerAlbum`), the action property `ReimportKeepsIds` (`RowsAreKept`) and
the refinement `LibraryImplementsCatalog` (`ImplementsCatalog`). `RowsAreSound` is stated of the tables and again of the open transaction, which
replaces them at `Commit`. For the last two theorems `TxIsSound` relates the two: the transaction still has every album of the tables; each album it keeps
is one it has put, with exactly that one's files, and each one put is kept; rows of other dirs are the tables' own; a track whose
album and file await their turn is still there. At the commit every album has been put, so `KeptRows` and `CommitRowsAre` turn this into
the effect of `Catalog`'s `Replace`, conjunct by conjunct (`CommitReplaces`); the other steps are a call, its failure, a removal or
nothing (`ImportImplemented`, `StoreStep`). New rows take ids that were drawn when the
album was built, so `IdsAreFresh` and the disjointness of `Drawn` say that no row, and no other worker, has them. That one album of a
group is promoted, and only where none is left, uses a least id, hence the lemma `Minimum`.

`ListCacheProofs`, from `ConstantsType`, for any rows, filters, page size, entries, edits, faults and readers: `ListInvariance`: `Spec => []ListInv`, and
from it `PagingIsSound` (`PagesAreSound`), `ListsKeepOneEra` (`ListsAreNotMixed`) and `LoadingIsFetching` (`LoadingMeansFetching`). `PageFacts` says what a page is: the rows
beyond the token, up to the page's own or to the end, each once and in order. It needs that every set of rows has an order
(`OrderExists`): a least counterexample is refuted instead of an induction. `PagesAreWhole` is `PagesAreSound` without its counting; a page extends
it because a fetch in flight holds the entry's own token and the entry is not done (`EntryIsSound`), so `loadMore`'s guard is what it
rests on, and an edit leaves it alone because the row becomes `touched`. For the era, `Asked` includes the fetch in flight and
`CacheIsSound` says that an entry in the cache has been asked for since the last clear only; one that was dropped keeps its era and
starts no further fetch.

No operator of these modules is recursive: orders are written with sets and `CHOOSE`. `LibInv`, `SyncInv`, `ListInv`,
`IInv`, `LifeInv`, `StoreInv` and `MonitorInv` are each an invariant of a run as well.

Only model-checked: the liveness properties, which like ENABLED are outside this prover's reach. Every invariant and action
property that a passing run checks has a theorem.

## 5. Not modelled

* RPC servers: each handler is one call of the scanner or a store, and a conversion.
* Generated protocol code, Go and TypeScript (most lines of the TypeScript sources, `buf/validate` among them): message shapes, no behaviour.
* Rendering, formatting and routing of the page; the router's query cache (`revalidate`), an external library.
* Tag mapping, image resizing, hashes, tokens and their encoding: pure functions of one call.
* Opening and migrating the database.
* Reads of single rows and credits (`sqlite/libraryread.go` but for its pages), which change no state.

## 6. Plan

1. Done: `ParseQueue`, `ScanRecord`, `ScanLifecycle`, `DirSync`, `Library`, `Catalog`, `ImageStore`, `ScanMonitor`, `ListCache`.
2. Done: a proof of every safety property that a passing run checks.
3. An abstract specification of the work queue (a dir's change is pending, taken, done), implemented by `ParseQueue`.
