# ts-icon: specification, model checking and proofs

ts-icon serves banner images for the channels of a TeamSpeak server, keeps them by channel id, and can
build a *channel wallpaper*: one picture sliced over a group of temporary channels. This directory holds
TLA+ modules for the parts of it whose correctness depends on order, failure and concurrency, the TLC
configurations that check them on small instances, and TLAPS proofs for every size.
Paths below are relative to `src/` of the repository's copy; `service` is
`src/images/channel-wallpaper.service.ts`, `generator` is
`webapp-banner-tool/src/components/ChannelWallpaperGenerator.tsx`.

Check a run with `tlc -workers 2 -config MCRunSafety.cfg MCWallpaperRun.tla`, a proof with
`tlapm WallpaperRunProofs.tla`. `PROJECT.json` lists runs, mutants, the source lines of every
definition, findings, hazards and theorems.

## 1. Inventory

| Component | State | Operations | What is hard | Module |
|---|---|---|---|---|
| **Wallpaper run** (`service` resume, undo, leased; `teamspeak-channel-admin.ts`) | `WallpaperRun` and `WallpaperRunRow` in SQLite (status, lease token, lease end, cid, prepared bytes), `ChannelImage`, channels on the TeamSpeak server, memory of an attempt | resume, undo, heartbeat, identify, create, edit, delete | a crash between any two steps; lost answers; a command executed after its caller gave up; an attempt that outlives its lease; administrators who change the channels meanwhile | `WallpaperRun` |
| **Wallpaper admission** (`channel-wallpaper.controller.ts`, `service` prepare, existing, list, result) | run records, request id and hash | generate, preview, list, resume, undo | the same request twice at once; a crash between prepare and resume; the limit of 20 open runs | `WallpaperAdmission` |
| **Wallpaper slicing** (`wallpaper-slicer.ts`, helpers of the controller, `computeChannelDepth`) | none | row plan, names, depth, limits, crop arithmetic | boundaries | `WallpaperPlan` |
| **TeamSpeak transport** (`teamspeak-transport.ts`) | one client, one deadline, one bounded promise per call | connect, command, quit, stop | late timers and late answers; a callback that goes on after the operation was rejected; a library that never answers | `TeamSpeakTransport` |
| **Channel list cache** (`teamspeak-channels.ts`) | cached snapshot with expiry, read in flight, generation | fetchLiveChannels, apply banner URL(s), withConnection | a read that started before a mutation and ends after it | `ChannelCache` |
| **Image processing gate** (`image-processing-gate.ts`) | counter of active renderings, list of waiters | run | hand-over of a slot across a microtask | `ImageProcessingGate` |
| **Image store** (`images.service.ts`, `image-import.service.ts`, the two image controllers, `channel-id-matching.ts`) | images by name and by cid, aliases, references | upload, adopt, rename, delete, sync, serve | read-then-write across awaits, stale snapshots, legacy names | `ImageStore` |
| **Channel-id backfill** (`scripts/backfill-channel-ids.ts`) | the image table | read, plan, apply | rows and channels that change between plan and application | `ImageStore` |
| **Database maintenance** (`scripts/db.ts`) | the SQLite file, its journal and its copies | migrate, backup, restore, dry-run | a crash between two renames; a failure whose repair fails | `DatabaseMaintenance` |
| **Admin interface**, wallpaper page (`generator`) | draft, preview, runs, pending request id | edit, preview, generate, poll, resume, undo, leave, reopen | answers that arrive out of order, or never | `WallpaperPanel` |
| **Admin interface**, the other pages (`ChannelGallery.tsx`, `SpacerBaseImageManager.tsx`, `BannerUrlManager.tsx`, `BannerCropper.tsx`, `useChannels.ts`) | lists, locks per channel, errors, the image in the frame | load, upload, delete, set URLs, choose, crop, save | overlapping loads and writes, asynchronous decoding | `AdminConsole` |
| **Authentication** (`AuthProvider.tsx`, `permissions.ts`, the guards) | token, session, roles | sign in, refresh, expire, sign out | roles that change between a press and its request | `AdminSession` |
| **Release promotion** (`scripts/release-images.cjs`) | registry tags | resolve, promote, verify | a failure between two tags | - |
| **URL download guard**, **HTTP, logging, metrics, health** | stateless | - | - | - |

How they interact: the page calls the controller, which slices the picture, calls `prepare` and then
`resume`; `resume` and `undo` take the run's lease in the database and open *one* TeamSpeak connection
through `TeamSpeakChannelsService.withConnection`, which runs the callback in `runTeamSpeakOperation` and
invalidates the channel cache in a `finally`. The callback alternates database updates fenced by the
lease token with TeamSpeak commands. Preview and preparation pass through the gate. The image store
resolves channel names in the cached channel list. The maintenance scripts work on the database file from
outside.

What makes each part correct:

* **Run** - no channel is ever created twice for a row; none is left that the database cannot find; undo is
  final; the final statuses are true; repeated resume or undo ends.
* **Admission and wallpaper page** - a wish of the administrator gets one run, however often it is sent; the
  run is the one that was previewed; unfinished runs are limited; newer lists stay.
* **Slicing** - the rows, side by side, are the picture; nothing outside of it is asked for.
* **Transport** - every call settles; nothing is taken after its deadline; nothing is left pending on a
  stopped client; the caller hears the callback's outcome.
* **Cache** - who asks after a mutation sees it; one read at a time.
* **Gate** - bounded, no slot wasted, first come first served.
* **Image store** - one image per channel; no address shows another channel's picture; lists and addresses agree;
  references written from old snapshots are put right; the backfill only writes down what is shown.
* **Maintenance** - no committed state is lost; what is reported is true; kept files stay.
* **Other pages** - what was confirmed is shown; the image in the frame is the one chosen last, and the one that is sent;
  client and server agree about roles.

The hazards behind these sentences are in `PROJECT.json`, each at its line, with the properties
that cover it.

## 2. How the modules fit together

```
Connection  <--refines--  TeamSpeakTransport          (the connection WallpaperRun assumes)
WallpaperRun              one run: claim .. release   (a run's life inside WallpaperAdmission)
WallpaperPlan  <--EXTENDS--  WallpaperAdmission  <--EXTENDS--  WallpaperPanel   (rows, server, page)
AdminSession   <--EXTENDS--  AdminConsole                                        (roles, pages)
ChannelCache, ImageProcessingGate, ImageStore, DatabaseMaintenance               (on their own)
```

`MC*` modules instantiate these for TLC, `*Proofs` modules hold the theorems. `WallpaperAdmission` has a
run's status and lease only: what happens between a claim and the end is `WallpaperRun`, which in turn
starts from a run that has been prepared.

What could follow: a store that is a function from channel to picture, as an abstract specification that `ImageStore`
refines; and a run as one claim and one end, as `WallpaperAdmission` sees it, refined by `WallpaperRun`.

## 3. The modules

### WallpaperRun

One run, executed by attempts (`leased()` calls) that compete for its lease.

| Module | Code |
|---|---|
| `status`, `token`, `lease` | `WallpaperRun.status`, `leaseToken`, `leaseUntil` (as none, in the future, in the past) |
| `rows` | `WallpaperRunRow`: status, cid, whether the prepared bytes are still there |
| `images` | the cids that have a `ChannelImage` |
| `channels`, `cmd` | TeamSpeak's channels that carry the run's marker; the command the server has not answered |
| `pc`, `at`, `local`, `snap` | position in the callback, row in hand, `run.rows` in memory, the channel list in memory |
| `closer`, `conn`, `lost`, `failed` | code after `withConnection` and the `finally`; whether the connection is usable; `leaseLost`; outcome |
| `ClaimResume`, `ClaimUndo`, `Heartbeat`, `Release` | `leased` |
| `Load`, `List`, `Identify*` | `load`, `list`, `identify` |
| `IntendCreate` ... `FinishRow`, `CatchResume` | body of `resume` |
| `IntendDelete` ... `EraseRow`, `CatchUndo` | body of `undo` |
| `ExecCreate`, `ExecEdit`, `ExecDelete`, `Refuse`, `Vanish` | the server (external) |
| `Crash`, `Stop`, `StepFails`, `HeartbeatFails`, `CloserFails`, `CreateUnseen`, `LeaseStalls` | faults, counted by `MaxFaults` |
| `Occupy`, `Vacate`, `Tamper`, `Readdress`, `Remove`, `DeleteImage` | everybody else |

Choices a reader should know:

* The callback and the code after it are *two* threads of an attempt. `runTeamSpeakOperation` rejects
  its caller when the deadline passes and the callback may still be in the middle of a database call, so
  the final status can be written while the callback goes on.
* `assertLease` and the fenced update or command that follows it are one step where nothing of another
  attempt can matter in between (the update is itself `WHERE leaseToken = ...`). `saveImage` is
  *not* fenced, and it is a step of its own (`StoreImage`, finding 1). A command is handed to the server
  in one step and executed in another, possibly long after.
* A command of a closed connection may still be executed, refused, or never arrive.
* `Crash` hits one attempt. A process crash is the crash of several at once, which a sequence of
  single crashes covers.
* The lease token is a fresh UUID: the attempt stands for it. A slot of `Attempt` is reused only when
  nothing of its last use is left, its command included.
* `CreateUnseen`: the server creates the channel and the library reports an error, on a connection that
  stays usable; `resume` then marks the row uncertain.
* Parents outside the run that disappear, and names already in use, are refusals by the server
  (`Refuse`) or rejections (`StepFails`): they differ only in the text of the error.
* Images are a set of cids and pixels are left out.
* A channel's banner URL is the provisional one (`run`), the by-id one (`id`) or another. `Readdress` is whoever writes it
  outside the run, this application's `applyBannerUrlsForAllChannels` and `setChannelBannerUrl` first of all; `rewritten`
  remembers it for the properties.

### Connection and TeamSpeakTransport

`TeamSpeakTransport` is `runTeamSpeakOperation` with an integer clock: `phase` (which await the function is at), `stopped`,
`deadline` (the operation's timer), per call its promise (`call`), its deadline (`expiresAt`), its timer
(`timer`) and what the library did with it (`lib`). A timer may fire any time *after* it is due, as in an
event loop that is busy; a late answer arriving before a late timer is the case that `bounded`'s check of
the clock is there for. `Connection` states what its users may rely on, and it is how `WallpaperRun` uses
`conn`: a closed connection resolves no call and accepts none. The refinement maps `open` to `~stopped`.

### ChannelCache

The channel tree is reduced to its version, one more for each command that lands. `cached`, `expired`, `inFlight`
and `generation` are the service's fields, `fetch[f]` is one read with the generation it captured, and
`reader[r]`, `mutator[m]` are the callers. `then` and `finally` of a read are separate steps, as they are separate
microtasks. `floor` is history: the version at the last invalidation.

### ImageProcessingGate

`active` and `waiting` are the fields. A request is outside, waiting, granted (its promise was resolved, the
continuation has not run) or running.

### ImageStore

`rows`, `alias` and `refs` are the tables `ChannelImage`, `ChannelImageAlias` and `ChannelReference`. `live` is the
TeamSpeak server and `cached` what `fetchLiveChannels` returns (`ChannelCache` says how old that may be; here it
may lag by any number of changes). `req[r]` is a request between two awaits: the list it was given, the
channel it is for and the ids `legacyIds` returned.

| Module | Code |
|---|---|
| `UploadById`, `SetBannerUrl`, `List`, then `Sync`, `Touch` | `liveById`, `setBannerUrlById`, `channelItems`, `applyBannerUrls`, `syncChannels` |
| `UploadByName`, `CheckOwned`, `CheckTaken` | `findLegacyChannel`, `resolveUploadChannel` |
| `UploadBase`, `StoreSlice` | `storeSpacerBase`; the `saveImage` of a wallpaper row |
| `Resolve`, `Write` | `saveImage` before and in its transaction |
| `DeleteById`; `DeleteByName`, `Drop`; `EraseSlice` | `deleteImageByChannelId`; `deleteImage`; undo |
| `Shown` | `getPublicImageByChannelId`, read at one moment |
| `Listed` | what `channelItems` says of a channel (`hasImage`, `hasFallback`, `contentHash`) |
| `Backfill`, `MakePlan` | the script reads the images, then the channels, and `planBackfill` |
| `Assign`, `BackfillDies` | one turn of the script's loop; it stops where nobody expects it |
| `Change`, `Refresh` | administrators (external), a new channel list |

* Names are raw names and `Key` is `normalizeChannelName`, because the code compares raw names in some places
  and normalised ones in others, and finding 2 is a place where that matters. The reserved name of
  the shared image is the constant `Base`; it is not a normal form, since normal forms have no underscores.
* A picture is known by what it was uploaded for: a channel, the spacers (`base`), or a name, from before channel ids
  (`legacy`).
* The two reads of `legacyIds` run in parallel; they are one step. Within a transaction nothing else happens (SQLite).
* `docs/operations.md:81` demands a maintenance window for the backfill, but nothing in the code keeps requests out, nor
  administrators from renaming channels: all of them overlap the script. A row that has got a channel, or a channel that has got an
  image, ends it (`StillFree`, from `updateMany` and the unique index); it may also be killed at any point.
* Channel ids that TeamSpeak has deleted are not given out again.
* Initially the tables are those of an installation that has just been migrated: any number of images without a channel, at most
  one per name, under normal forms, and the shared one under the reserved name (`OldId`).

### WallpaperPlan

Pure operators: `RowPlan` (`buildAlternatingRowPlan`), `NameOf` (`namesForRows`), `DepthOf`
(`computeChannelDepth`), the limits (`SourceRefused`, `OutputRefused`, `OffsetsRefused`), the checks of the
form and of the request's class, and the geometry of `renderWallpaper`: width and height of the scaled
picture, what is kept of it, which rows fit, and for each row the region that is cut out and where it is
placed. A picture is its format, its sides and whether EXIF swaps them. Pixels appear only in the definitions
that the geometry is compared with.

### WallpaperAdmission and WallpaperPanel

The server (`runs`, and `job[h]` for each HTTP request at work, which advances one await at a time) and the page in
front of it.

| Module | Code |
|---|---|
| `runs[u]` | the run with request id `u`: hash, rows, status, lease; `version` counts its updates |
| `Accept`, `LookUp`, `Fails`, `Prepare`, `Claim`, `Finish`, `Reply` | `generate`: `existing`, the picture and the channels, `prepare` (its own look-up, the limit, P2002), `resume`, the answer |
| `Settled` | resume of a run that needs none, undo of one that is undone |
| `Crash`, `LeaseExpires`, `Change` | the process stops with all of its requests; time; channels and remote pictures change (external) |
| `Edit`, `RetryPreview`, `AnswerPreview`, `ReceivePreview` | the form and the effect that renews the preview |
| `LoadRuns`, `Poll`, `Refresh`, `AnswerList`, `ReceiveList`, `ListFails` | `loadRuns` and who calls it |
| `Generate`, `RecoveredId`, `Reusable` | `generate`, `recoverRequest` and `sessionStorage` |
| `MutateRun`, `KeepRun`, `Succeed`, `Fail` | resume and undo, their answer, `keepRun`, the lock |
| `Mount`, `Unmount` | the page is opened and left |
| `wish`, `wishOf`, `promised` | history: what the administrator wants, which request id stands for it, what was on the screen |

* A body that is being parsed when its fetch is aborted still arrives, with `signal.aborted`; before that, an
  aborted fetch arrives never. That is what `live` distinguishes.
* A wish begins with a changed draft, or after a confirmation; pressing Generate again before one is the same wish.
* The id is drawn from `1..n` where the code draws a UUID.
* Rows are the operators of `WallpaperPlan` on the channels and the bytes that the handler has read;
  `stamp` remembers which.

### AdminSession and AdminConsole

`AdminSession` is the token's roles, Keycloak's idea of them, and which routes and endpoints they open. In
`AdminConsole` one page is open; the server is a version per thing (a channel's image, its banner URL, the
base image).

| Module | Code |
|---|---|
| `Open`, `Mount`, `Refresh`, `SessionEnds`, `SignIn`, `Logout` | routes, `RequireUpload`, `RequireAdmin`, `AuthProvider` |
| `Reload`, `AnswerLoad`, `ReceiveLoad`, `FailLoad` | `useChannels`, `load` of the banner URLs, `loadImage` |
| `ChangeImage`, `UploadBase`, `Apply`, `Upload` | the buttons, with the locks each has |
| `Serve`, `Drop` | the endpoint, or a request that never gets there |
| `HearSuccess`, `GoOn`, `HearFailure` | what each page does with the answer: patch, reload, error |
| `SelectFile`, `LoadUrl`, `ReadDone`, `Decode`, `Resize`, `Ready`, `DecodeFails`, `SelectChannel` | `BannerCropper` |
| `confirmed` | history: the newest version of each thing whose success was reported |

Writes of a page that was left go on, with nobody to report to.

### DatabaseMaintenance

`disk` maps paths to what is in the file: nothing, an unfinished copy, or a set of writes of the application.
`journal` says that an open or interrupted transaction left one beside the database. `cmd` is the command that
runs and how far it is; `Killed` ends it anywhere, and each step has a failing variant with the code's
`catch` and `finally`. `history` is what the application has committed. SQLite (transactions, journal, backup
API, `integrity_check`) is external. `check` changes nothing and is left out.

That the application is stopped during a restore is what `--offline` asserts; `Offline` is the one place where it is assumed, and
commands run one at a time. Application start-up creates an empty database where there is none, as `PrismaService` does.

## 4. Runs

| Run | Instance | Shows |
|---|---|---|
| RunSafety | 2 attempts, an art row and a spacer below it, 2 faults; 625,963 states | `Traceable`, `UndoneIsClean`, `CompletedIsWhole`, `PreparedUntilStored`, `CreateAtMostOnce`, `UndoIsFinal` |
| RunLiveness | the same with 1 fault; 30,702 states | `UndoConverges`, `ResumeConverges` |
| ImagesLeft | one row, one fault | violation: finding 1 |
| Transport | connect, operation, quit and 2 commands, limits 2, 3 and 1, clock to 6; 104,239 states | all of its properties, and the refinement of `Connection` |
| Cache | 2 readers, 2 mutators, 3 reads, 2 landings; 546,036 states | freshness, no caller left behind |
| Gate | 5 requests, 2 slots, list of 2; 411 states | bounds, order, service |
| StoreSafety | 2 channels, 2 requests, 2 uploads or backfills, 1 change to the channels, names "Lobby" and "spacer1", any old images of both; 1,561,622 states | identity of images, no channel shows another's, the channel list says what the addresses show, the backfill changes nothing that is shown, the shared image stays shared |
| StoreLiveness | the same with 1 upload or backfill, where "lobby" and the spacers may have old images; 421,631 states | `ReferencesConverge`; a shared image that was there before stays shared (`BaseIsNeverOwned`) |
| BaseOwned | StoreLiveness' images, 2 uploads or backfills, and a channel that may have the reserved name | violation: finding 2 |
| Wallpaper | 2 handlers, 2 request ids, 2 drafts (nested below a channel with a remote picture; flat with a file), limit of 1 open run, list of 1 finished run, 4 inputs, 1 fault; 1.3 million states | `OneRunPerWish`, `CreatedAsPreviewed`, `UnfinishedRunsLimited`, `AnsweredAsAsked`, `ListsNeverGoBack`, and the operators of `WallpaperPlan` |
| Console | 2 channels, 2 writes at once, 3 inputs, 3 choices of an image of which the second cannot be decoded, 1 change of the account; 541,507 states | `ListsAreCurrent`, `ForbiddenOnlyWithoutThePage`, `SavedBadgeIsTrue`, `FramedIsNewest` |
| Database | 5 paths beside the database's, 3 writes, 4 commands, 3 faults; 77,164 states | `NothingLost`, `RestoreTellsTheTruth`, `KeptFilesStay` |

The geometry is checked by named assumptions of `MCWallpaper`, which TLC evaluates before the run: `PieceIsTheWindow`
compares a piece with the picture seen through the window, pixel by pixel; `RenderedIsTheLoop`,
`HeightKeepsProportions`, `DepthCountsParents` and `NamesCountUp` compare the others with the loops of the code or
with what they are for. The sizes are scaled down (rows of 10 by 4 pixels, 4 rows), the arithmetic is not.

Why the bounds are enough. The rows of a run interact only through parent and child and through order: two rows, the
second below the first, have both. Two attempts suffice for every race on the lease, since at most
one holds it and all that do not behave alike; slots are reused, so an attempt may be followed by any number of others. Two
faults give all pairs (a crash and then a stall, a lost answer and an administrator's deletion); each fault is
followed by ordinary steps only, so what a third adds repeats a situation the first two have produced. In the
transport, the limits are ordered as in production (disconnect and command limits below the operation's),
and the clock runs past the last deadline. In the cache, three
reads are one of an old generation, one of the current one, and one between `then` and `finally`. In the gate five requests fill slots
and list and leave one to be refused; the limits are those of the application.
In the image store two channels can share a name, swap it through a change, or be one with an image and one without;
two requests are every pair of read and write that can overlap, and two uploads are a first image and one that
meets it. Two old images give a plan of two assignments, beside an upload, a deletion or a renaming: the run
has plans that are carried out, killed between the two, ended by a row that is gone or by an image that the channel got
meanwhile, and assignments that a renaming has made obsolete. A row that another backfill assigned to another channel
takes two changes and is covered by the theorem only. On the wallpaper page at most one request is awaited and the other handler holds one that was abandoned (its answer
lost, its page left), which is the race on one id; two ids are a wish and the next; a limit of one makes every second run meet
it. Four inputs are, for example, edit, generate, edit, generate. In the console, two writes are two channels', or one and the reload of
another; three choices are one on the screen, one that is being read and one that cannot be shown. Five
paths hold a backup, a staged copy, a database set aside and two of another command. The proofs of section 6 have no
bounds. `SYMMETRY` (of attempts, of requests and channels, of paths) is used for safety only. `CHECK_DEADLOCK FALSE` stands where the system rightly
stops: a run nobody claims, an operation that has returned, a user who has no inputs left.

Fairness. In `WallpaperRun`, weak fairness of an attempt's own steps (a process that runs takes its next
step), of the server's answers (or of the deadline, which is what `Vanish` and the transport's `Settles`
stand for), of the lease running out (time), and of people leaving a channel. `KeepsUndoing` and `KeepsResuming` are strong
fairness of an administrator's request and are *assumptions in the property*, since nothing in the
program retries by itself. In `TeamSpeakTransport`, time passes and the event loop turns; nothing is
assumed of the library or the callback. In `ChannelCache`, a read ends, which the transport's `Settles`
provides. In the gate, continuations run and renderings end. In the image store, requests
go on, the script makes its assignments, and an expired list is read again (30 seconds); that somebody opens the channel page
again and again is the assumption `KeepsListing`, in the property. The wallpaper page, the console and maintenance have safety
properties only: what they do next is up to a person.

## 5. Findings and observations

1. **ImagesLeft** (code). `images.saveImage` (`service:374`) is not fenced by the lease. An attempt that
   stalls longer than the lease between `assertLease` and the save stores an image after another attempt has undone
   the run; nothing deletes it later. The integration test (`channel-wallpaper.integration.spec.ts:257`) says that undo
   deletes the images.
2. **BaseOwned** (code). The shared spacer image is "never a channel-owned legacy image" (`src/images/images.service.ts:85`)
   and its key "can never collide" (`src/util/util.ts:29`). But `planBackfill` compares *normalised* names and
   does not leave the reserved row out: a channel whose normal form is `spacerbaseimage` is assigned the shared image. From then on, an
   upload for that channel replaces, and a deletion removes, what all spacers fall back to. `saveImage` adopts it, too, for a channel
   with literally the reserved name. `BaseStaysShared` proves that nothing else can do it.

Modelling also met these, which no run claims as a violation. They are part of the models where a module is named:

* *Runs* (`WallpaperRun`). The page says "Every run can be undone." (`generator:384`). A process that dies between writing
  `creating` and the command's arrival leaves a row of unknown outcome; undo refuses it (`service:447`), as it cannot know
  better, and the run stays among the 20 that may be open. `UndoConverges` states what does hold. `README.md:73` says
  that undo refuses changed channels: name and parent are compared with the list read at the start, so a rename or
  move after that goes unnoticed (only occupation is tested by the server at the deletion).
  "Set for all channels" and the PATCH of one banner URL (`src/teamspeak/teamspeak-channels.ts:115-141`) replace the provisional URL of a
  run's channel, since `isManagedByUs` does not know it. If that row's creation was never confirmed, `identify()` does not find
  the channel any more: no retry creates a second one, but no undo removes the first either, and the run
  stays `undo-partial` until a person looks at it (`NeedsReview`). `Traceable` says that the run itself never does this.
* *Admission* (`WallpaperAdmission`). Undo reopens completed runs, so open runs may exceed 20; only those never closed are
  limited. After a crash between `prepare` and `resume`, the repeated request is answered with the pending run and does
  not resume it. A picture that changed behind its URL after an unconfirmed generation makes every repetition a 409 until
  the draft is changed. Rows differ from the preview when channels or picture change in between, though the card says
  "Exactly the rows that will be created" (`generator:567`).
* *Wallpaper page* (`WallpaperPanel`). The answer of an action may put an older status over a newer one, until the next
  poll. `keepRun` aborts a first load that is under way and leaves its indicator on. When a generation
  succeeds after the page was left, its id stays in `sessionStorage`, and Generate for the same draft
  returns that run instead of a second one.
* *Slicing*. With a positive `yOffset` the last rows may be blank: the rows that fit are counted from the kept height, as if the first began
  at its top.
* *Other pages* (`AdminConsole`). `apply` clears an error of the list's load (`setError("")`), and so does `upload` of the base image
  (`SpacerBaseImageManager.tsx:77`): when the image of a confirmed upload could not be reloaded and the next file is refused
  with 413, 415 or 422, the old image is shown beside an error of the file only, with nothing to retry the load. `ListsAreCurrent`
  excepts a page that shows such an error or is still sending. The editor does not load its
  list again after saving. The form takes files of up to 10 MB, the server's limit is 5 MB
  (`src/images/images.controller.local.ts:44`). A resize while a new URL loads prepares the old image for cropping; `FramedIsNewest` says
  that it is then also the one on the screen.
* *Image store* (`ImageStore`). An upload that does not take over the old image of its channel's name (another
  channel has the name, too, or this one has an image already) leaves the name as the alias of two images. From then on no address shows the old, unassigned image of that name, but the channel list,
  which looks at the rows' names only, still offers it to a channel of that name: it says that the channel has an image, and Delete answers
  that there is none. `ListIsTrue` states the agreement for every other name.
  An upload by name goes to the channel that had the name in a list of up to 30 seconds ago. The backfill takes no notice of
  a channel that is renamed while it works, so it may give the channel the picture of its former name;
  `BackfillChangesNothingShown` is about the rest of the plan as long as it is what would be planned again.
* *Maintenance* (`DatabaseMaintenance`). The `.before-restore` name has the time in milliseconds and is taken to be
  new (`SetAside`); the rename (`scripts/db.ts:95`) does not look. Sidecars are looked for before the copy, not again before the rename. A kill
  between the two renames leaves no database at the path: the next start creates an *empty* one, and the old one is
  complete under its `.before-restore` name (`NothingLost`). When only the final check fails, the message does not name
  that file. Staged files stay when copying fails.

## 6. Proofs

Each theorem holds for all values of the constants that satisfy the module's assumption
(`RunAssumption`: at least one row, parents before children and nested at most once; `CacheAssumption`;
`GateAssumption`; `TransportAssumption`; `StoreAssumption`: normal forms are their own normal form and never the reserved name;
`PlanAssumption`: sizes are positive; `AdmissionAssumption` and `PanelAssumption`: request ids are finitely many numbers in the order
in which they are drawn, the initial world is one of the worlds, and null is neither a run, a handler nor a saved
request; `ConsoleAssumption`: null is neither a request nor a loaded list; `MaintenanceAssumption`: paths and markers are distinct).
Together the theorems state every safety invariant and every action property that the passing runs check.

* `WallpaperRunProofs`
  * `TypeCorrect`: `TypeOK` is not inductive; `TypeInv` adds that `at` is a row wherever the row in hand is used (`Positioned`)
    and that the row in hand has a cid wherever one is used (`CidInHand`).
  * `CreateOnce`: `CreateInv` adds that the database knows of every row ever ordered (`DbKnows`), that the
    memory of the lease's holder knows what the database knows (`ViewFresh`), that a row about to be ordered
    has not been ordered (`NotYetOrdered`), that its intent is durable first (`IntentWritten`), and that a
    cid on its way to the database belongs to an unknown row (`Recorded`). The argument: a second creation
    needs an attempt whose loaded row looks untouched; the lease makes its load later than the other's
    intent, and the intent is never taken back.
  * `UndoFinal`: `UndoInv` says that an attempt that holds the token of a resume sees the run running (`ResumeHolds`) and that the code
    after the callback runs without an error only when the callback is over (`CleanClose`, `Connected`, `Closed`).
  * `NoChannelIsLost` (`Traceable`): `TraceInv` extends `CreateInv` by what everybody takes for the channel of a row: the server, the
    database, the memory and the lists of all attempts, however old, name one cid per row and one row per cid (`OneCid`). A creation
    under way is the only one for its row (`Unanswered`), so its cid cannot come to contradict one that is known, and the run
    itself takes the provisional URL only from a recorded channel (`EditsRecorded`, `UrlRecorded`).
  * `NoSliceIsLost` (`PreparedUntilStored`): `PhaseInv` says which kind of attempt can be at which statement and that rows and
    channels are deleted only while the run is undone, and `Imaged` that the image is stored before the channel is pointed at it;
    the update that drops the bytes is fenced by the lease and comes after both.
  * `CompletedMeansWhole` (`CompletedIsWhole`): outside of an undo a saved row keeps its channel and its image (`Whole`), whatever
    late commands of lost attempts still do. As long as nothing failed, the rows that the holder of the lease has left behind are
    saved (`SavedSoFar`), so all are when it writes the final status (`SavedAll`).
  * `UndoneMeansClean` (`UndoneIsClean`): a row is erased when it has no channel and none can appear (`Gone`). This needs
    that an attempt which knows a channel's cid also has the channel in its list as long as the channel lives (`Listed`):
    otherwise "not in the list" would not mean deleted. The rows left behind are deleted, as above (`DeletedSoFar`, `DeletedAll`).
* `TeamSpeakTransportProofs`: `NothingLeftPending`, `OutcomeSound`, `LateAnswersFail` and the refinement
  `TransportIsConnection`, from an invariant with the timers' expiry (`Expires`), the value that was
  kept for the caller (`ResultIsTheCallbacks`) and that the client is closed before the return
  (`ClosedBeforeReturn`).
* `ChannelCacheProofs`: `CacheFenced`, `ReadsAreFresh`. The invariant relates the generation a read
  captured to the version it saw: a read of the current generation saw at least `floor`. It contains that the shared
  read is current and not over (`InFlightIsLive`).
* `ImageProcessingGateProofs`: `GateBounded`, `GateWastesNothing`, `GateFair`. The invariant is the two
  safety properties themselves; counting uses the library's theorems on cardinality.
* `ImageStoreProofs`: `StoreTypeCorrect` and `OneImage` from `TableInv`, which adds that ids are
  unique and that an image's picture was uploaded for its channel or comes from before (`Honest`). Of a request
  these need nothing: the transaction of `saveImage` reads again what it relies on. `OwnPictures`, `OneBase` and
  `BaseStaysShared` need, of the names, the hypothesis `Reserved` (no channel's name has the normal form of the
  reserved one) and, of the state, `ApartInv`: the shared image and all others are apart in rows and aliases
  (`TablesApart`), and whatever a request or the backfill read before it writes is still on the side it was
  read on (`ReadsApart`, `ScriptApart`), since no step moves a row from one side to the other (`SidesKept`). Run
  BaseOwned shows that the hypothesis is needed. `TheListIsTrue` adds that an image without a channel was never renamed
  (`AliasesFit`), so finding it by its row's name or by its aliases is the same; it also assumes that there are finitely many channels,
  as both ways count them. `BackfillOnlyWritesDown` takes the same hypothesis and invariant and has three parts: whatever
  requests did since the plan was made, an assignment only changes a row without a channel (`OwnKept`); an assignment that would be planned
  again is what the one name that matches already showed (`PlannedFor`, `KnownByName`), and the rows it leaves alone are shown to the same
  channels as before (`PlannedShown`, `OthersShown`); and it makes no other assignment of the plan obsolete (`RestStays`), since no two
  of them share a row or a channel (`OneRowPerChannel`).
* `WallpaperProofs`, about server and page together, from one invariant `IInv`; rows are what `RowsOn` says, whatever it says.
  * `Jobs`: what a handler works on fits what it was asked for, and an existing run never changes its hash. It gives
    `AnswersMatchRequests`, the case of P2002 included, where the run is another handler's.
  * `Unclosed`: a run that never ended is open, so preparing under the limit keeps `UnfinishedRunsLimited`, and reopening by
    undo only concerns runs that were closed (`OpenRunsAreLimited`).
  * `Wishes`: an id up to `drawn` belongs to one wish, and an open wish has its id in the storage. A second id for
    one wish would need a draft that was changed or a confirmation, and both begin a new wish (`GenerateIsIdempotent`).
  * `Previewed` and `Drafted`: a preview on the screen comes from its draft, and everything that concerns one id (what was
    promised, the run, the handlers, the storage) concerns one draft (`RunsAreAsPreviewed`).
  * `Told`: nothing on the page or on its way to it is newer than the run, and a list that may still be taken is
    not older than what is shown; `keepRun` aborts the others (`ShownListsNeverGoBack`).
  * The same module proves, of `WallpaperPlan` and for every size and position: `PiecesLieInside`, `PiecesShowThePicture` (the rows join
    without a seam), `RowsAreAPrefix`, `KeptWithinTheLimit`, `NestedRowsHaveTheirParent` (the shape of rows that
    `RunAssumption` asks for), and `FormIsNoLaxer` (what the server refuses the form refuses).
* `AdminConsoleProofs`, for any number of channels and of writes under way, with and without Keycloak, from one invariant `ConsoleInv`.
  * `ListsStayCurrent` (`ListsAreCurrent`): what the open page waits for was started on it (`HeardInv`) and no two of these
    writes are about the same thing (`Locked`, the buttons' locks). So a success concerns exactly one list, and hearing of it aborts
    that list's answer (`BodiesCurrent`) and loads it again. Between the two a list of banner URLs, or the base image, may be old,
    and then it is loading, shows an error (of a load, a write or a file), or will do one of these when a write that is under way ends
    (`Unsettled`): "Set" and the upload of a base image clear the error of the load before, which is why the property has this case.
  * `RefusalMeansRoleLost` (`ForbiddenOnlyWithoutThePage`): banner URLs are only written from their page (`WriteOK`), and the role an
    endpoint asks for is the one that its page's route asks for (`RefusedRole`).
  * `SavedBadgeTellsTheTruth` (`SavedBadgeIsTrue`): a write of the editor is about its channel, which cannot be changed while it is heard.
  * `FramedStaysNewest` (`FramedIsNewest`): a cropper that is ready, or can become so without being outdated, was made for
    the source on the screen (`FramedInv`).
* `DatabaseProofs`: `DatabaseTypeCorrect`, `CommittedWritesSurvive`, `RestoreIsHonest`, `ExistingFilesAreNeverOverwritten`. The invariant
  follows a command through its steps: a copy being written is nobody else's file (`CopyInHand`), the staged file is
  the backup's content (`Staged`), what was set aside is whole and under the name that will be reported (`Aside`), a restore
  past its lock is alone and without a journal (`Alone`), and the copy a dry run migrates holds nothing the database lacks (`Scratch`). Every
  committed state is then in the database, in the file set aside, or in a file no command writes.

Model-checked only: liveness (`UndoConverges`, `ResumeConverges`, `Settles`, `CallersReturn`, `Served`, `ReferencesConverge`), since
fairness and ENABLED are out of the prover's reach, and the operators of `WallpaperPlan` that count or follow a
chain (`NameOf`, `DepthOf`), whose values need induction over data, which these provers cannot do. The invariants above
were checked by TLC on the instances of the runs before they were proved.

## 7. Not modelled

* **Release promotion.** A sequential script with one actor whose calls are all injected; the failures of each call
  are enumerated by its own tests (`scripts/ops.test.cjs:13-110`). Its state is a registry that only the release workflow
  describes. One remark: repeating the workflow of an older commit moves `latest` back.
* **URL download guard.** Address arithmetic and one bounded exchange, covered by tables of tests.
* **HTTP, logging, metrics, health.** Stateless; counters and formatting.
* Of **slicing**: what sharp does with pixels, and the encoding.
* Of the **image store**: the representations served over HTTP and their caching, and the matching of banner URLs
  (with `managed`, which the list derives from it).
* Of the **interface**: markup, styles, icons, toasts, field messages, the channel search, the live tree and the preview's
  picture. `sessionStorage` is assumed to be available.
* Of **authentication**: the verification of a token (stateless, covered by tables of tests) and Keycloak's protocol.
* In `ChannelCache`, the loop over channels that applies banner URLs is one mutation; what it does to each channel is in
  `AdminConsole`. `createChannelWallpaper` and `deleteManagedChannels` of `teamspeak-channel-admin.ts` are not called by the application.
