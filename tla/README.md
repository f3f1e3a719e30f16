# A TLA+ development of qtplayer

qtplayer plays a video while it is being downloaded. A BitTorrent `Session` (a
wrapper of libtorrent) fetches pieces, a cache of pieces in memory
(`FlatPieceMemoryStorage`, with a `Range` for each piece) is meant to hand them
to the player in order, VLC reads through a stream (`FileMediaStream` today),
decodes in its own threads and draws through a pool of frames
(`VlcVideoStream`) into Qt Quick items (`VlcQmlVideoOutput`).

This directory holds TLA+ modules translated from the C++ code, the TLC
configurations that check them on small instances, and proofs that TLAPS
checks. `PROJECT.json` is the index: components, runs, mutants, the map from
definitions to lines, findings, hazards and theorems.

## 1. The system

| component | state it keeps | operations | talks to | what is hard |
|---|---|---|---|---|
| `Range` (`src/Range.h`) | sorted list of byte segments of a piece | `addSegment`, `bytesAvailable` | owned by a slot of the storage | blocks in any order, overlapping, repeated |
| `FlatPieceMemoryStorage` | `absRPos`, `absWPos`, `updatingBuffer`, `slotList`, the flat buffer; one mutex, two wait conditions | `read`, `seek` (player's thread), `write` (source's thread), `requestSlots`; signals `piecesRequested`, `pieceOutOfRangeReceived` | torrent source, player | memcpy with the mutex released, conditions tested once, positions modulo the size of the cache |
| `FileMediaStream`, `VlcMedia` callbacks | file position, buffer, position in it | `open`, `close`, `read`, `seek` | VLC's input thread | a buffer in front of a file that moves, failing operations |
| `Session`: torrents | `m_addingTorrents`, `m_loadedMetadata`, `m_torrents`, `m_extraLimit` | `addTorrent`, `loadMetadata`, `cancelLoadMetadata`, `deleteTorrent`, `readAlerts` | libtorrent's network thread, by posted jobs and alerts | jobs and alerts overtake calls; an info hash does not identify an addition |
| `Session`: settings and queue | members behind `CachedSettingValue`s, `m_deferredConfigureScheduled`, `m_listenInterfaceChanged`, share limits and their timer; queue positions, statistics | some sixty setters, `configure` (deferred), `adjustLimits`, `applyBandwidthLimits`, `networkConfigurationChange`, `updateSeedingLimitTimer`; queue moves | libtorrent's settings pack, Qt's event loop, network manager | three ways to libtorrent, one of them delayed; units; addresses that come and go |
| `TorrentHandle` | a copy of the native status, `m_startupState`, `m_hasSeedStatus`, `m_needsToSetFirstLastPiecePriority` | `pause`, `resume`, `forceRecheck`, `setFirstLastPiecePriority`; reactions to alerts | libtorrent by posted commands and alerts, `Session` by signals | requests are judged by a copy that is as old as the last alert; alerts of the start are swallowed |
| `VlcVideoStream`, `VlcQmlVideoStream`, `VlcQmlVideoOutput`, `VideoMaterial` | pool of frames, locked frames, `_renderFrame`; frame of each output | VLC's callbacks, `frameUpdated`, `updatePaintNode`, `bindPlanes` | VLC's, GUI and render thread; no mutex | `use_count()` decides whether a frame is free |
| `VlcQmlVideoObject` and painters | one frame buffer and a mutex | the same callbacks, `paint` | VLC's and render thread | a mutex held from one callback to another |
| `VlcQmlPlayer`, `VlcMedia`, `VlcMediaPlayer` | `_media` and its stream, libvlc's player, attached outputs | `setUrl`, `setUrlFile`, `play`, `stop`, destructors; `setSource` of an output | VLC's input thread through raw pointers, QML | who deletes what, and when: `deleteLater`, parents, `stop` that waits |
| `VlcMediaList`, `VlcMediaListPlayer` | a native list and a QList | insert, remove, callback with the item | VLC's thread | two lists that must agree |
| `RangeMemoryStorage` | `pieceStatus` of the console experiment | `writev`, `readv` | libtorrent's disk threads | no lock |
| value types, `Utils::Fs`, controls of VLC, user interfaces | - | - | - | thin, see `PROJECT.json` |

What makes each component correct, in a line:

* `Range`: the segments are exactly the bytes that were added; the available
  prefix never counts one that is missing.
* The storage: what the player reads is the file, in order; the writing position
  stays within the cache; nobody sleeps through a wake-up.
* `FileMediaStream`: VLC sees a file.
* `Session`: a torrent is in one container, what was asked for happens in the
  end, the torrent behind a handle is never removed, limits are given back.
* `Session`, settings: libtorrent is told every change, by the values that hold;
  a session that is bound to an interface never listens elsewhere.
* `TorrentHandle`: what the session says of a torrent comes true, and what the
  user asked for is done.
* Player: VLC never calls into an object that is gone, nothing is left behind.
* Video: VLC never writes into a frame that is on its way to the screen, the pool
  does not grow for ever, and the last frame arrives.

## 2. The modules

In the order in which they were written, the most important first.

| module | models | composes |
|---|---|---|
| `ByteRange` | `Range<int>` as operators, one for each half of `addSegment` | - |
| `ByteRangeUse` | one `Range` and its user | `ByteRange` |
| `FlatPieceMemoryStorage` | the cache, the player's and the source's thread | `ByteRange` |
| `ByteStream` | what the storage promises: a sliding window (`WindowSpec`), and a stream whose bytes are those of the file (`StreamSpec`) | instantiated by `FlatPieceMemoryStorage` |
| `FlatPieceLoops` | the loops of `requestSlots` and `write`, one step for each turn, beside the closed forms | extends `FlatPieceMemoryStorage` |
| `SessionTorrents` | the Session, the network thread, jobs and alerts | - |
| `TorrentStages` | the stages of a torrent | instantiated by `SessionTorrents` |
| `VlcVideoStream` | the pool of frames, VLC's, the GUI's and the render thread | - |
| `SeekableFile` | a file that is read and sought in | instantiated by `FileMediaStream` |
| `FileMediaStream` | the buffered stream over a QFile, as operators and actions | - |
| `VlcQmlPlayer` | the player with its media, their streams and its outputs | extends `FileMediaStream`: VLC's input thread runs the actions of the stream |
| `TorrentHandle` | a handle beside its native torrent | - |
| `SessionSettings` | setters, the deferred configuration, share limits | - |
| `MC*` | small sets of values for TLC | |
| `*_proofs` | theorems | the module of the name; `VlcQmlPlayer_proofs` has those of `FileMediaStream` too, whose actions the player runs |

### State and actions

**Storage.** Variables have the names of the members. A stretch of code under the
mutex is one action. `read()` is `Read` (or `ReadBlocks`, then `ReadWoken`) up to
the first unlock, `ReadCopy` for the memcpy calls, `ReadCommit` for the rest;
`seek()` is `Seek`, or `SeekBlocks` and `SeekWoken`; `write()` is `Write`,
`WriteCopy` and `WriteCommit`. The two `wait()` calls return once: there is no
loop around them in the code, so a woken thread goes on whatever the condition
says. A byte is named by its absolute position, so that "the right byte" can be
told. `fault` names an assertion that failed or an iterator used beyond the list,
after which nothing happens. `Range::addSegment` is part of `WriteCommit`, and
`requestSlots` part of `ReadCommit` and `Seek`. The loops of `requestSlots` and of
the end of `write` are closed forms there (`RequestSlots`, `AdvanceWPos`).
`FlatPieceLoops` runs them turn by turn: a step that calls one starts it on what it
found, in the variable `loop`; the turns (`EraseSlot`, `RemoveLast`, `PrependSlot`,
`AppendSlot`, `AdvanceOn`, and the ways each loop ends) work on that, and meanwhile
only the two memcpy calls can run, since the mutex is held.

**Session.** `jobs` is what was posted to the network thread, `alerts` what came
back. Synchronous calls of libtorrent (`find_torrent`, `add_torrent`,
`torrent_file`) wait for every job posted before them, hence their guard
`jobs = <<>>`. A native torrent is an instance number, since the same info hash
can be added, removed and added again. `LoadMetadata` adds its torrent at once and
has an add alert posted as well (`session.cpp:1890`), which `createTorrentHandle()`
is meant to ignore (line 3271). `crossed` is a history: the hashes whose torrent file
was added while the removal of a cancelled magnet was under way. libtorrent itself
(`RunAdd`, `RunRemove`, `MetadataArrives`) is external and modelled from how the
Session uses it.

**Video.** A frame is an address. `Held` is `use_count() > 1`: somebody besides
the pool points to the frame. A reference has the frame it points to and the frame
it counts (`ptr`, `cnt`): the GUI thread copies the `shared_ptr` `_renderFrame`
(`FrameUpdated`, then `CountFrame`) with no lock that keeps `displayCallback()` from
assigning it in between (`AssignRenderFrame`), so that the two can differ. `raced`
marks a reference during whose copy that happened.

**File stream.** A byte is its position in the file. With `MayFail` each
operation of QFile may fail. `Reopens` says whether a stream is opened again
after `close()`.

**Player.** `VlcQmlPlayer` names a `VlcMedia` by the order in which it was made.
`alive` are those whose destructor has not run, `deletions` those that
`deleteLater()` was called for; the event loop runs the destructor
(`DeferredDelete`) between any two calls. `native` is what libvlc's player was
given; VLC's input thread (`VlcOpens`, `VlcReads`, `VlcEnds`) calls the stream of
that media. `Stopped` is `libvlc_media_player_stop()`, which joins the input
thread: `open()`, `openOnly()` and the destructors call it before anything is
deleted. `source` is `_source` of each output, `attached` the list of the stream.
Player and outputs are destroyed in any order: `Main.qml` declares the player first.

**Handle.** `m_nativeStatus` is the copy, `native` the torrent. `pause()`,
`auto_managed()`, `clear_error()`, ... are posted: `cmds` holds them in order,
those of one call of `resume_impl()` as one command; `status()` waits for the
network thread, so a handler that calls `updateStatus()` has the guard
`cmds = <<>>`. `alerts` is one queue for what libtorrent posts by itself and in
answer. `report` is a history of `torrentFinished`, `want`, `judged`,
`wantPriority`, `crossed` and `calm` are histories of the requests.

**Settings.** A setting that is compared, stored and configured is a key of
`stored`; the ones with a behaviour of their own (speed limits, queueing, port,
interface, address family) have variables. `pack` is what libtorrent was told.
`configure` takes one posted call from the event queue; `ExtraLimitChanges` and
`setAltGlobalSpeedLimitEnabled` go around it, as in the code.

## 3. What is checked

Operators whose comment begins with "Mutant" are plausible bugs of the
definition they stand before. `PROJECT.json` names one for every property of
every passing run; with it in place the run fails.

| run | question | bounds | size |
|---|---|---|---|
| `byte_range` | any segments in any order | piece of 7 bytes, 4 segments in the list | 26,068 states |
| `flat_concurrent` | the storage in every interleaving: window, slots, wake-ups, asserts, refinement of `WindowSpec` | pieces of 2 bytes, cache of 2 pieces, file of 6 bytes from byte 1 on, whole pieces and halves, reads of 1 and 3 bytes | 843,382 states |
| `flat_steady` | calls that overlap, but for a `read()` that changes slots in the middle of a `write()`: the bytes read are the file, refinement of `StreamSpec`; loops, turn by turn, equal closed forms | cache of 3 pieces of 2 bytes, file of 6 bytes from byte 3 on, whole pieces and halves, seeks to 0 and 5 | 2,075,801 states |
| `flat_live` | a read that waits for a slot which lacks a byte returns, while calls overlap | cache of 2 pieces of 2 bytes, halves of pieces | 114,044 states |
| `session_any` | containers and handles, whatever is called, with additions that fail | 2 torrents, 3 native additions, 2 waiting alerts | 484,936 states |
| `session_patient` | limits, announcements, stages, for a user who never interferes with a loading that has ended | 2 torrents, 4 native additions, 3 waiting alerts | 2,310 states |
| `video` | frames and pool in every interleaving, the copy of `_renderFrame` in steps; a displayed frame arrives | 6 frames, 1 output, 1 waiting event, frames up to their names (`VIEW`) | 1,387,226 states |
| `qml_player` | lifetimes of media and streams; what VLC reads is the file | 2 files of 5 bytes, 1 other location, buffer of 3, 3 media, 1 output, operations that fail | 93,030 states |
| `torrent_handle` | notices, requests, completion and priorities against alerts in every order; the start-up ends | 2 requests, 2 alerts that libtorrent posts by itself, 1 error or turn of the queue | 849,008 states |
| `session_settings` | what libtorrent was told, but for the port; where it listens; the timer | 3 calls, 2 plain settings, values below, at and above the least valid one, 1 torrent, 1 loading magnet | 164,016 states |
| `flat_stale`, `session_lost` | the findings below | smallest instance that shows them | |

**Why these bounds are enough.** The cache of the storage is smaller than the
file, begins in the middle of a piece, and is larger than one piece, so that
positions wrap, the first and last pieces are cut, and seeks go before, into and
beyond what the cache holds; reads are shorter and longer than a piece.
`MaxSegments` lets every slot be filled in two portions in either order; a slot
with that many segments takes only blocks with bytes that it lacks. Two
torrents are enough for one to be mistaken for the other; three native additions
allow a torrent to be added, removed and added again, with an alert of the first
addition still waiting; alerts wait in a queue of `MaxAlerts`, enough for the alert
of a loading to be read after those of the cancel and of the addition that follow.
Six frames are one more than `PoolBounded` allows with one output, so that the bound
is not one of the instance. With one announcement
waiting and one running VLC displays a frame while the one before is on its way;
further ones wait for the same. The file's length is no
multiple of the buffer's. Three media are one that plays, one that waits for its
deletion and one that is gone. Two requests are needed for one to cross another,
the alerts of a check come in pairs, and an error or a turn of the queue can fall
between any two of them; commands and the alerts they cause are not bounded, they
end with the requests. Three calls are a setter, a second one before `configure()`
runs, and one after it.

**`WindowIntact` and `ImplementsStream` are checked with steady slots**
(`SteadySpec`): calls overlap as they like, but the `requestSlots()` at the end of a
`read()` changes no slot between the two locks of a `write()`. Without that, bytes
that are read are not those of the file, which is the first finding; with it they
are, so it is the whole cause of that finding. `seek()` waits for the end of a write
before it changes the slots; `read()` does not. Calls that do not overlap, which is
how `storage_test` uses the class, meet the condition (`SerialIsSteady`).
`flat_concurrent` shows what remains true in every interleaving.

### Fairness

* Storage (`LiveSpec`): weak fairness of what a running thread does next (the
  operating system schedules it); strong fairness of each block that brings the
  first slot bytes it lacks (`NewBlock`), because that piece is the first one of
  every `piecesRequested`. A source is not assumed to deliver again what it has
  delivered: `piecesRequested` is emitted at the end of `read()` and `seek()`, never
  while a read is blocked. No fairness of the player. `BlockedReadReturns` is
  therefore about a read that waits for a slot that lacks a byte, and the slot must
  not be delivered a byte twice; without either condition a read can wait for ever
  (`FlatPieceForever.cfg`). Reads that end at the failing assert of the full cache
  count as returned, and only those (`ReturnedOrFull`, see `FlatPieceDistance.cfg`).
* Session: weak fairness of the network thread, of `readAlerts()` (each alert
  schedules it, `session.cpp:382`), and of the arrival of metadata (some peer has
  it). No fairness of the user.
* `TorrentHandle`: weak fairness of the network thread, of alert handling and of
  the state update that the refresh timer asks for. No fairness of the user, of
  peers, checks or the queue.
* Settings: weak fairness of `configure()` (Qt's event loop runs what was posted).
* Video and player have no liveness: that a frame arrives is said as an invariant
  (`FrameReachesOutputs`: when no announcement waits, the outputs have the frame
  displayed last). An output that is registered late shows nothing until the next
  frame; the history variable `late` keeps it apart.

## 4. What is proved

Constants are arbitrary but for the named `ASSUME`s of the modules (sizes are
positive, blocks lie within a piece, the outputs are finitely many, values are
integers). TLC evaluates these in the runs. A theorem that needs more says so
with an `ASSUME` of its own; each of these hypotheses is what a passing run has
in its configuration, and without it the run or configuration of section 5 named
beside it ends with a violation:

| hypothesis | of | what happens without it |
|---|---|---|
| `SteadySpec` instead of `Spec` | `WindowIntact`, `ReadsCorrect`, `ImplementsStream` | `flat_stale` |
| `PatientUser` (no cancel, a magnet is left alone once its metadata has come) | limits, announcements, stages | `session_lost`, `SessionReload.cfg`, `SessionEarly.cfg`, `SessionCancel.cfg` |
| `Admitting` (libtorrent refuses no addition; a patient user, or one who adds torrent files only) | `AddingPending` | `SessionAddError.cfg`, `session_lost` |
| `~ Reopens` | `ImplementsFile` | `PlayerReplay.cfg` |
| `FilesOnly` | `MediaOwned`, `StreamAlive` | `PlayerUrlFile.cfg` |

Some properties leave out, by a condition of their own, what the code does not
keep:

| property | leaves out | which is shown by |
|---|---|---|
| `HandlesAlive` | hashes in `crossed` | `SessionCancelled.cfg` |
| `NotOverwritten` | references that were `raced` | `VideoTorn.cfg`, `VideoRace.cfg` |
| `SettingsTold` | the port | `SettingsPort.cfg` |
| `AssertsHold` | a cache that is full to the last byte | `FlatPieceDistance.cfg` |
| `BlockedReadReturns` | slots that lack nothing, blocks delivered twice | `FlatPieceForever.cfg` |
| `RequestKept`, `PriorityKept`, `FinishedReported` | requests judged by an old status (`judged`), priorities that cross the alert (`crossed`), rechecks that cross (`calm`) | the histories |

* **`Range`** (`ByteRange_proofs`, `ByteRangeUse_proofs`). `LowerBoundIs` says
  what the search returns, `InsertOrExtendIs` and `MergePreviousIs` what the two
  halves do; from these follow type, order and content: `AddSegmentClaims` says
  that the segments claim exactly what they claimed before and the new bytes.
  The theorems hold for segments that overlap or come again. `AlwaysCanonical`
  is the one that needs each byte to be added once (which `Canonical` says
  itself): then neighbours never touch (`AddSegmentGapped`), which needs both
  halves of `addSegment`, the one that extends and the one that merges.
* **Storage** (`FlatPieceMemoryStorage_proofs`), `Spec`, every interleaving.
  The invariants are not inductive as they stand. `Window` needs to know that
  every slot list is a run of consecutive pieces from the reading position on;
  `NeverPastWriter` needs that the writing position a read works with, taken
  before the unlock, is one that `absWPos` has passed since and is less than the
  size of the cache away (`LocalIsBehind`), and that `absRPos` does not change in
  the middle of a read; `NoLostWakeup` needs that `updatingBuffer` is set exactly
  while a write is under way. These are `PlayerInv` and `SourceInv`. A lemma for
  each action shows that it keeps `Inv`; `RequestSlotsIs` and `AdvanceWPosIs` say
  what the helpers return. `StorageImplementsWindow` maps each step to a step of
  `ByteStream!WindowSpec` or to a stutter; a read takes effect when it has copied.
  `AssertsNeverFail`: the amount that is copied piece by piece is the one that
  was computed from the two positions.
  What a blocked read can count on needs no fairness: it has the first slot of the
  list (`WaitsForHeadSlot`), so that the block it waits for is not dropped as out of
  range, and the write that completes the byte wakes it (`HeadWriteWakes`).
* **Storage, steady slots** (the same module, `SteadySpec`). The
  bytes of the window are right because of `SteadyInv`: what a slot claims is in its
  cells (`Backed`), every byte from the piece being read up to `absWPos` is
  claimed by a slot (`Covered`), and `itr` is still the slot of the block that is
  being copied (`WriteUnderWay`, which is what a read that erases slots breaks). Two
  slots have no cell in common, because the pieces of the list are consecutive
  and no more than the cache holds: `WriteCopy` therefore disturbs no other slot,
  nor the bytes that a read is copying.
  `Covered` survives a seek because the writing position is reset with the list,
  and `write()` because `AdvanceWPos` stops at the first slot with a gap.
  `StorageImplementsStream` is the refinement of `ByteStream!StreamSpec`, which is a
  stronger promise than the window (`StreamIsWindow`).
* **The loops** (`FlatPieceLoops`, `LoopSpec`, every interleaving). `LoopInv` says of
  the loop under way that what it has still to do, by its closed form, gives the slots
  and the writing position that the step has set: `ErasesTo`, `RemovesTo`,
  `PrependsTo`, `FilledUp` and `AdvancesTo`, one for each loop, which the end of one
  hands over to the next. Every turn keeps it (`TurnFinishes`), so that
  `LoopsAlwaysCompute` follows at the end: an induction over the steps of the
  behaviour in place of one over the list. `LoopsRefine` says that the loops add
  nothing to the behaviours of `Spec`, hence that every theorem on it is one on the
  code with its loops, and `LoopsComeToAnEnd` that each turn makes a natural number
  smaller or goes on to a later loop, so that no thread keeps the mutex for ever.
* **Session** (`SessionTorrents_proofs`). The calls that post a removal
  wait until every job before it has run, and take the torrent out of the
  containers. So a removal is the first of the jobs, of a torrent that is neither
  being added nor in `m_torrents` (`RemovalsAlone`), unless its torrent file was added
  since: `crossed` has those hashes. No addition is posted for a magnet that loads
  (`AdditionsAlone`), and the torrent of a handle is in the native session
  (`HandlesValid`). `HandlesAlive` follows from the first and the last; the add alert of
  a loading finds its hash in `m_addingTorrents` only in the crossed case, or when
  its torrent is gone, which makes no handle, or stays, as nothing removes it.
  For a patient user `PatientInv` adds what holds of the removals and of the
  metadata under way: a removal is posted and told of once, and only for a magnet
  whose metadata has been taken (`RemovalJobs`, `RemovalAlerts`); metadata is told
  of once for an instance, and not after it has been taken (`MetadataOnce`); a
  magnet that waits is in the native session (`WaitingAlive`). From it follow that
  `m_extraLimit` counts the magnets that wait (`LimitCounts`), that what is
  announced has metadata (`AnnouncedWhole`), that a waiting magnet is added by the
  call that adds it (`AddedByTheCall`), and that every step moves at most one
  torrent, along `TorrentStages` (`MovesAlongStages`).
  `AddingIsPending` (`OnTheWay`): the job that adds the torrent is posted, or no
  removal is under way and a waiting alert tells of a valid handle.
* **Video** (`VlcVideoStream_proofs`), for any finite number of outputs, with the copy
  of `_renderFrame` in steps. `NotOverwritten` needs that nobody but VLC counts the
  frame that is locked, not `_renderFrame` either and not the copy the GUI thread is
  about to hand out, and that a reference that was not raced counts what it points
  to. `PoolBounded` follows by counting: a frame is allocated only when all those of
  the pool are held, and each holder counts one, raced or not. `FramesArrive`
  (`Underway`): an output without the frame displayed last has an announcement
  waiting, or one running that has read that frame.
* **File stream** (`VlcQmlPlayer_proofs`, first part), provided that the stream is
  opened once (`~ Reopens`), with or without failures. `Ahead`: the buffer holds the
  bytes of the file in front of the file's position. `StreamImplementsFile` is the
  refinement of `SeekableFile`.
* **Player** (`VlcQmlPlayer_proofs`). To the stream every step of the player is a
  step of its own, a `close()` or a new stream (`StreamSteps`), so the refinement
  holds while the player replaces one media by another (`PlayerImplementsFile`).
  `MediaOwned` and `StreamAlive` need `OwnedInv`: the media libvlc was given is
  `_media`, it is the only one that is alive and not waiting for its deletion, and
  no input thread outlives `libvlc_media_player_stop()`. The proof of `Ownership` failed on a
  first version of the model and showed a mistake of it: without parentheses, the
  implication at the end of the guards of `setUrlFile` and of the destructor took
  in `~ destroyed`, so that both could run on a player that was gone. TLC had not
  found fault with it, since the properties held of the additional states too.
* **Handle** (`TorrentHandle_proofs`), for any number of requests, alerts and
  errors. `NoticeAgrees` says something only when both queues are empty; its
  invariant (`NoticeInv`) says what the queues will do: `Followed`, the last
  notice among the waiting alerts is that of the torrent as it is; `LastNotice`,
  without one the session's notice is right or a command is on its way that makes
  it so; `StartupNotice`, a pause that was told of during the start-up is still on
  its way or follows a start; `NotYetIdle`, a start that no alert has told of has
  its resume command on its way, which is the safety half of `Starts`
  (`StartUnderWay`). `PriorityKept` needs `MetadataInv` (the copy
  knows of the metadata exactly from the handling of its alert on, because no
  status without metadata is queued behind it: `Ordered`) and `PriorityInv`: the
  priority asked for last is with the handle, in the queue, or with the torrent.
  `RequestKept` has the list of the shapes that the queue of commands can take
  after a request that was judged by an up-to-date status (`PauseInv`, `RunInv`),
  with what the torrent is at each. `FinishedReported` needs `FinishedInv`: a
  complete torrent has been reported or has a check or a completion in the queue;
  and, as long as no recheck is asked for while another is not over (`CalmInv`),
  no recheck waits while the outcome of a check does, so that the outcome is still
  true when it is handled.
* **Settings** (`SessionSettings_proofs`), for any setters, values and torrents.
  `SettingsTold` (queue limits, rates, plain settings and address; the port is left
  out) holds whenever no `configure()` waits; the inductive form adds
  that the flag agrees with the queue (`FlagsAgree`: at most one call is posted,
  one exactly while `m_deferredConfigureScheduled`), and that what goes around
  `configure()` writes only its own keys (`AdjustLimitsIs`, `BandwidthIs`).
  `NeverExposed` needs `AddressFits`: an address that no longer fits the interface
  is one that `listenInterfaceChanged` is raised for.

**Only model-checked:** everything about liveness (`BlockedReadReturns`, `Starts`,
`ToldInTheEnd`, the leads-to part of `ImplementsStages`), which is not within the
prover's reach. Of `BlockedReadReturns` and `Starts` the part that needs no fairness
is proved. Every other property of a passing run is stated by a theorem.

## 5. Findings

Shown by runs that TLC ends with a violation:

* `flat_stale`: `write()` keeps an iterator into `slotList` over the stretch in
  which the mutex is free (`FlatPieceMemoryStorage.cpp:114` to `121`). A `read()`
  that erases slots in front meanwhile makes it another slot's: bytes are claimed
  for a piece that never arrived, and read. Nothing else leads to wrong bytes:
  `SteadyReadsCorrect` is the theorem for every behaviour without it.
* `session_lost`: a magnet that is added after its metadata has come and before
  the removal of the hidden torrent was announced is lost, while `addTorrent()`
  returns true (`session.cpp:1713`, `3272`).

Further disagreements have a property and a configuration, but no run in
`PROJECT.json`; each ends with a violation of the property named.

| configuration (module) | property | what TLC shows |
|---|---|---|
| `FlatPieceDistance.cfg` (`MCFlatPiece`) | `DistanceNotZero` | a cache that is full from an aligned reading position on: both positions fall on the same cell and `assert(distance != 0)` fails (`FlatPieceMemoryStorage.cpp:57`) |
| `FlatPieceSeekAssert.cfg` (`MCFlatPiece`) | `SeekNotUpdating` | a second `write()` begins before a woken `seek()` has the mutex, and `assert(!updatingBuffer)` fails (line 157) |
| `FlatPieceFalseWait.cfg` (`MCFlatPiece`) | `WaitsOnlyWhenEmpty` | a seek back to a piece that is held resets the writing position to its start, so the next read waits with the bytes in the cache (lines 33, 163) |
| `FlatPieceForever.cfg` (`MCFlatPiece`) | `EveryReadReturns` | the read of the line above waits for ever: its slot is full and nobody asks for the piece again; so does one whose slot was delivered a byte twice, since segments that overlap are not joined (`Range.h:31`). TLC takes a minute |
| `ByteRangeUseRewrite.cfg` (`ByteRangeUse`) | `RewriteHarmless` | a shorter block at byte 0 comes again and is sorted in front of the longer one: `bytesAvailable()` falls, while the test says "write to the same place again - nothing happens" |
| `SessionReload.cfg` (`SessionTorrents`) | `MetadataWhole` | load, cancel, load again: the removed alert of the first loading ends the second with empty metadata (`session.cpp:3338`) |
| `SessionEarly.cfg` | `LimitRaised` | `m_extraLimit` is lowered when the metadata comes and again when the torrent is added (lines 3372, 1714) |
| `SessionCancel.cfg` | `LimitGivenBack` | `cancelLoadMetadata()` leaves the limits raised (line 1513) |
| `SessionAddError.cfg` | `AddingPending` | a torrent that libtorrent refuses stays in `m_addingTorrents` for ever (line 3326) |
| `SessionCancelled.cfg` | `NeverThePreloaded` | load, cancel, add the torrent file: the add alert of the loading is taken for that of the addition, and the handle is of the torrent that is being removed (lines 1890, 3271) |
| `VideoRace.cfg` (`MCVlcVideoStream`) | `FrameAlive` | the GUI thread copies `_renderFrame` while VLC's thread assigns it, and can be left with a frame that was freed (`VideoStream.cpp:121`, `QmlVideoStream.cpp:36`) |
| `VideoTorn.cfg` (`MCVlcVideoStream`) | `NoneOverwritten` | a reference copied during the assignment points to a frame it does not count: `use_count()` calls the frame free, and VLC writes into it while it is shown |
| `PlayerReplay.cfg` (`VlcQmlPlayer`) | `ImplementsFile` | play, stop, play: the stream is opened again with the buffer of the old position, which VLC reads as the start of the file (`FileMediaStream.cpp:27`) |
| `PlayerUrlFile.cfg` (`VlcQmlPlayer`) | `MediaOwned` | `setUrlFile()` of a URL that is not local schedules the deletion of `_media` and keeps the pointer (`QmlPlayer.cpp:207`) |
| `PlayerOutputs.cfg` (`VlcQmlPlayer`) | `SourceAlive` | a player is destroyed before an output, as when `Main.qml` is closed: the output keeps the pointer, which its destructor uses (`QmlVideoOutput.cpp:34`) |
| `SettingsPort.cfg` (`MCSessionSettings`) | `PortTold` | `setUseRandomPort()` changes what `port()` returns and configures nothing (`session.cpp:2199`) |
| `SettingsUnits.cfg` (`MCSessionSettings`) | `SpeedLimitKept` | a limit of 3 MiB is ignored while the present one is 3 KiB: one is taken in KiB, the other in bytes (`session.cpp:2054`) |
| `SessionDelete.cfg` | `DeletedIsGone` | `deleteTorrent()` never removes the native torrent (line 1504) |

## 6. What is left out of the models

* Storage: the unlocked calls of `requestSlots()` and `getSlots()` by tests; a
  receiver of `piecesRequested` in the same thread (a deadlock on the mutex, kept
  as a hazard); blocks of pieces that have no slot (only a signal); spurious
  wake-ups; the overflow of `int` in `bytesInLastPiece()`.
* Session: merging of trackers and web seeds, resume data, `addTorrent2()`;
  additions that end in an exception change nothing.
* Video: `init()`, `deinit()` and the destructors of the video stream; the
  contents of a picture.
* File stream: sizes that VLC asks for; more than one stream on a file.
* `TorrentHandle`: moves of the storage and renames of files (every caller is
  commented out in this commit, so that no legal sequence of calls reaches them),
  trackers and web seeds, queries that copy a field of the status, `m_unchecked`
  and `params.restored`, which no source sets.
  libtorrent is taken to post the paused and resumed alerts in the order of the
  commands that cause them; `NoticeAgrees` rests on it.
* Settings: a change of the network's addresses and the notification of it are one
  step, and the notification is taken to name the interface the session is bound to
  (`session.cpp:1924`). Left out is what `configure()` does not read (IP filter,
  half-open connections) or reads only with a proxy; queue moves; speed limits of
  single torrents; what the timer of the share limits does when it fires; statistics.
* Player: tracks and their models, volume, position, `VlcQmlVideoPlayer` (an older
  player with the same commands).

### Not modelled

Components with status `not_modelled` in `PROJECT.json`, each with its reason.
Three of them have state and threads of their own and would make good modules:
`VlcMediaList` with `VlcMediaListPlayer`, `VlcQmlVideoObject` with its mutex, and
`RangeMemoryStorage`. They are left because no window of the repository uses them (a list player
without a caller, an item that the player does not show, an experiment of
`addTorrent2()`), and everything else came first. The rest of the sources
is what a model has nothing to say about: declarations and properties for QML,
wrappers each call of which is one call of libvlc or libtorrent, conversions and
user interfaces. That is also why the map covers a small share of all lines:
headers of declarations and wrappers are more than half of them, and a setter of
the Session is eight lines of which the model needs one.

## 7. The plan

Done: the modules of section 2, and a proof of every safety property that a passing
run checks. What would come next, in this order:

1. `VlcMediaList` with `VlcMediaListPlayer`: the two lists agree, and an item that
   plays is in both (`MediaListPlayer.cpp:175`).
2. `VlcQmlVideoObject`: the mutex that is held from one callback to another.
3. Queue moves (`session.cpp:1523`), for which `queuePosition()` has to be more
   than 0 first.
4. Piece arithmetic: `TorrentInfo::filePieces`, `pieceLength`, the pieces of
   `setFirstLastPiecePriority()`, against reference definitions.
5. `RangeMemoryStorage`, composed with `SessionTorrents`.

## 8. How to run

    tlc -workers 2 -config FlatPieceConcurrent.cfg MCFlatPiece
    tlc -workers 2 -config FlatPieceSteady.cfg MCFlatPieceLoops
    tlc -workers 2 -config SessionAny.cfg SessionTorrents
    tlc -workers 2 -config Video.cfg MCVlcVideoStream
    tlc -workers 2 -config QmlPlayer.cfg VlcQmlPlayer
    tlc -workers 2 -config TorrentHandle.cfg TorrentHandle
    tlc -workers 2 -config SessionSettings.cfg MCSessionSettings
    tlapm FlatPieceMemoryStorage_proofs.tla

Each run's module and configuration are in `PROJECT.json`.
