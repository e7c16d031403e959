# A TLA+ development of rs-torrent

`rs-torrent` is a foreground BitTorrent downloader written in Rust on tokio.
This directory holds TLA+ models of the parts of it whose correctness depends
on interleavings, crashes and failures, TLC configurations that check them on
small instances, and proofs, checked by TLAPS, that hold for every size.

Paths such as `src/storage.rs` are relative to the repository.

## 1. Inventory

### The system at a glance

`main.rs` parses a command and, for a full download, calls
`download_file_with_shutdown` with a future that completes on Ctrl-C. That
function resolves the source (torrent file or magnet link, trackers, and for a
magnet the metadata from a peer), opens the resume storage, probes peers for
their bitfields, spawns up to ten workers over a shared queue of the missing
pieces, and selects between the shutdown future and the workers' ends. A worker
takes a piece from the queue, fetches it from one of the peers in order of a
ranking, verifies it, and writes it to the storage under the storage's lock; a
failed piece goes back to the queue once. When every worker has ended and the
storage is complete, `finalize` puts the output in place.

| Component | State | Operations | Interacts by |
|---|---|---|---|
| Resume storage (`storage.rs`) | part file, state file, output, staging tree; marks and count in memory | `open`, `write_verified_piece`, `finalize` | the file system; called by the download under a mutex |
| Download scheduler (`download.rs` 57-244, 523-533, 742-754) | queue, shutdown flag, workers, join set | dequeue, requeue, store, join, interrupt | two mutexes, one atomic flag, a shutdown future |
| Peer health and availability (`download.rs` 368-436, 535-740) | per-peer health, known pieces, cooldowns; counts per piece | rank, record success and failure, note bitfield, sort | two mutexes shared by the workers |
| Piece transfer (`download.rs` 438-514, `peer.rs` 134-316) | connection, pending messages, bitfield | bitfield, interested, unchoke, request, block, retry | peer wire messages, timeouts |
| Peer handshake and metadata (`peer.rs` 62-132, 318-461) | extension identifiers, pending messages | handshake, extension handshake, metadata pieces | peer wire messages |
| Tracker client (`tracker.rs`) | connection id and its age, transaction id, timeouts | HTTP query, UDP connect and announce, fallback | datagrams, HTTP |
| Download source (`source.rs`, `magnet.rs`) | none that survives a call | resolve torrent or magnet, try peers for metadata | tracker client, handshake |
| Torrent metadata and layout (`torrent.rs`) | none | parse, verify a piece, lay files out | called by all |
| Parsers, command line, reports, errors, ids | none | parsing and printing | |

### What is hard, and what correctness means

*Resume storage.* It exists for what happens between runs: a process killed at
any await, a machine that loses power, a failing disk, files damaged, replaced
or belonging to another torrent. Correct means: a piece is trusted only if its
bytes verify; a piece once recorded stays recorded; the output appears once,
only complete, and never over somebody else's file; marks on the disk are
backed by bytes on the disk; and a restart fetches only what is missing.

*Download scheduler.* Workers leave when the queue is empty although others may
still put pieces back; shutdown is requested by another task without the
queue's lock; the first failure ends the download but not an interrupted one.
Correct means: no piece has two owners and none is lost, retries are bounded,
shutdown stops new work and drains what is under way, success and interruption
are never confused, and the download ends.

*Peer health.* Cooldowns, known pieces and counts are updated by all workers in
any order; correct means that the counts are the number of peers known to have
a piece, that an unavailable or cooling peer is avoided while another can
serve, and that a failure is followed by its cooldown.

*Piece transfer and peer sessions.* Late, duplicated and unexpected messages,
timeouts in the middle of a message, peers that never answer; correct means
that the assembled bytes are the requested ones in order, that every exchange
ends, and that a peer which follows the protocol is understood.

*Tracker client.* Lost and late datagrams, ids that expire between retries,
trackers that fail or answer empty; correct means that an answer belongs to its
request, that no expired id is used and that the exchange ends in bounded time.

*Download source.* Trackers fail, answer empty or answer well in any order, and
so do the peers asked for metadata; correct means that the first tracker that
knows a peer is used, that failures are told whatever follows, that the error
at the end is the true one and that nothing hangs at a UDP tracker.

*Torrent metadata and layout.* Lengths come from the metadata and are added,
multiplied and subtracted as machine integers; correct means that blocks make
up pieces, pieces the content and the content the files, with no byte missing
or twice, and that metadata which does not add up ends in an error.

`PROJECT.json` lists the hazards line by line, with the properties that cover
them and, for those that no property covers yet, the reason.

## 2. Modules

| Module | What it is |
|---|---|
| `Checkpoint` | Abstract specification: what a user who starts, kills and restarts a download is promised. |
| `ResumeStorage` | `src/storage.rs`; implements `Checkpoint`. |
| `ResumeStorage_proofs` | Nine theorems about `ResumeStorage`. |
| `PieceScheduler` | The scheduler of `src/download.rs`. |
| `MCPieceScheduler` | Symmetry of `PieceScheduler` for TLC. |
| `PieceScheduler_proofs` | Nine theorems about `PieceScheduler`. |
| `PeerHealth` | What the download remembers of its peers (`src/download.rs` 286-436, 516-740). |
| `MCPeerHealth` | Symmetry of `PeerHealth` for TLC. |
| `PeerHealth_proofs` | Four theorems about `PeerHealth`. |
| `PeerConnection` | One connection to a peer (`src/peer.rs`, with its callers in `src/download.rs` 397-514 and `src/source.rs` 108-119). |
| `MCPeerConnection` | The greetings of peers for TLC. |
| `PeerConnection_proofs` | Five theorems about `PeerConnection`. |
| `TrackerQuery` | Abstract specification: one query of a tracker returns once, with a list the tracker gave in answer to it or with an error. |
| `UdpTracker` | The announce to a UDP tracker (`src/tracker.rs` 159-437); implements `TrackerQuery`. |
| `UdpTracker_proofs` | Eight theorems about `UdpTracker`. |
| `DownloadSource` | From a `.torrent` file or magnet link to peers and metadata (`src/source.rs`, the fallback of `src/tracker.rs`, the commands of `src/main.rs`); uses `TrackerQuery` for each query. |
| `MCDownloadSource` | Listings of trackers for TLC. |
| `DownloadSource_proofs` | Six theorems about `DownloadSource`. |
| `Layout` | Files, pieces and blocks as byte ranges (`src/torrent.rs`, `src/storage.rs`, `src/download.rs`). |
| `MCLayout` | Torrents for TLC. |
| `Layout_proofs` | Seven theorems about `Layout`. |
| `FiniteSums` | Lemmas on least numbers, on induction over numbers and finite sets, and on sums over finite sets, which the proofs of `PieceScheduler` and `Layout` share. |

### ResumeStorage

*State.* `done`, `count` are `ResumeState`; `pc`, `cursor` and `temp` are where
the process is inside `open`, `persist_state`, `write_verified_piece` or
`finalize`; `failed` says whether a write has returned an error, which the
download never forgets. The directory `dir` maps the four names (part, output,
staging, state file) to a file, to nothing or to somebody else's entry; `seen`
gives each file's contents, as the set of pieces whose bytes verify. `durable`
and `disk` are the directory and the contents that a power failure leaves.

*Actions.* `OpenPart`, `LoadState`, `Reconcile` are `open`; `WriteTemp`,
`SyncTemp`, `RenameTemp` are `persist_state`, which `open` and every write run
to the end; `WriteData`, `SyncAndMark` and `WriteFails` are
`write_verified_piece`; `BeginFinalize` to `RemoveState` are `finalize`. The
steps are cut at the awaits that change a file or a directory, because a
process may be killed at each of them (`Kill`).

*Environment.* Each kind of fault is enabled by a member of `Faults`: `kill`,
`io` (an operation of a write fails and the caller survives), `power`,
`damage` and `other` (the part or state file is damaged, or another torrent is
downloaded to the same destination, while no process runs), `foreign`
(somebody creates the output path) and `race` (even between `finalize`'s check
and its rename).

*Abstractions.* A piece either verifies or does not: zeros, torn writes and
other torrents' bytes are the same. A part of a piece written over a verified
one rewrites the same bytes. The temporary state file has no name of its own:
`open` truncates whatever an earlier process left of it. Directory
entries become durable in the order they were made, as on journalling file
systems; contents become durable at `sync_data` or at any time (`Writeback`).
Materialization is cut at pieces, not at files. `OutputDurable` and
`CheckpointDurable` are about single-file torrents: a multi-file output after a
power failure is disagreement 3 of section 4.

*Refinement.* `Promise == INSTANCE Checkpoint` maps `running` to "a process is
alive", `delivered` to "this program's output is in place" and `kept` to what a
restart would not fetch: everything once delivered, else the marks of a usable
state file whose pieces verify in the part file. As everything counts as kept
once the output is in place, `Checkpoint` does not see the window between
`finalize`'s rename and the removal of the state file, in which a kill makes the
next process fetch all pieces again: that is what `finalize_crash` is for.

### PieceScheduler

*State.* `queue`, `queueLock`, `storageLock`, `flag` (`shutdown_requested`),
`stored`, and for each worker `pc` and `task`; of the main task `signal` (the
shutdown future is ready), `interrupted`, `joined` and `result`. `attempts` and
`late` are histories that the properties need and no action reads.

*Actions.* `LockQueue`, `CheckShutdown`, `PopTask` are `dequeue_piece_task`:
the main task may set the flag between the read and the pop, so they are two
steps although the lock is held. `FetchOk`, `FetchErr`, `FetchHangs` are the
outcomes of `download_piece_with_retry_from_peers`. `LockStorage`, `WriteOk`,
`WriteErr`, `HandleFailure`, `Requeue` are the arms of the worker's match.
`SeeShutdown`, `RepollShutdown`, `Join`, `JoinNone` are the select loop and what
follows it; `Abort` is what dropping the join set does to workers at an await.
`future` says what polling the finished shutdown future again does: `"panics"`
is an async block, which is what the command line passes; `"pends"` is a
future that may be polled again, such as the pending future of `download_file`.

*Abstractions.* The order of the queue is left out: `PopTask` takes any task,
so what holds here holds for every order that peer availability produces. A
write is one step under the lock; `ResumeStorage` models its inside. The
shutdown flag uses relaxed ordering; it is one location, and the properties
only use that its read returns either value, so interleaving is enough.

### PeerHealth

*State.* For each peer `length` and `good` are `known_pieces` (0 for `None`),
`unavailable` is `unavailable_pieces`, and `cooling` is what is left of
`cooldown_until`; `availability` is the table of counts. `unprobed` is the part
of the peer list that the startup probe has not asked; the list may name a peer
twice (`Doubled`), as nothing removes repetitions. `left` is the number of
fetches the queue still grants a piece, and `fetch` is a worker inside
`download_piece_with_retry_from_peers`: its piece, the candidates it has left
in their order, the age of `attempt_started_at`, and the time since the current
try began (-1 in the sleep before it). `evidence` and `asked` are histories.

*Actions.* `ProbeOk` and `ProbeErr` are the probe of one peer; `Begin` ranks
the candidates; `Succeed` and `Fail` are the arms of the loop over them, with
`RecordSuccess`, `NotePieceSuccess`, `RecordFailure` and `RecordMissingPiece`
for the functions they call; `GiveUp` is the loop's end. Both tables are locked
during an update, so each is one step. `Tick` lets one `RETRY_DELAY` pass.

*Abstractions.* Time is counted in `RETRY_DELAY`s, and an instant is kept as the
time until it, so that time needs no bound. A try may end in any way at any
time, except that only a try older than `RequestTimeout` times out: ten seconds
are five delays. The criteria of the ranking after cooldown and known pieces
are left out, so peers equal in those two come in any order. Any piece may be
taken next. A try that never ends is a worker that takes no more steps.

### PeerConnection

*State.* `goal` is what the connection is made for: the startup probe, the
blocks of one piece, or the metadata of a magnet link. `phase` is the call of
`Peer` the task is in, `attempts` the loop variable of `handshake` and then
`retry` of the current block, `pending` is `pending_messages`, `theirId` the
identifier in `extension_handshake` (`NoId` for none; 0 is an identifier like
others), `data` which blocks `piece_data` or the
metadata consists of. `wire` and `asked` are the two directions of the
connection. `torn` says that a timeout cut a message. `peer`, `choking`,
`chatter` and `lacks` belong to the other end; `refused` and `faults` are
histories.

*Actions.* `Handshake` and `HandshakeFails` are the attempts of `handshake`;
`ReceiveExtension` and `Defer` the loop of `receive_extension_handshake`;
`ReceiveBitfield` is `receive_bitfield` with the check of `has_piece`, and
`ReceiveUnchoke` and `ReceiveMetadata` take one message each in the loops of
these names. `ReceiveBlock`, `BlockTimeout` and `ReadTorn` are the ways in which
an attempt of `download_piece_from_peer` goes on or ends, with `LoseAttempt`
and `NextBlock` for what follows. `ReadTimeout` and `ConnectionLost` are the
errors of a read or a write. `Proceed` is what each caller does after
`handshake`.

*The peer.* It is not this program, so it does anything that the protocol
allows, and some that it does not: it greets with any sequence of `Greetings`,
answers each request once and in order, after any delay, well or badly; chokes,
which drops its requests, and unchokes; sends messages of other kinds, `Chatter`
of them or, if that is `Endless`, any number; hangs up.

*Abstractions.* A message is a pair of its kind and a number: the block, the
identifier, or whether the bitfield has the piece. Messages that the code
treats alike have one kind, so `choke`, which carries the identifier of a
keep-alive, is `aux`. An unknown message ends the wait for an unchoke and costs
an attempt among blocks, as in the code; the former counts as the peer's
refusal. Offsets and lengths of blocks are abstracted to right and wrong. The
requests that the client writes arrive at once: every delay can be put into the
answer. After a cut message the rest of the connection is noise: each read may
give an error, a wrong message, or, should the noise look like one, a block of
other bytes, and the peer, which still gets proper requests, says nothing new.

### UdpTracker

*State.* `phase` says whether the exchange is about to send or waits, in
`udp_connect` or `udp_announce`; `tries` and `attempt` are the loop variables of
`send_udp_with_retry` and `udp_announce`, `wait` the `timeout_duration` of the
current one, `left` what is left of the timer. `id` and `elapsed` are the two
fields of `UdpConnectionId`, `tid` is the transaction id drawn last. `now` is
the time since the beginning, which the code does not keep; `given` is a
history of the lists the tracker gave.

*Actions.* `ConnectSend`, `ConnectTimeout` and `ConnectAnswer` are the turns of
`send_udp_with_retry` within `udp_connect`: all attempts send one packet, hence
one transaction id. `AnnounceSend`, `Renew`, `AnnounceTimeout` and
`AnnounceAnswer` are the turns of `udp_announce`, where every attempt draws its
own. The datagram that `recv` returns first is the answer, whichever it is.
`SocketError` is a failing `send` or `recv`.

*Environment.* `requests` and `net` are sets of datagrams on their way, so that
any may be taken late, out of order or never; `copies` bounds those delivered
twice. The tracker answers a request well or with an error, `Refusals` naming
the requests it may refuse. `Tick` lets time pass while the client waits.

*Abstractions.* A connection id is the time at which it was asked for, the
earliest at which it can have been issued, so its age is never underestimated.
Transaction ids are distinct, although the code draws them at random. A
datagram is well-formed or an error; its peers are a list or an empty list.

*Refinement.* `Query == INSTANCE TrackerQuery` maps `given` to the lists given
so far and all errors to one.

### DownloadSource

*State.* `magnet` and `use` are what the command was given and what it does with
the peers. `listed` becomes `trackers`; `lastEmpty`, `errors` and `selected` are
the variables and the result of `query_with_outcome`, with a tracker named by
its position. `untried` counts the peers not asked for metadata yet, `result`
and `told` are what the command ends with and the warnings it has passed on.
`given` and `outcome` are the current query's, `answers` is a history.

*Actions.* `ListTracker` and `StartQueries` build the list: `push_tracker` keeps
a URL once, a magnet link keeps each. `TrackerAnswers` and `QueryReturns` are
the two actions of `TrackerQuery`; `FoundPeers`, `FoundNone`, `Failed` and
`Exhausted` the arms of the loop over the trackers, the first and the last with
all that the command does with a response (`UsePeers`). `PeerServes`,
`PeerFails` and `NoPeerServes` are the loop over the peers of a magnet link, or
the use of its first peer.

*Abstractions.* A tracker's answer has a number of peers, a peer gives the
metadata or fails; the exchange with it is `PeerConnection`. Parsing of links
and of answers is left out: what does not parse is an error.

### Layout

*State.* `length`, `layout` and `offset` are what `calculate_length` and
`build_layout` have made of the files seen so far; `part` is the part file,
`piece` and `data` the piece being fetched, `completed` the marks; `PieceOffset`
is `piece_offset`, whose product wraps around as the code's does; `source` and
`remaining` the positions of `materialize_multi_file_tree`, `output` the files
made. A byte is named by its position in the content, -1 is a byte nobody wrote.

*Actions.* Each loop of the code takes one step a round: `LayoutFile`,
`FetchBlock`, `CopyChunk`; `Open`, `BeginPiece`, `StorePiece`, `RenameSingle`,
`BeginCopy`, `OpenFile` and `Finish` are what is around them. The ways to fail
have actions of their own: `RefuseLayout`, `RefuseOpen`, `CannotBegin`,
`CannotStore` (a position beyond the largest `i64`), `CannotOpenFile`,
`CannotCopy`.

*Abstractions.* `usize` has `Word` values and an `i64` reads the upper half as
negative; `checked` says whether the build panics at an overflow, as debug
builds do, or wraps around. A piece larger than `Memory` cannot be allocated.
Peers deliver and hashes agree: what happens otherwise is the other modules'.
Two paths clash if they are equal or one lies below the other. The name matters
only where it becomes a directory, whose components are checked. The two loops
over the files, for the length and for the layout, run side by side.

## 3. Runs

| Run | Instance | What it shows |
|---|---|---|
| `storage_restart` (`StorageRestart.cfg`) | 3 pieces, 4 files, both layouts, all faults but power and race | the storage implements `Checkpoint` and keeps its invariants across any number of processes |
| `storage_power` (`StoragePower.cfg`) | 2 pieces, 4 files, single file, kill, io, power | what a power failure leaves is consistent |
| `scheduler` (`Scheduler.cfg`) | 2 workers, 3 pieces, 1 requeue, both futures, all faults | ownership, completeness, bounds, quiet interruption, no deadlock, termination |
| `peer_health` (`PeerHealth.cfg`) | 2 peers, one listed twice, 2 pieces, 2 workers, 2 fetches each | counts, ranks and candidates stay right under every order of reports |
| `peer_connection` (`PeerConnection.cfg`) | 3 blocks, 3 attempts, 5 handshakes, 8 greetings, 2 unasked messages | blocks stay in order, a connection fails only for a cause, and ends; only repeated deferrals and unasked messages do not bring the end nearer |
| `udp_tracker` (`UdpTracker.cfg`) | 3 connects and 3 announces each, 1 duplicate, ids that expire | answers belong to their requests, ids stay young, the exchange ends in time and implements `TrackerQuery` |
| `download_source` (`DownloadSource.cfg`) | all listings of up to 3 of 5 URLs, 3 commands, up to 2 peers | the right tracker wins, failures are told, errors are true |
| `layout` (`Layout.cfg`) | some 400 torrents, six-bit `usize`, both kinds of build | files are exact, and a download fails only for its metadata |
| `finalize_crash` (`FinalizeCrash.cfg`) | 2 pieces, kill | *violated*: a kill before the state file is removed causes a second download |
| `shutdown_panic` (`ShutdownPanic.cfg`) | 3 workers, 3 pieces, shutdown | *violated*: the finished shutdown future is polled again |
| `bitfield_first` (`BitfieldFirst.cfg`) | a greeting with the bitfield before the extension handshake | *violated*: the wait for the extension handshake never ends |
| `metadata_id` (`MetadataId.cfg`) | a peer that chose another identifier than 1 | *violated*: correct answers are skipped until the timeout |

Four more configurations are for the reader of section 4; TLC finds each of
them violated in seconds: `StaleCount.cfg` and `FinalizePower.cfg` with
`ResumeStorage`, `TimeoutCooldown.cfg` with `MCPeerHealth` and
`WarningsLost.cfg` with `MCDownloadSource`.

### Properties

`ResumeStorage`: `TrustedAreVerified` (from reconciliation on every mark has
verified bytes), `StoredIsRecorded` (an idle storage without failed writes has
a state file with exactly the marks in memory), `OutputComplete`,
`ForeignKept`, `CheckpointDurable` (a committed state file marks only pieces on
the disk), `ResumeReadable`, `OutputDurable`, `ImplementsCheckpoint`.

`PieceScheduler`: `OneOwner`, `NoPieceLost`, `NeverIncomplete` (the error "Some
pieces failed to download" is unreachable), `BoundedAttempts`, `LateDequeues`
(at most one piece begun after shutdown in all, whatever the number of
workers), `InterruptedIsQuiet`, `NeverStuck` (until the download is over a
worker or the main task can go on, or a worker waits for a silent peer; no order
of locks, failures and panics makes everyone wait on everyone), `StepsRunOut`
(every step lowers a number of steps left), `Termination`, `InterruptionDrains`
(an interrupted download drains its workers; this says something only of a
shutdown future that may be polled again after it is ready, which is not the one
that `main.rs` passes: for that one see `shutdown_panic`).

`PeerHealth`: `CountsMatchKnowledge` (a piece's count is the number of peers
known to have it, and at most one too high once it is fetched), `EvidenceWins`
(what a peer showed last of a wanted piece decides its rank), `FailsAfterAsking`
(no candidate is skipped for a cooldown or a missing piece).

`PeerConnection`: `BlocksInOrder` (what is assembled is the blocks in order),
`FailsForCause` (a connection fails only if the peer refused, hung up or was
silent, or made a whole set of attempts fail; late answers alone never do it),
`AsksOnlyHolders`, `StepsRunOut` (after the greeting every step lowers a number of
steps left, unless it puts off again a message that was put off before, or is the
peer's sending a message unasked, which raises the number by three at most),
`EndsUnlessDeferred` (it ends, if no message comes before the extension handshake
and the peer does not send unasked messages for ever).

`UdpTracker`: `AgeBounded` (no announce carries an id older than its lifetime
and the timeouts of one connect), `OwnAnswer` (the list returned answers the
last announce), `MismatchForCause` (a foreign transaction id ends the exchange
only after a retry or a duplicate, and never in the first connect),
`EndsInTime` (14, 18 or 24 initial timeouts, as an id may be renewed never, once
or twice), `Ends`, `ImplementsQuery`.

`DownloadSource`: `FirstWithPeers` (the first tracker that knows a peer, or the
last empty answer when all were asked), `WarningsToldUnlessDeserted` (a command
that ends has told of every tracker that failed, unless every peer of a magnet
link failed), `ErrorsAreTrue`, `UdpNeverHangs`.

`Layout`: `PiecesTile` (each completed piece is at its place, whatever the order
of writing; a place that has wrapped around is shared with no other piece),
`FilesExact` (files that are made consist of exactly their bytes, whatever the
metadata), `FailsForCause` (with `Reasonable` metadata nothing fails),
`Concludes` (no length leaves a loop without an exit).

The type invariants of these modules are theorems, so the runs do not repeat them.

### Bounds, and why they are enough

Pieces interact only through the sets that mark and hold them. Three pieces
give one that is done, one under way and one missing; two are enough where only
the order of steps on one piece and its neighbour matters. Four files are one
more than can have a name at once through a part file, an output, a staging
tree and what the durable directory still names. Processes, restarts and faults
are not bounded: the state space is finite because memory and directories are.
Two workers and three pieces give a worker that ends on an empty queue while
the other still requeues, a piece that waits while both are busy, and contention
on both locks; `RetryLimit = 1` is the value of `PIECE_REQUEUE_LIMIT`. The
proofs remove these bounds for the safety properties.

In `PeerHealth` two workers report on the same peers while each fetches a piece
of its own; two peers are enough for one to overtake the other in the ranking,
the repeated one gives a bitfield that replaces an earlier one, and two fetches
of a piece let the second be ranked by what the first showed. `PeerHealth.cfg`
shortens `CooldownAttempts` and `RequestTimeout` to one, which only makes more
orders of reports possible; `TimeoutCooldown.cfg` has the values of the code.

In `PeerConnection` three blocks are needed for a late answer to be read two
blocks later; `BlockRetries = 3` and `HandshakeAttempts = 5` are the values of
the code. Two unasked messages let a choke meet one other message, and a
block's request be forgotten and repeated. The greetings are every order and
kind that a step distinguishes: with and without the extension bit, with and
without the piece, with no, an unreadable, the zero or the own identifier. Those
that lead to the two disagreements have runs of their own.

In `UdpTracker` the numbers of attempts are the code's. `InitialTimeout = 1` is
the unit, and with `Ttl = 2` ids do expire between the announces, once or twice:
with the code's 5 and 60 seconds they never would, as an exchange waits 5 and 10
seconds before its last announce, and `Renew` would not be reached. One
duplicate is enough for a copy of an answer to be read in place of a later one;
more only repeat it. `Lists = {"peers"}` because the code treats lists alike,
and `Refusals = {"announce"}` because an error in answer to a connect ends the
exchange as a failing socket does. The proofs have neither bound.

In `DownloadSource` three trackers give one that fails, one that is empty and
one that has peers, in each order; the five URLs are empty, two by UDP, one by
HTTP and one of a scheme that is refused. Two peers are a first and a next one.

`Layout.cfg` has blocks of two bytes, a copy buffer of three and pieces of up to
eight, so that a piece has several blocks and a last short one, a file several
rounds and a last short one, and files end inside pieces and blocks. Six bits
are the fewest in which sums of lengths, their signs and the last piece's
subtraction overflow while several pieces still fit. The torrents have files of
every length up to seven, empty ones, too few and too many pieces, names and
paths that are unsafe or clash, and piece lengths whose products overflow: the
last piece then fits into memory at an offset that has wrapped around to 0 or 2,
or lies beyond the largest `i64`.

`Scheduler.cfg` and `ShutdownPanic.cfg` say `CHECK_DEADLOCK FALSE`: a download
ends, and one whose peers all stay silent really stops. So do the
configurations of `PeerConnection`, `UdpTracker`, `DownloadSource` and `Layout`:
a connection, an exchange, a command and a download end.

### Fairness

Liveness properties are checked of `PieceScheduler`, `PeerConnection`,
`UdpTracker`, `DownloadSource` and `Layout`. A task that can run is polled by
tokio's scheduler: weak fairness of each worker's and of the main task's steps.
tokio's mutexes queue their waiters: strong fairness of taking a lock and of
requeueing, which takes one. Fetching a piece ends, by success or error, weak
fairness of `Fetch`; the exception is a peer that accepts a connection and
never sends its handshake, which the code reads without a timeout. `FetchHangs`
models it and takes the worker to `"stalled"`, and `Termination` and
`InterruptionDrains` are stated for behaviours in which that never happens
(`[]NoStall`). Nothing is assumed of Ctrl-C, of errors, of panics or of
`RepollShutdown`.

In `PeerConnection` the client's task runs and its timers expire, and one of
its steps is always the expiry while it waits: weak fairness of `Client`. The
handshake, again, has no timer: it is answered or the peer hangs up. Of the
peer nothing else is assumed but that it sends finitely many messages unasked:
in the runs `Chatter` is two. The code does depend on that: `receive_unchoke` and
`receive_metadata_message` read the next message with thirty seconds of its own
after each one they skip, so a peer that sends keep-alives or haves for ever and
never what is awaited holds a worker for ever. `EndsUnlessDeferred` is true only
of peers that stop; `StepsRunOut` and its theorem count such messages instead of
bounding them.

In `UdpTracker` the client's own steps and the clock go on: weak fairness of
`Proceed` and of `Tick`. Nothing is asked of the tracker or the network, whose
datagrams may all be lost. In `DownloadSource` the command's local steps go on,
and a query returns unless it is an HTTP request: `Ends` of `UdpTracker`
justifies that for UDP, while `reqwest` is used without a timeout. Peers asked
for metadata may be silent for ever. `Layout` is sequential: weak fairness of
its next step says that peers deliver.

## 4. Disagreements met

Eight properties show the code doing other than its documents say. Four are
runs, whose `findings` entries in `PROJECT.json` quote the line; the other four
are shown by further configurations.

1. `CountIsExact` (`StaleCount.cfg`): `reconcile_completed_pieces` clears marks
   and not the count, which is printed, persisted and incremented from there.
2. `ResumesOnlyMissing` (run `finalize_crash`): a process killed after
   `finalize`'s rename and before the removal of the state file leaves both. The
   next run passes `ensure_target_is_available` because the state file exists,
   creates an empty part file, downloads everything and is refused at
   `finalize`.
3. `CheckpointDurable` (`FinalizePower.cfg`): a multi-file `finalize` copies,
   flushes, renames, and removes the synced part file. No copy is ever synced.
4. `ShutdownKeepsWorkers` (run `shutdown_panic`): `tokio::select!` in a loop
   polls `&mut shutdown` again after it has completed. The async block of
   `main.rs` panics then, and the workers it should have drained are aborted.
5. `TimeoutCools` (`TimeoutCooldown.cfg`): cooldowns count from the ranking of
   the candidates, and that of a timeout is four seconds, but no try times out
   before its tenth second. The cooldown of a peer that timed out is therefore
   never in effect.
6. `ConnectionEnds` (run `bitfield_first`): `receive_extension_handshake` pushes
   other messages to the queue that `receive_message` pops first. One such
   message is popped and pushed back for ever, without an await that could let a
   timeout expire.
7. `FailsForCause` (run `metadata_id`): metadata pieces are awaited under the
   identifier the peer announced, but are sent under the one the client announced.
8. `WarningsSurvive` (`WarningsLost.cfg`): if every peer of a magnet link fails,
   `retrieve_torrent_info_from_magnet` returns its error (`src/source.rs:105`)
   and drops what the failed trackers said. `CHANGELOG.md:21` has the warnings
   survive.

## 5. What is proved

All proofs are for every value of the constants, from the named assumptions
of the modules: `StorageAssumption` (at least one piece, files are numbers,
the special values differ), `RecordAssumption` (a state record is none of
them), `SchedulerAssumption`, `WorkerCountAssumption` (at least one worker, no
more than pieces, as `worker_count` has it) and `TaskAssumption`,
`PeersAssumption` (a finite list), `NumbersAssumption` and `FetchAssumption`
(limits are naturals, `None` is no fetch), and `ConnectionAssumption` (positive
limits, greetings of well-formed messages with one bitfield each),
`TimesAssumption` (positive timeouts), `ListingAssumption` (listings of named
URLs; no URL is of two schemes), `LayoutAssumption` (files and lengths that a
`usize` holds) and `SizesAssumption` (positive sizes; twice the memory, and all
the pieces that fit into it, are less than 2^64 bytes). Theorems about
an instance with fewer faults say so in an `ASSUME`.

`ResumeStorage_proofs`:

- `TypeCorrect`, with the range of `cursor` at each position.
- `VerifiedBeforeTrusted`: under *all* faults. The strengthening `PartInv` adds
  that a running process has a part file that no other name shares, that
  `Reconcile`'s loop has checked the marks below its cursor, and that the piece
  between its write and its mark is in the file. It is needed because no step
  but the loop looks at the bytes again.
- `StoredPiecesAreRecorded`, under all faults.
- `OutputIsComplete` without power failures: `OutInv` follows the copy loop
  and says that `finalize` runs only with every mark, hence with every piece.
- `ResumeFileIsReadable` without outside damage: no record that may be
  committed was renamed before it was synced.
- `CheckpointIsDurable` and `OutputIsDurable`, for single-file torrents whose
  files nobody else touches. The invariant relates the two views: what is
  marked is on the disk, in the running directory and in the committed one,
  and contents on the disk only grow (`DiskGrows`). For multi-file torrents the
  configuration `FinalizePower.cfg` refutes the first.
- `ForeignOutputIsKept`, an action property, without power failures and race.
- `CheckpointIsImplemented` without power failures: the storage refines
  `Checkpoint`. `KeptInv` says that the memory never lacks a piece that the
  state file marks and the part file holds, so that replacing the state file
  can only add; each action then maps to one step of `Checkpoint` or to none
  (`NextRefines`).

`PieceScheduler_proofs`:

- `TypeCorrect`, with `WorkerInv`: which positions hold a task and which a lock.
- `PiecesHaveOneOwner`: `Apart` states ownership over workers and tasks; it is
  inductive with `WorkerInv`.
- `NoPieceIsLost`: `AllPlaced`; only a worker that fails drops a task it holds
  (`DropFails`), and a failed worker stays failed.
- `AttemptsAreBounded`: `RetryInv`, attempts plus retries left is constant, and
  ownership keeps a pop from touching another task's count.
- `AtMostOneLateDequeue`: `LateInv`; the lock admits one worker to the pop.
- `DownloadIsNeverIncomplete` and `InterruptionIsQuiet`: `JoinInv`; the
  essential part is that, without shutdown, a non-empty queue always has a
  worker that has not ended well, since a worker leaves only an empty queue.
- `DownloadIsNeverStuck`: `NeverStuck` follows from `JoinInv` and from who may
  hold a lock: a holder of the queue waits for nothing and a holder of the
  storage only for the file system, so a worker that waits for a lock waits for
  one that can go on; and a main task that waits has somebody left to join.
- `StepsAreBounded`: `StepsLeft` charges a missing piece for the attempts it has
  left and a worker for its position, so that a requeue, which gives a piece back,
  costs an attempt. It starts at no more than `MaxSteps`, is a natural, and each
  step lowers it: a download takes at most `MaxSteps` steps.

`PeerHealth_proofs`:

- `TypeCorrect`, with `StartInv`: a peer without a vector has no marks, and
  nothing is fetched or missing before the probe is over.
- `CountsAreKnowledge`: `CountInv` with `OneFetch`. `RecountFollows` shows that a
  difference against the peer's own previous mark follows the set of holders;
  the strengthening says that the count is exact while a piece is queued or
  fetched (`Wanted`), and since only one worker fetches it, the one success
  that a short vector cannot hold is the last change.
- `EvidenceDecides`: `EvidenceInv`, for every piece that is `Wanted`; a vector
  made up by another piece's report changes no rank that evidence decided.
- `EveryCandidateIsAsked`: `AskInv`, what a fetch has tried and what it has left
  are disjoint and add up to the candidates.

`PeerConnection_proofs`:

- `TypeCorrect`: `PhaseInv` says which variables are untouched in which phase,
  that nothing deferred is an extension handshake, and which phases serve which
  goal. It is needed for the bound on `attempts`, which two loops share, and
  for reads outside the handshake, which must find `pending` empty.
- `BlocksAreInOrder`: inductive with the types; the block appended is the one
  compared, whatever is still on the wire.
- `OnlyHoldersAreAsked`: `LackInv`, every bitfield under way, deferred or not,
  says what the peer said first.
- `FailureHasCause`: `FailsForCause`, for peers that choose this client's own
  identifier for ut_metadata (`ChooseOwnId`; `metadata_id` shows what happens
  otherwise). Its invariant `CauseInv` has four parts. `LagInv`: while blocks
  are awaited, the answers that are under way or still owed and are not the
  current block's, together with the attempts the block has used, are at most
  the faults of the peer. An answer skipped turns one into the other, a
  block that arrives moves the copies of it that are left to the first kind, and only a
  fault lets the sum grow, so the last attempt is lost only after
  `BlockRetries` faults. `WaitInv`: the client never waits for an unchoke, a
  block or metadata that will not come, so that every timeout is the peer's.
  `GreetInv`: as long as the peer has done nothing wrong, what it sent first
  is what the phase expects. `IdInv`: the identifiers agree.
- `EveryStepIsPaidFor`: `StepsRunOut`, and that `StepsLeft` is a natural and the
  peer's first step ends its silence. The number counts the requests that may still
  be made, those on their way and the messages to be read, weighted so that an
  answer costs less than its request and a choke pays for the unchoke after it.
  It counts nothing that only the model has: how much a peer says unasked is not
  in it, and `Chatter` may be `Endless`. So a connection that was answered goes on
  for ever in two ways only: it puts off a message again and again, which is
  disagreement 6 of section 4, or the peer never stops sending messages that
  nobody asked for, which is the renewed timeout of section 3 (Fairness). That the
  second kind is worth at most three steps says that it cannot set off anything
  else, such as further requests or attempts.

`UdpTracker_proofs`:

- `TypeCorrect`, with `Inv`: `Waits` ties each timeout to the attempt it belongs
  to, `Renewals` says how many connects the announces so far can have cost.
- `IdsAgeBounded`: `Ages`, what the code does not count of an id's age is at most
  the timeouts of the connect that obtained it.
- `IdsNeverStale`: if `Ttl` exceeds ten initial timeouts, no announce is made
  with an expired id (`IdsFresh`), because no id that is used grows that old. The
  code's 60 and 5 seconds are such a case.
- `OwnAnswerOnly` and `MismatchOnlyForCause`: `First` follows the datagrams that
  carry the transaction id last drawn, and says that before any retry or
  duplicate no other datagram is under way.
- `EndsWithinTimeouts`: `Times` sums the timeouts over the attempts and the
  renewals; `StepCases` splits a step once for all the parts.
- `IsQuery`: the refinement of `TrackerQuery`.
- `ExchangeStepsAreBounded`: `StepsLeft` counts the sends and timeouts that are
  left, the requests that may still be answered and the time to the last timeout;
  an expired id costs a whole connect more (`Turns`), which its announce has paid.
  Whatever the tracker and the network do, an exchange has at most
  `52 + MaxTime` steps.

`DownloadSource_proofs`:

- `TypeCorrect`, and `TrackersAskedOnce`: a `.torrent` file's trackers are asked
  once each (`AskedOnce`).
- `FirstTrackerWithPeersWins`, `WarningsTold`, `ErrorsTrue`. The invariant ties
  the loop's variables to the history: `ErrorsListed` (the errors are the
  positions of the failed trackers, in order), `EmptyListed`, `PeersLast` (an
  answer with peers is the last), `Metadata` (the peers are asked only after one)
  and `ToldErrors`.
- `SearchStepsRunOut`: every step lowers `StepsLeft`, which charges a tracker for
  its query and its answers and then counts the peers not asked yet. It needs
  `Answering`: there is no answer where no query is under way.

`Layout_proofs`:

- `TypeCorrect`, with `Sizes`, what is known of lengths in each phase.
- `BlocksFollow`: the blocks of a piece follow one another (`BlocksTile`).
- `PiecesAreInPlace`: `Fetched`; writing one piece disturbs no other, as pieces
  are apart and a write behind the end leaves what is before it. In a build
  without overflow checks the offset of a last piece may wrap around, with its
  length: five pieces of 2^62 bytes and a length of 100 put 100 bytes at offset 0.
  `WrapsAlone` is the lemma for it: then no other piece of the torrent fits into
  memory, so nothing is overwritten, and the download never completes.
- `FilesAreExact`: the essential lemma is `Covered`: if every piece fits into
  memory, the last piece's subtraction and no offset have wrapped around, so the part file
  is the content exactly; and a file that could be copied ends within the content,
  so no offset has wrapped (`Copied`).
- `FailuresHaveCause`: `FailsForCause`. `Ends` are the exact offsets at which the
  files end; `Added` says that with reasonable metadata nothing that
  `calculate_length` and `build_layout` have added up so far has wrapped around.
  `Ends` and the total length are recursive functions over the number of files;
  facts about them are proved by induction over a set of numbers (`Induction` of
  `FiniteSums`, from a least counterexample), as the induction theorems of the
  library, which take an operator, are out of the provers' reach.
- `NoPieceIsRefused`: the blocks `fetch_piece` asks for add up to the length
  `write_verified_piece` demands (`PieceFits`), odd lengths and wrapped ones
  included, so that a piece is never refused for its length.
- `EveryLoopAdvances`: each round of each loop lowers `StepsLeft`, the rounds over
  the files, the blocks of the pieces that are not complete and the bytes to
  copy. With the metadata's lengths free to be anything, a loop that makes no
  progress is what could be wrong, such as a chunk or block of length zero.

The five theorems `StepsAreBounded`, `EveryStepIsPaidFor`,
`ExchangeStepsAreBounded`, `SearchStepsRunOut` and `EveryLoopAdvances` are the
part of termination that safety can state: no behaviour of any instance goes on
for ever, fair or not, but for a connection's deferrals and the messages it did
not ask for. What is left to fairness is that what can go on does, and of the
scheduler `NeverStuck` says that something can.

Only model-checked: `Termination`, `InterruptionDrains`, `EndsUnlessDeferred`,
`Ends`, `UdpNeverHangs` and `Concludes`, which are liveness under fairness and
beyond the prover. Every other property of the passing runs is a theorem.

## 6. Plan

Done, in this order: the storage with `Checkpoint`, the scheduler, the peers'
health, the connection to a peer, the UDP tracker with `TrackerQuery`, the
choice of a source, the layout, and their proofs.

Left: `Download`, the scheduler over the abstract `Checkpoint`, so that an
interrupted download and the process that resumes it compose. It needs the
scheduler's missing pieces as a variable, which a restart sets to what
`Checkpoint` has not kept, and the scheduler's proofs restated for it. What the
two promise each other is checked on both sides: a write stores a piece durably or
fails for good (`StoredIsRecorded`, `ImplementsCheckpoint`), and the scheduler
finalizes only when every missing piece is stored (`NeverIncomplete`,
`InterruptedIsQuiet`).

## 7. Not modelled

- The bencode and magnet parsers, the parsers of HTTP and UDP answers, and the
  building of an announce URL: pure functions without state, whose cases unit
  tests reach. The models take what they accept as well-formed.
- SHA-1, info hashes and the comparison of hashes: a piece verifies or not.
- The command line's parsing, reports, error conversions and peer ids: they
  format or draw values and keep no state.
- `download_piece`, the command for a single piece: one fetch, which is
  `PeerConnection`, and one `fs::write`.
- The order of the queue by availability (`sort_missing_pieces_by_availability`,
  `requeue_piece_task`): the scheduler is checked for every order. The ranking
  of peers after cooldown and known pieces: `PeerHealth` is checked for every
  order of equals.
- Two processes that download to one destination at the same time: the code has
  no lock against it and promises nothing.
