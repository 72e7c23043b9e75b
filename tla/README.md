# Verification of nativebridge (1kiss)

TLA+ models of the native layer in `src/src/nativebridge`: a virtual file
system (`vfs`), a download manager (`dlmgr`) that writes into it, a libcurl
wrapper (`curlw`) and the C# bindings. Paths below without a prefix are under
`src/src/nativebridge/rust/src/modules/`; design notes and acceptance lists are
under `src/src/nativebridge/docs/`.

To check: `tlc -config <run>.cfg <module>` for each run in `PROJECT.json`,
`tlapm <module>` for the `*Proofs` modules.

## The system

| component | state it keeps | operations | what makes it correct |
|---|---|---|---|
| vfs index (`vfs/index.rs`, `Inner` in `vfs/mod.rs`) | entries (Active, Deleted, Downloading, Bad), generation, logical size, count of live writers, `compacting` | alloc, write_at, commit, abort, delete, lookup, enumerate in two calls, stat | no two files share blocks; writers and compactions exclude each other; a generation tells a client whether its copy is current |
| vfs persistence (`persist_image`, `open_paths`, `vfs/format.rs`) | header.vfs: a SuperBlock and region slots; in memory the two slots in use and the watermark | flush, the two persists of a compaction, open after a crash | what a flush made durable is found by the next open; a late flush does not turn the header back |
| vfs compaction (`vfs/compact.rs`) | its plan, the files still to move, status, percent | compact: flush, then Scan, Move, Finalize for up to 8 rounds, on its own thread | at every instant the header on disk refers to intact data; it ends and unlocks the index |
| dlmgr queue and workers (`dlmgr/mod.rs`, `dlmgr/worker.rs`) | priority queue, tasks, paused and stop flags, running count | create, enqueue, cancel, cancel_all, pause, resume, set_priority, shutdown | a task ends once, is reported once, and nothing runs after shutdown |
| dlmgr attempt state machine (`worker.rs: transition`, `run_task`) | attempts, resume offset, source in use, crc | one attempt, retry, resume, fallback source | Done only with complete and verified content; retries are bounded |
| dlmgr reporter (`dlmgr/report.rs`) | tasks not yet retired | progress and terminal callbacks | a terminal report exactly once, after the last progress |
| speed limiter (`dlmgr/rate.rs`) | a token bucket for all transfers, one for each task with a limit of its own | acquire (take from the first, align with the second, give the rest back), set_global | never above the rate, a second's burst and the blocks in hand; never stuck |
| sinks and glue (`dlmgr/sink.rs`, `glue.rs`) | a registry; a VfsWriter for a task, with how much was written and a crc that a rewrite gives up | prepare, write, reset, finish, abort, release | the writer is committed or aborted, never left; the crc recorded is that of the file |
| curlw (`curlw/`) | global init count, the pool of fd_sets, a lock set for each share by its address | global_init, global_cleanup, allocfds, freefds, share init, locks, cleanup | init and cleanup balance; nobody uses a pool or a lock set that is gone |
| C# reader (`csharp/Vfs.cs`) | index copy and its generation, mapping of the data file | RefreshIndex, EnsureMapping, TryReadRaw, ReleaseMapping, Compact, Dispose | what it reads is the file it asked for; it finds every Active file; a close loses nothing |
| C# download manager (`csharp/DownloadManager.cs`) | the delegates native code may call, by manager | create, start, callback setters, shutdown | delegates outlive native calls |

The parts meet as follows. C# calls the C ABI of vfs and dlmgr. A dlmgr worker
runs one task at a time, takes its bytes from curlw and hands them to the sink
of the task; the vfs sink (`glue.rs`) turns them into `alloc`, `write_at`,
`commit` or `abort` of a VfsWriter. vfs is entered by any thread under
`Inner`'s mutex; persists are serialised by `persist_lock`; compaction has a
thread of its own, and its callbacks, like the commit callback, run outside
the locks. The C# reader maps the data file directly and uses offsets from its
copy of the index.

Hard behaviours: crashes between any two writes of a persist or a compaction;
I/O errors in the middle of a protocol whose memory state stays in use; a
flush whose snapshot is overtaken by a compaction; multi-round moves over
blocks the header on disk still references; two-call enumeration; the
unlock/status/callback order at the end of a compaction. `PROJECT.json` lists
each with its line under `hazards`.

## Modules

| module | models | state and actions, and the code they stand for |
|---|---|---|
| `VfsLayout` | `build_plan` | operators only. `PlanStep` is the loop body, its record the loop's locals; `Gap` keeps the u64 subtraction modulo `Word`; `Finalized` is the layout Finalize installs |
| `VfsPlan` | the rounds of `compact_run` on a layout | `Place` one loop iteration, `FinalizeRound` the end of a round with the files that failed their crc |
| `VfsHeader` | header.vfs as a sequence of slots | `Scanned`, `Parsed`, `IsBest`, `IsSpare` are what `open_paths` computes, `Dest` and `Put` what `persist_image` does, `After...` what an interrupted write leaves |
| `VfsPersist` | flush, the persists of a compaction, open | one action per step between which another thread or a crash can come: `FlushCall`, `Snapshot`, `Refuse`, `WriteRegion`, `WriteSb`, `Flip`, `CompactStart`, `CompactRound`, `Install`, `CompactEnd`, `IoError`, `Crash`, `Open`; `Mutate` is any index change |
| `VfsDurable` | what the header file promises | abstract: a durable image, and images whose persist has begun |
| `VfsStore` | the whole store | extends `VfsLayout` and `VfsDurable`; index, data blocks as read and as synced, one action per critical section or file operation of alloc, write, commit, abort, delete, flush and compaction (`AllocFails` is an alloc that cannot extend or open the data file, `PlanFile` is one iteration of `build_plan`, `CopyBlock` copies one block of Move), plus `Rot`, `Crash`, `Open`. `StoreNext` is the store whose file operations succeed, `FaultyNext` adds those that do not, `SteadyNext` all of them but the persist that ends a round |
| `VfsIndex` | who may touch the index when | writers with the window in which their handle is opened outside the lock, the compaction gate, status and done callback, a client's query, check and read |
| `DlLife` | the life of a download task as others see it | abstract: state, error and sink, one action per thing a worker or a cancel may do to them; `EndTells` is what a terminal state tells |
| `DlTask` | one task in the hands of a worker: `transition`, `net_retry`, `write_cb`, `perform_attempt`, `run_task`, `terminal` | `Transition` with `NetRetry` and `HttpVerdict` are the pure decision functions; `Begin`, `Empty`, `Connect`, `Reject`, `Receive`, `PerformEnds`, `BackoffEnds`, `GiveUpCanceled`, `Finish`, `End` the steps of run_task between which the cancel flag may be set; `Cancel` sets it |
| `DlManager` | the host's calls, the worker pool, the reporter | one action per critical section of `dlmgr/mod.rs` and per step between two of them: `Enqueue`, `Cancel`/`Find`/`Mark`/`MarkState`, `CancelAll`/`Mark`/`MarkState`/`Flag`, `SetPriority`, `Pause`, `Resume`, `ActiveCountZero`, `Shutdown` ... `Free`, `Notify` for the wake-up at the end of a call; `Pop`, `Wait`, `Exit` are `take_task`; `Tick`, `ReadState`, `Report`, `Retire` are `report_tick` |
| `VfsReader` | a session of the C# reader over the store | extends `VfsStore`; `Native` are the store's own steps; `RefreshIndex`, `Stat` and `Map` (the two halves of EnsureMapping), `ReleaseMapping`, `Compact`, `Dispose`/`Closed` (vfs_close), `Exit`, `Reopen`; `ReaderAlloc`, `ReaderAllocFails`, `ReaderCopy` and `ReaderTruncate` keep the length of the data file |
| `DlSink` | the task of `DlTask` with what its calls on the sink do to a file or to a VfsWriter | extends `DlTask`; each `Sink...` step is the step of `DlTask` joined with `Prepare`, `WriteAt`, `Commit`, `FinishFails` or `DropWriter`; `Release` is the host's, `OtherTakes` and `OtherLeaves` somebody else's use of the name |
| `DlBucket` | what a token bucket promises | abstract: a level that rises with every tick and is capped; a holder draws from it, keeps what it drew in hand (`held`) and settles it to the byte: passed on (`spent`) or given back |
| `DlRate` | `TokenBucket` and `SpeedLimiter` | `TakeGlobal`, `TakeTask`, `Align` are the critical sections of `acquire`; `SetGlobal`; `Tick` is the clock; refill is lazy |
| `Curlw` | the process-wide state of curlw | operators, one for each critical section of global_init and cleanup, the pool and the shares' locks |
| `DlBinding` | host threads that use curlw and managers | over `Curlw`: `Create` ... `Make`, `Start`, `SetCallback`/`SetSlot`, `ClearCallback`, `Shutdown` ... `Remove`, the reporter's `ReadSlot`/`CallBack`, the worker's easy handle in `Configure`/`WorkerEnds` |
| `MC...` | instances for TLC | constants and symmetry |
| `VfsStoreProofs`, `VfsReaderProofs`, `VfsPersistProofs`, `VfsIndexProofs`, `DlSinkProofs`, `DlManagerProofs`, `DlRateProofs`, `DlBindingProofs` | theorems | about the module each is named for; `VfsStoreProofs` also about `VfsPlan`, `DlSinkProofs` also about `DlTask` |

`VfsPersist` and `VfsStore` meet in `VfsDurable`: the first is shown to
implement it (`ImplementsDurable`, a refinement with `disk <- acked`,
`pending <- maybe`), the second is built on its actions. So the store's
crash safety is checked against any header file that keeps the promise, and
the promise is checked against the slots.

`DlTask` and `DlManager` meet in `DlLife` in the same way: `DlTask` implements
it with all a worker does to one task (`ImplementsLife`, a theorem as well as a
run), and in `DlManager` each task of several, pulled at by its worker, by
cancels and by a shutdown, lives such a life (`LivesImplement`). What a worker
does to its task in `DlManager` is `DlLife`'s actions with their place in the
worker's loop. `DlSink` composes the task with its sink: it keeps every property
of `DlTask`, whose steps it refines by conjunction.

`DlRate` is shown to implement `DlBucket` with the level its global bucket would
have if it were refilled now, and with what calls carry between their critical
sections (`Carried`) as what the holders have in hand. `Settle` is the promise of the
alignment in rate.rs:105-107: what goes back is what was drawn less what is passed
on. `AlignAll`, which gives back all that was drawn and still passes on what the task's
bucket allows, is no step of `DlBucket`.

Operators named `...Any`, `...Never`, `AllocStay` and so on, each marked
`Mutant:`, are single faults planted next to the definition they alter. Every
property is shown to fail under one of them.

### Abstractions

Offsets and sizes are counted in 4 KiB blocks, which is all `build_plan` sees.
File contents are pairs of a download number and a position, so that a crc
verifies exactly when all blocks are the expected ones. Crashes, rotten blocks and I/O
errors are met together, but for the error of the persist that ends a round
(`Flipping`), after which disk and memory may disagree about the layout: that one is
in `VfsStore_flip` only. An alloc that fails is one step in `VfsStore`; that its
rollback may be a critical section of its own is in `VfsIndex`. A compaction plans under the inner lock
(`compact.rs:132-145`), so its plan is made file by file and `Snapshot` waits for it;
clients are refused by `compacting` in any case. A region is its
generation, a version number standing for its entries, its length, and how it
parses. Names are model values. Left out: name blobs and their compaction,
percent and progress, the commit callback, `stat`, empty files in `VfsStore`
(they are in `VfsPlan`), rewriting writes in `VfsStore` (they are in `DlSink`), an in-place region
write torn inside its 32-byte header, and zero-filled tails that parse as empty
regions of generation 0. `open_paths`' branch that resets an unreadable header
needs a header in which no region verifies; `AckedIntact` and the absence of
deadlock show that it is not reached from a store this code wrote.

In `DlTask` a file is counted in chunks, one grant of the limiter each; a chunk
is right or wrong and the crc is whether all it took were right and the task
was given the right crc (`sound`): no two contents collide. A response is
absent, a 206, another success or something else; Content-Range, Content-Length
and where the connection drops are free choices, as are the failures of every
sink call. A failed write leaves a wrong chunk, and a failed reset or abort the
file as it was. The lengths of the waits and the headers sent are left out, and the limiter is
`DlRate`; a range response is not tied to the offset asked for, since the code
leaves that to the crc.

In `DlSink` a crc is the sequence of the chunks it was computed over, so two
crcs are equal exactly when they read the same. A vfs writer's region is the
task's file.

In `VfsReader` one host thread follows the protocol Vfs.cs states: it releases
its mapping before it starts a compaction, maps after a refresh, and disposes of
the reader when no writer is outstanding. It opens the store again only when the
process of the last session has ended; opening it while the compaction thread of
a closed handle still runs is not modelled. The retry of RefreshIndex is in
`VfsIndex`. Crashes are in `VfsStore`.

In `VfsPersist` every change of the index takes a new generation. The rollback of an
alloc whose handle does not open (mod.rs:418-424) takes none: it removes a Downloading
entry, which `open_paths` drops anyway, so what a crash brings back is the same and
the rollback is no step of the module. It is one of `VfsIndex`, where the client can
tell.

`DlRate` counts tokens exactly where the code has f64, in the part of a byte a
rate of one byte a second yields in a tick.

In `DlBinding` a manager has one worker and one callback; the addresses of
managers and shares are used again by the next. A thread cleans libcurl up when
it has given everything back, as docs and tests do. `AlreadyEnabled`, the early
return of `enable_default_locks`, is modelled and never taken: a share's address
has a lock set only while its owner has it or erases it (`ShareInv`). Options, header lists and
the parsing of Content-Range are left out.

In `DlManager` the manager was started and has both callbacks; hosts are
interchangeable between calls, and a host calls shutdown when no other call is
under way, because shutdown frees the handle. A flag set on a task that has
ended is not kept since nothing reads it. The reporter's memory of progress
(`prev`) and the totals are left out: an end always differs from what it
remembers, which are states of tasks that go on. The lock of the tasks is held
over several steps only by cancel_all and shutdown (`Locks`). Spurious wake-ups
are left out; they could only hide a lost one.

## Runs

| run | shows | bounds |
|---|---|---|
| `VfsPlan_small` | in every round and for every layout: planned copies touch no source, targets are apart (a conjunct of `PlanInv`), the installed layout is legal, the unsigned subtraction wraps only where it cannot matter, and the 8 rounds are never used up | all legal layouts of up to 4 files, holes, spans (0 included) and tails within the cfg; two files may fail their crc. Three files are the fewest with an exclusion, a file pushed to the end and one in place together |
| `VfsPersist_crash` | the inductive invariant, the active slot is intact, flush is never shut out, no regress of the durable generation, and refinement of `VfsDurable` | two flushers and the compaction; 2 index changes with regions of two lengths (reuse and append), one crash and each way a write can be torn, and 3 with regions of one length and three crashes in a row or one I/O error and one crash |
| `VfsStore_crash` | every index a crash may bring back finds its data in the file as read and as synced; entries apart, below the logical size and intact; nothing flushed is lost | two downloads of one or two blocks under two names, a compaction of up to two rounds, one flusher; one I/O error and one crash, or one rotten block (2.3 million states). A compaction after a failed one, and a rotten block together with the other faults, are left to the theorems of `VfsStoreProofs` |
| `VfsReader_maps` | the host reads the right bytes and finds every file, a close loses nothing, and the compaction ends | two downloads of a name, one compaction, one I/O error but in the flip, one rotten block; the session is closed and opened again at any point |
| `VfsIndex_clients` | the writer count, mutual exclusion, what a generation tells, the status settles, done is called once | two names, one of which may fail to open its handle, two compactions, 6 index changes |
| `DlSink_attempts` | the inductive invariant of a task, Done means the right file and a crc that verifies it, bounded attempts, refinement of `DlLife`, the task ends, and nothing of it is left but a file that is Done | every task of up to 3 chunks, with and without a fallback and with a right or wrong crc, 2 retries, a file or a vfs sink. Three chunks are enough to break off, resume and break off again before the end |
| `DlManager_calls` | the inductive invariant of the manager, one life per task, each end told once and truly, all told when freed, a paused manager that counts no active task is idle, wake-ups and shutdown get through | 2 hosts, 2 workers, 2 tasks (the first may fail) of 2 priorities; two calls overlap while at most one task was enqueued, so that the second enqueue may still meet any call (`MaxCalls`) |
| `DlRate_transfers` | the limiter is a token bucket whose users settle what they draw to the byte, what passes in any stretch of time is bounded, acquire returns to somebody | two transfers, one of a task limited to 1 byte a second, blocks of 1 and 3 bytes, global rates 0, 1 and 3 set at any time, two ticks a second so that bytes come in parts |
| `DlBinding_sessions` | the inductive invariant of the sessions; pool, share locks and delegates outlive their users | two threads, 2 initialisations, 3 managers at 2 addresses and 2 shares, 2 delegates, chunks of 2 fd_sets |

`VfsIndex_clients`, `VfsIndex_rollback`, `VfsStore_flip` and `DlBinding_sessions`
switch deadlock checking off since their bounds on generations, compactions,
downloads and managers may be used up, and `DlSink_attempts` and
`DlManager_calls` because a task that is over and a manager that was freed stop;
a compaction that is done stops too (`VfsPlan_small`). In the other runs somebody
can always go on.

Faults are bounded by pairs because the protocol does not survive every
combination: see the next section.

Three runs end in a violation on purpose:

* `VfsPersist_torn`: an append cut short (disk full) leaves bytes that stop
  the scan; regions appended later are unreachable, although flush succeeded.
* `VfsStore_flip`: Finalize fails at its last fsync, memory keeps the old
  layout, and the disk may have the new one.
* `VfsIndex_rollback`: alloc's rollback after a failed open of its handle does
  not bump the generation.

Met while modelling, and not shown by a run:

* After a crash between region and SuperBlock the region that was left carries a
  generation the next session counts up to again; `open_paths` (`mod.rs:298`)
  may then take the stale region instead of the one a later flush of another
  length made durable. `VfsPersist` with one flusher, `Lens = {1, 2}`,
  `EmptyLen = 1`, `Tears = {}`, two crashes and the invariant `FlushedSurvives`
  shows it; `Manageable` keeps `VfsPersist_crash` out of it.
* `dlmgr_shutdown` frees the manager before `DownloadManager.cs:145` removes its
  delegates. Another thread's create may get the same address and register in
  between, and its delegates are removed; the same pattern is at
  `Curlw.cs:726-744`. `DelegatesKept` exempts a manager `overtaken` in this way,
  and fails without the exemption.
* The wait bound of `rate.rs:93-94` (want over rate) holds for a transfer that is
  alone; with others it may go without for as long as they take what accrues
  (`AcquireReturns`).
* `Vfs.cs:23-26` says that committed data never moves while readers hold it,
  since compaction excludes writers. The native side knows of no readers: it is
  the host that has to release its mapping before it compacts, which
  `VfsReader` makes a guard of `Compact`.
* `compact.rs:224` and `T2-vfs-compaction.md:20` expect no hole after a
  compaction without exclusions, but a file larger than the hole before it is
  moved to the end and the hole stays (the test at `mod.rs:1348` accepts that).
* `mod.rs:969` says the state goes back to Idle after the done callback, the code
  does it before (`compact.rs:121-124`); between `compacting = false` and that
  store a new compaction can start, and its status reads Idle until its next
  stage.
* Bad marks change the index without a new generation if the compaction then
  fails (exempted in `GenerationTells`).

## Fairness

`VfsReader`'s `ReaderSpec` asks that the compaction thread takes steps (it is a
spawned thread that waits for nothing but `persist_lock`) and that a flush
inside `persist_image` comes out of it, by success or error. `VfsIndex` asks
the same of each compaction thread that was started. No client is ever obliged
to act. `DlSink` asks that the worker goes on: an attempt ends by itself, since
the handle has a connect timeout and a low-speed limit, and a backoff is at most
four seconds. `DlManager` asks that threads run: each worker that can step, each
call that was begun, and the reporter, which sleeps 100 ms between rounds; a
paused manager owes nothing (`Settles`), and no host must call anything.
`DlRate` asks that time passes and that each transfer inside acquire takes its
steps. Everything else is safety.

## Proofs

`VfsStoreProofs` (about the planner: for any set of files, layout, spans and `Word`): `PlanInv` is
inductive. The property wanted, `TargetsSpareSources`, is not inductive alone:
what is needed is where targets are. Those below the cursor lie before every
file still to plan, since files come in offset order; those at the end lie past
the logical size, which bounds every source (`Frontier`,
`TargetsBehindFrontier`). From it: `TargetsSpareSources`, `LayoutLegal`,
`WrapsOnlyForEmpty`; that targets are apart is a part of `PlanInv`. Assumptions: the initial layouts are legal,
`Word` is a natural number.

That the rounds end is not an induction over files but a fact about the layout a round leaves
(`RoundsInv`). A round in which no file goes bad leaves two runs (`TwoRuns`): files that close up
from the start, each where another ends (`ClosesUp`), and files past the old end, for which the
hole between the runs has room. A plan of such a layout never meets a file before its cursor and
pushes none to the end (`Fits`), so the round after it is the last. Only a bad file breaks this,
and it is gone afterwards: a compaction takes at most `MostRounds`, two rounds and two for each
file the disk spoils (`RoundsBounded`; `Rotten` is assumed finite). The 8 rounds of compact.rs:131
are therefore never used up while at most two files go bad (`ConvergesInTime`), which are those of
the run; for more bad files the code's own fallback, to leave the holes to the next compaction,
is what remains.

`VfsPersistProofs` (for any threads, lengths, tears and fault pairs):
`PersistInv` is inductive: whoever writes holds the lock, the slot being
written is not the active one, the watermark is the generation of the last
durable image, and the images in flight are no newer than memory except the one
a compaction finalizes. `LockInv` and `SlotInv` are what keeps the active slot
intact, `CompactInv` and `MemoryInv` what keeps the watermark from passing the
index. From it: `AckedIntact`, `NoRegress`, `FlushAccepted`.

The same module proves that the protocol refines `VfsDurable`, in three theorems since
not every combination of faults is survived:
  - `SessionsImplement`, whatever the faults: every step but an open is a step of
    `VfsDurable` or a stutter. `Begun` is what it takes: who writes a region or the
    SuperBlock has begun his image, so a flip makes durable what was pending. An open
    implements `Open` if the region that `open_paths` picks holds the durable image or
    one begun since (`Recovers`), which is about the regions a crash leaves.
  - `OneCrashImplements`, for one crash at any write, regions of any lengths and writes
    torn in any way (`OneCrash`): a generation tells an image (`OneImage`), the SuperBlock
    names the durable one, and of all regions only the one being written can be newer
    (`Untorn`). `OnceInv` is the inductive invariant.
  - `OneLenImplements`, for any number of crashes if all that is persisted has one length,
    whichever it is (`Written`; the empty region of the new file may have another), and no
    region is torn so that the scan stops (`CrashesOnly`). Behind the empty region of a new file there are at
    most two slots, which take turns (`TwoSlots`, `Turns`). A crash may leave a region
    newer than the durable one; the SuperBlock tells the two apart, and the region is the
    next to be written over (`Behind`). What the crash left is told by generations
    (`Told`), and the empty region is loaded again only while nothing else was durable.
    `SwapInv` is the inductive invariant.

Both invariants were given to TLC before they were proved. The assumptions end where the
counterexamples begin: a second crash with regions of several lengths is the stale region
described above, and a tail that stops the scan is `VfsPersist_torn`. Between the two lies an
I/O error with regions of one length, which `VfsPersist_crash` checks.

`VfsStoreProofs` (about the store: for any names, flushers, sizes and reserve, any number of downloads,
compactions and rounds, rotten blocks, I/O errors and crashes): `RecoverableIntact` says that the
header on disk never refers to data that is gone, `NothingFlushedLost` that nothing
durable is forgotten, and neither can be seen from the durable image alone: a flush or
a compaction holds an image it may still write, and a crash makes any pending one the
index. So `Inv` speaks of all `Images` in play, and of the `Live` ones, those not older
than the durable image (an older one is refused by its generation):
  - `OrderInv`: of two live images the newer has every file of the older one, but for
    deleted and rotten files;
  - `ApartInv`: an Active file of one image and another file of another are apart; only a
    file that moves is in two places, and no download lies on a live file. A round that
    fails after files failed their crc leaves those to older images alone (`Lapsed`): the
    next round may take their place;
  - `IndexInv`: space is taken past all files of live images but the one of a new
    layout, and nothing is Downloading in that one;
  - `DataInv`: live files have their data in the file as read, and as synced if the image
    may be on the disk; `WriterInv` is the same for what was downloaded so far;
  - `PlannedInv` and `MoveInv`: the plan of the round is safe for the index as it is
    (`PlanSafe`, with the planner's lemmas: targets touch no source and are
    apart), and the blocks read so far are at their targets, rotten ones apart;
  - `ControlInv`: who is inside `persist_image`, which images are pending (that of a
    failed persist stays so), that none of them is newer than the index, and that
    the durable image is the index while files move, which is what the flush at the start
    of a compaction is for.

Each action has its lemma; those on the index (alloc, failed or not, commit, abort, delete) are
shown to be an `IndexStep`, which is shown once to keep `Inv`. From `Inv`: `StoreCorrect`, `CrashesRecover`, `FlushedStays`.
They are theorems of `SteadySpec`: any file operation may fail and end its flush or
compaction, but for the persist that ends a round. When that one fails
`RecoverableIntact` is false (`VfsStore_flip`). TLC was given `Inv` on an instance with
two I/O errors, two rotten blocks and two compactions before it was proved. Assumptions: sizes are positive, nobody is a thread twice, the
first image is that of an empty store (`StoreAssumption`, `ThreadsAssumption`,
`FirstAssumption`).

`VfsReaderProofs` (for one host that keeps to the protocol, over any such store and any
number of sessions): every step of `VfsReader` but `Exit` is one of `SteadyNext` or
leaves the store (`ReaderSteady`), so `Inv` holds of it, and `ReaderInv` beside it:
  - `HostInv`: with a mapping, or about to map, the host has an index read since the
    last compaction, and none runs;
  - `ViewInv`: the host's copy may be old. Its files may have been deleted, and their
    names downloaded again, but each still has its data where the copy says: no other
    file and no download has its place, since space is taken past the logical size the
    copy had. This is what makes reading without asking again correct, and it is false
    after a compaction;
  - `MapInv` and `GrownInv`: the data file does not shrink under a mapping, and holds
    every entry of the index, of the layout a compaction turns to, and every block copied
    for it; a mapping of the file's present length is therefore all the host needs;
  - `FollowInv`: the durable image is the index while files move and when a compaction
    ended well, and the layout it installs has every file of the index;
  - `CloseInv`: until the store is at rest what was Active at the close is Active in the
    index, and then it is on the disk, by whichever persist came last.

From it: `HostReadsRight`, `HostFindsAll`, `CloseLosesNothing`. TLC was given
`ReaderInv` at the bounds of `VfsReader_maps`, and by simulation beyond them, before it was proved.
The assumptions are those of the store, and that the host is the only flusher
(`HostAssumption`). They hold with I/O errors anywhere but in the flip; after that one an
index that lost its place may be opened, as in `VfsStore_flip`.

`DlSinkProofs` (about a task: for any sizes, with or without fallback, any retry budget, any
responses, drops and sink failures, and a cancel at any time): `TaskInv` is
inductive. `DoneIntact` needs what the crc means at every place between: it
tells whether the sink holds the right chunks below the offset, and progress is
that offset (`CrcTellsFile`), although chunks of earlier attempts or of another
source may lie above it. `AtPlaces` ties the worker's place to what others see,
`Spent` the attempts to the budget. `TransitionSound` is what the steps need of
the decision table, proved once. From it: `DoneIntact`, `AttemptsBounded`, `ImplementsLife` step by
step, and `FullFromZero`, which no run states: the full source is always asked for
the whole file. Assumptions: sizes and the budget are natural numbers.

`DlSinkProofs` (about a task with its sink): every step of it is a step of `DlTask`
(`SinkKeepsTask`), so that all theorems about tasks hold of it. `SinkInv` ties the
writer, the entry of the name and the state of the sink to each other, and the
writer's crc to what was written in one go from zero. From it: `EntryVerifies` (with
`ReadBackGrows`, what a crc is after one more chunk) and `SinkClean`.

`DlManagerProofs` (for any hosts, workers, tasks, priorities, failing tasks and
overlapping calls): `ManagerInv` is inductive. That an end is told once cannot be
seen from the reporter alone. Needed are where a task is, in exactly one of the
queue, a call's list and a worker's hands (`HoldInv`); that the place fits the
task's life, so that no task is forgotten (`LifeInv`); and what the reporter knows
and has told (`RoundInv`, `TellInv`). `CallInv`, `LastInv` and `CalmInv` say what a
stop, a shutdown and a pause have brought to an end at each of their steps. From
it: `ToldOnce`, `FreedAllTold`, `CalmMeansIdle`, and `LivesImplement` for each task.
Assumptions: there are workers, finitely many, and priorities are natural numbers
(`ManagerAssumption`).

`DlRateProofs` (for any transfers, blocks, clock and rates set at any time, in exact
tokens): `RateInv`, no bucket holds more than a second of its rate and no call more
than it took, and `ImplementsBucket`: refilling late is refilling all the time,
because a bucket that is full stays full, and each call settles what it drew, which
rests on got <= took <= want and on what a call asks for (`AskInv`). And `AnyWindow`, from `WindowInv`: what was
passed on, what the bucket holds and what calls carry between their two critical
sections is together within the bound, and only grows by what a tick adds to a bucket
nobody is in debt to. What is carried is counted as a set with one element for each byte
(`BytesChange`). Assumption: the transfers are finitely many (`RateAssumption`).

`VfsIndexProofs` (for any finite set of files, any compactions): `IndexInv`, the count
of writers is that of the writers there are, by lemmas about sets that gain or lose
one element; `Alone`, `CompactionAlone` without cardinalities, since writers and a
compaction test each other's flag inside one critical section. `GenerationTells`
needs `Known`: what a client whose generation is the store's may have missed. From
it also `EnumerationExact` where no handle fails to open: the rollback shown by
`VfsIndex_rollback` is all that breaks it. And `StatusSettles`.

`DlBindingProofs` (for any finite set of threads, any addresses and bounds):
`BindingInv` is inductive. Every set, share, lock set, manager and thread has one
owner. `PoolInv` and `PoolSafe` keep the sets that are out apart from those in
the list; the pool outlives its users because the count of initialisations is that
of the threads that are inside, by lemmas about cardinality. `OwnInv` gives a
manager and its threads to one host until it has dropped them, and `ShareInv` a
share to one thread, with its lock set until that is erased; the one thread that
may find the old lock set at its share's address is still waiting for the map's
lock (`EnableDefaultLocks`). From them: no handle uses a share that is cleaned up
(`NoLateHandle`), `LocksLive`, `DelegatesKept`. Assumptions: threads are finitely
many, 0 is no address (`BindingAssumption`, `CurlwAssumption`).

Only model-checked: the refinement of `VfsDurable` with one I/O error and one crash, for regions
of one length (`VfsPersist_crash`; the theorems about it assume none), and liveness
(`CompactionEnds`, `DoneOnce`, `EndsInTime`, `Settles`, `AcquireReturns`), which is out
of the prover's reach together with ENABLED.

## Plan

1. Done: compaction planner, persistence, store, index clients.
2. Done: a task in its worker, the manager with its queue and reporter.
3. Done: the sinks, the speed limiter, the C# reader over the store, curlw's
   process-wide state with the C# download manager.
4. Done: proofs of all inductive invariants, the store's with its plan made file by
   file as in `VfsPlan`, and the reader's over it; the persist protocol refines
   `VfsDurable`.
5. Left: curlw's select with its retries after a
   signal; progress reports and their order before the end; a reader that opens the
   store again while the compaction thread of a closed handle runs.

Not planned: curlw's bindings, `util.rs` (crc and pwrite are modelled by their
effect), build scripts, CI, vendored recipes.
