# ultimately: formal models of the hot-fix SDK and of the Dalvik VM's threads

This directory holds TLA+ models of the program in `src/`, the TLC
configurations that check them on small instances, and theorems about them
that TLAPS checks. `PROJECT.json` says for each definition which lines of the
source it stands for.

Sections: 1 the system, 2 the hard parts, 3 modules and code, 4 the runs,
5 what the checks found, 6 the proofs, 7 what is not modelled, 8 the plan.

## 1. The system

The repository is an Android playground for hot fixing and performance
monitoring. Its own logic is in a few Gradle modules, of which the hot-fix SDK
(`hotfix/`) is the largest. Nearly all of its C++ is a copy of the Dalvik VM
(`doc/dalvik.git-android-4.3_r3-vm/`, `vm/` below), the machine that the SDK
patches; the models cover the parts of it where its threads meet.

| Component | Where | State it keeps | Operations | What makes it correct |
|---|---|---|---|---|
| Patch store | `hotfix/.../manager/PatchManager.java`, `SophixManagerImpl.java`, `patch/GlobalProperty.java` | two pairs of directories, `SP_SOPHIX_DIR_STATE`, `hpatch_version`, `happ_version`, `hpatch_clear`; the fields `a`-`e`, `l`, `m`, `n` | `initialize`, `addPatch`, `loadPatch`, `cleanPatches`, the delayed `k` | the next start loads the old patch or the new one, whole; a clean leaves none |
| Crash counter | `hotfix/.../manager/a.java`, `PatchManager.j/k` | preference `happ_crash_num`, fields `a`, `b`, `c` | count, arm, disarm, `uncaughtException` | a patch that crashes its app is dropped after five starts |
| Native libraries | `hotfix/.../patch/NativeLibManager.java` | files of `libs` and `libs_` | unpack, compare names, inject | a load injects the libraries of its own patch |
| Server queries | `hotfix/.../net/NetworkManager.java` | throttle time, device id, download file, `hpatch_clear` | query, download, report | an order to clear is obeyed; a newer patch is installed |
| Cold patches | `hotfix/.../patch/dex/cold/` | odex files, an md5 preference per file name | validate, preload, merge, inject | only a complete odex of this patch is loaded |
| Hot patches | `hotfix/.../patch/dex/hot/`, `core/` | replaced ART methods | replace the methods named by the patch | all or an error |
| Stub application | `PatchManager.l/m/n/o`, `SophixApplication` | providers taken out of the app's binding data | remove, attach, install again | providers come back |
| Uninstall watcher | `basic/jnidemo/.../uninstall.cpp` | pid file, lock file, observed file | fork, watch, upload | one watcher at a time |
| ReLinker | `basic/native/.../relinker/` and two copies | private library files, set of loaded names | load, install, clean up | a library is loaded whole |
| Reference-counted database | `apm/.../db/SQLiteOpenHelperAbs.kt` | open counter | open, close | closed when the last user leaves |
| Patch builder | `patchTools/` | none | compare dex files | the diff is what changed |
| Binary patcher | `basic/patcherjni/` | none | bspatch | stays inside its buffers |
| Object locks | `vm/Sync.cpp`, `Sync.h` | the lock word, the fat `Monitor`, a thread's wait fields | lock, unlock, wait, notify, interrupt | one owner at its own depth; no sleeper out of reach |
| Class initialization | `vm/oo/Class.cpp` (`dvmInitClass`) | `status`, `initThreadId`, the monitor of the class | ask, claim, run `<clinit>`, publish, wait | `<clinit>` runs once, everybody is told the same |
| Garbage collector | `vm/alloc/`, `vm/oo/ObjectInlines.h`, `vm/Intern.cpp` | the heap, two bitmaps, the card table, the heap lock, `gcRunning` | store with barrier, allocate, wait, collect | frees only what nobody can reach |
| Suspension of threads | `vm/Thread.cpp`, `vm/jdwp/`, `vm/Debugger.cpp` | two counts and a status per thread, two locks | suspend all, resume, safepoints, debugger requests, events | a stopped world is stopped, and is resumed |
| The rest of the VM | `vm/compiler/`, `vm/mterp/`, `vm/analysis/`, `vm/Jni.cpp` ... | traces, dex structures | compile, interpret, verify, load | - (not modelled) |

How they interact. `SophixManagerImpl.initialize` (on the main thread) makes
the directories, the native-library manager and the network manager, and calls
`PatchManager.a`, which cleans or loads what the previous processes left.
`queryAndLoadNewPatch` posts a task on an executor: `NetworkManager.a`
downloads a patch, and the same task hands the file to `PatchManager.addPatch`.
`loadPatch` calls `DexManager` (cold or hot), `ResourceManager` and
`NativeLibManager` in that order, between `j` (count and arm the crash
handler) and `k` (3 s later on the main looper, or at once when nothing was
loaded). `PatchManager`'s public operations are `synchronized`; `k`, the
handler and the queries' writes to the preferences are not. Everything that
survives a process is in four directories and one preferences file, whose
every write (`util/i.java`) is a synchronous `commit`.

In the VM, a program thread takes object locks (`Monitor`), initializes
classes under them (`ClassInit` uses the lock through its contract
`JavaMonitor`), and stores references into the heap while the collector marks
it (`ConcurrentGc`). A collection stops all threads twice; how the VM gets them
to stop, beside a debugger that stops threads too, is `ThreadSuspend`, and
`ConcurrentGc` takes the result as one step.

## 2. The hard parts

In the SDK:

* Death of the process between any two writes to the disk. The SDK itself
  offers `killProcessSafely`, and a patch can crash its app.
* An install over an existing patch goes to the other directories and
  takes effect at the next start. The order of its copy, unpacking and `g()`
  against the exchange and the clean-up in `initPatchDirs` decides what that
  start finds.
* The state of the directories is kept twice, in the preference and in the
  fields of the process, and `cleanPatches` resets only one of them. The crash
  counter is kept twice too, in the preference and in the handler.
* `k` and the handler run beside the operations, and answers of the server
  arrive between them.
* Libraries are recognised by name only, and the `libs` directories are
  emptied at other moments than the patch directories.
* A preload of a cold patch reads and writes files of a directory that installs
  and cleans empty under it and that another preload may fill, takes the md5 of
  an odex that is perhaps still being written, and keeps it in a record that
  both directories share.

In the VM:

* A lock that changes its representation under contention, while other threads
  hold what they have read of the old one; a wait that gives up the lock and may
  be ended by a notify, an interrupt, a timeout, or two of them at once.
* A class whose status is read without its monitor in two places, and set
  without it in one.
* A program that moves references while the collector marks (the card table and
  the second, dirty-card marking make up for it), gets white referents out of
  weak references, allocates from chunks the sweep is freeing, and fails to
  allocate while another thread's collection runs.
* Two parties, the collector and the debugger, that suspend threads and each
  other with counts, a status that is stored without a lock, and a lock order
  that a thread may only try.

`PROJECT.json` lists these and the others (`hazards`) at their lines, with the
properties that cover them, or a note where the property has an exception for
the very case. Not on that list, known, and without a property
that holds: a library is unpacked to its final name (`FileUtils.java:131`), so
that a death in between leaves a torn file whose name passes the comparison of
`injectSoPatchFile`; a clean that dies between two of its commits loses the
version it should remember (`PatchManager.java:717`); a preload that gives up
its wait for an odex records the md5 of nothing, which an interrupted
compilation's empty file has too, and one whose compiler pauses records the md5
of a torn file (`ColdDexManager.java:414`, `:426`);
`Thread.interrupted` reads and clears its flag in two steps
(`native/java_lang_VMThread.cpp:131`), so that an interrupt in between is lost
(`InterruptKept` excepts it); and the uninstall watcher removes and re-creates
its lock file and truncates its pid file before it writes it
(`uninstall.cpp:71`, `:347`).

## 3. Modules and code

| Module | Role |
|---|---|
| `CrashHandler` | state and operations of `manager.a` and of `j`/`k`, as action fragments that `PatchManager` schedules |
| `PatchManager` | the patch store in the main process: the detailed specification |
| `PatchSlot` | the abstract store: one slot, replaced as a whole |
| `MCPatchManager` | constants for TLC |
| `ColdDex` | validation, preload and injection of cold patches beside installs and cleans: detailed where `PatchManager` leaves the odex open |
| `Monitor` | the lock of one object in the Dalvik VM |
| `JavaMonitor` | its contract: one owner, a depth, threads that wait |
| `ClassInit` | `dvmInitClass` on several threads and classes |
| `ConcurrentGc` | the heap, the program's stores and the collector |
| `ThreadSuspend` | suspension by the collector, the debugger and its events |
| `PatchManagerProofs` | type correctness, crash bound, `StoredIsNext`, `CleanEmptiesStore`, `ClearOrderObeyed` |
| `PatchSlotProofs` | `CurrentKept`, the refinement of `PatchSlot` and `InjectedLibsMatch` |
| `ColdDexProofs` | type correctness, `InjectedIsWhole`, `NoOdexOfOldSystem` |
| `MonitorProofs` | type correctness, all safety properties of `Monitor` and the refinement of `JavaMonitor` |
| `ClassInitProofs` | type correctness and all safety properties of `ClassInit` |
| `ConcurrentGcLocks`, `ConcurrentGcProofs` | the inductive invariant of `ConcurrentGc` in two parts, and its theorems |
| `ThreadSuspendProofs` | type correctness and the safety properties of `ThreadSuspend` |

The operators marked "Mutant" are not used by any specification: each is a
definition with one plausible error, and a property is sensitive to the error.

### State of `PatchManager`

| Variable | Code |
|---|---|
| `jar[d]`, `lib[d][l]` | files in `patch`/`patch_` (d = 0/1) and `libs`/`libs_`; each holds the content of one patch, whole or torn |
| `dirState`, `memState` | `SP_SOPHIX_DIR_STATE` and the field `a` |
| `version`, `memVersion` | `hpatch_version` and `GlobalProperty.a` |
| `appOK`, `clearFlag` | `happ_version` equals the app's version; `hpatch_clear` |
| `crashNum`, `armed`, `crashed`, `count` | `happ_crash_num` and the fields `b`, `a`, `c` of `manager.a` |
| `inited`, `timer` | the field `l`; how far the delayed `k` got |
| `running`, `soFrom` | the patch whose code or resources run; the libraries in the class loader |
| `pc`, `ret` | where the thread that holds the monitor is, and where it returns to |
| `cand`, `newVersion`, `where`, `got`, `todo`, `told` | locals of `addPatch` and `loadPatch`, and what the listener heard last |
| `stored`, `watch`, `streak`, `order` | observation only; `order` is the server's order to clear: given, due at this start, or none |

### Actions of `PatchManager`

`StartProcess`, `ClearStandbyPatch`, `ClearStandbyLibs` are `initPatchDirs`;
`CheckApp` is `h`, `CheckCrash`/`CheckClear`/`HandleLocal` are
`handleLocalPatch`, `EndInit`/`FailInit` the end of `initialize`.
`CleanPatchDir` ... `CleanApp` are `cleanPatches`, one action per write;
`CallClean` remembers who called it (the user, `h`, `handleLocalPatch`, or
the catch clause of `initialize`). `AddClear` ... `AddDecide` are `addPatch`,
one action per write, with `FailAdd` for its catch clauses; `QueryAndAdd` and
`AddLocal` are its two callers. `LoadVerify` ... `LoadDone` are `loadPatch`.
`TimerFires`, `TimerDisarms`, `TimerForgets` are the delayed `k`,
`UncaughtException` is the handler, `Die` the end of the process by any cause.
`ServerClear` and `PatchDownloaded` are the writes a query makes beside the
monitor, from the moment `initializeInner` has called `NetworkManager.a`
(`QueriesOpen`), before the store is initialized or after that has failed;
`UpgradeApp` is a new version of the app.

A conversion that matters is modelled by its effect: the bits of the directory
state by arithmetic on 0..3, the decryption in place by a jar that is of no
use before it and whole after it, `FileUtils.copy` and `unzipToFile` by a file
that exists before it is whole.

### Properties

| Property | Kind | Says |
|---|---|---|
| `TypeOK` | invariant | types, among them `dirState` and `memState` in 0..3 |
| `StoredIsNext` | invariant | a patch that `addPatch` kept is what the next start finds, with its libraries |
| `CurrentKept` | action property | an install over another patch touches no file of the current slot |
| `AtomicReplacement` | refinement | what the next start loads is replaced as a whole, by installs and cleans only |
| `CrashLoopBounded` | invariant | at most `CrashLimit` processes in a row die in the first seconds of a patch |
| `CleanEmptiesStore` | invariant | a clean leaves nothing to load, unless slot 1 was current and an exchange pending |
| `InjectedLibsMatch` | action property | injected libraries are those of the loaded patch, if no process dies inside an operation and, in debug mode, adds one patch only |
| `ClearOrderObeyed` | invariant | a start that finds an order to clear looks for no patch, and lets no operation begin, before a clean has emptied the current slot, however often the clean dies half-way, unless the server withdraws the order |

In `PatchManager` a cold patch found at a start has a valid odex or it has not
(`LoadDex` or `LoadPreload`), without a reason; `ColdDex` is the reason.

`StoredIsNext` has the premise that the process and the disk agree on the
current slot, and `CleanEmptiesStore` excepts one state. Both limits are real.
The run `manager_lost_install` shows what happens beyond the first (section
5). In the second, slot 1 is current and an install over it is pending in slot
0: `cleanPatches` empties slot 1 only and resets the state to 0, so that the
next start makes slot 0 current and loads what is in it.

`PatchSlot` is the promise of the store. It has one slot, a flag `settled`
that says that an install may not lose the patch in it, and `work`, what is
under way. The mapping takes `Loadable` (the whole jar the next start would
make current, or none) for the slot. A patch that was there at the last start
is settled: a later install replaces it in one step, `g()`, or not at all.
A first install of a process writes in place, and so does a second one into
the standby slot: until the next start nothing is settled there.

### `ColdDex`

It keeps the store only as far as the preload meets it, and looks at the files
of a patch directory one by one.

| Variable | Code |
|---|---|
| `jar`, `dex`, `merged`, `odex` | the jar, `classes.dex`/`classesN.dex`, `sophix-merged.zip` and its odex, per directory |
| `next` | the directory that `SP_SOPHIX_DIR_STATE` makes current at the next start: the arithmetic of `PatchManager` in one value |
| `record`, `stamp` | the preferences `sophix-merged.odex-md5` and `sophix_system_fingerprint` |
| `due` | a start will clean, for whichever of its three reasons |
| `pc`, `back`, `cur`, `where`, `cand`, `left` | the operation that holds the monitor of `PatchManager`; `left` are the files `clearDir` has listed and not deleted |
| `queue`, `job[w]` | the executor: what waits, and for each of its threads the place and the locals of the preload it runs |
| `system` | `Build.FINGERPRINT` |
| `injected`, `mixed[d]` | observation only; `mixed[d]`: a preload of directory `d` has met a clean, an install or another preload there, and the directory has not been emptied since |

A merged file is the patch it starts with and the number of class files of the
apk that follow; an odex is what it was compiled from, by which system, and
how far the compiler got, and its md5 is that content, except that a missing
and an empty file have the same one. `OpenJar`, `Extract`, `MergePatch`,
`MergeBase`, `Rename`, `StartCompile`, `ReadMd5`, `CompareMd5`, `Record` and
`Stamp` are `doOptPatch`; `Inject` and `PostPreload` the two branches of
`hotfix`; `CheckSystem` is `i()`. The executor (`com.taobao.sophix.e.k`) is not
in the repository, so it has any number of threads (`Workers`), and the
`synchronized` of `doOptPatch` keeps nobody apart, because every load makes its
own `ColdDexManager`. Installs and cleans come from any thread and exclude each
other by the monitor of `PatchManager`, and no preload.

`DexFile.loadDex` and `dex2oat` are external: `StartCompile` is the call, which
creates the odex empty unless it is up to date, and may return at once;
`WriteOdex`, `EndCompile` and `FailCompile` write it, finish it or take it away
at any later time, beside the polling for the md5 and after the death of the
process. The polling reads the md5 until two readings agree (`AtRest`), so a
compiler that pauses leaves the md5 of a torn file in the record.

| Property | Kind | Says |
|---|---|---|
| `TypeOK` | invariant | types |
| `InjectedIsWhole` | action property | an injected merged file has the classes of the jar's patch and all of the apk's, and its odex was compiled from it, unless the directory is `mixed` |
| `NoOdexOfOldSystem` | action property | its odex is not an older system's, once a stamp is there |

The exception of `InjectedIsWhole` is real. A clean deletes `classes1.dex`
before the merge reaches it, the merge ends early without an error, and the
process dies before the clean comes to the jar; or a patch is installed into
the directory in which the preload of an earlier one still runs, and the load
of the new jar injects the classes of the old one. What the property says is
that nothing else does this, and that the damage does not outlast the next time
the directory is emptied or reach the other one. A torn odex is not excepted
and not excluded: it was compiled from the right file.

### `Monitor` and `JavaMonitor`

`word` is the lock word (thin with owner and count, or fat), `mutex`, `owner`,
`lockCount` and `waitSet` are the fields of the `Monitor`, and each thread has
a place `pc` and the fields and locals of `waitMonitor`. `held` and `owed` are
history: how deep the program has nested, and what became of an interrupt.

`CallLock` ... `LockFat` are `dvmLockObject`: the thin lock by compare-and-swap
(`Cas`), nesting with the count (`LockThinOwned`, which fattens at
`CountMask`), the spin on a thin lock that another thread owns (`Spin`,
`SpinCas`, `Fatten`), and the mutex (`MonitorReenter` ... `MonitorBusy`).
`UnlockThin` and `UnlockFat` are `dvmUnlockObject`. `WaitStart` ... `WaitBack`
are `waitMonitor` (arm, release, sleep, wake, relock, put the count back),
`Notify` and `NotifySignal` `notifyMonitor` and `notifyAllMonitor`,
`Interrupt` is `dvmThreadInterrupt`, and `QueryInterrupted`/`QueryClear`
`Thread.interrupted`. `WakeEarly` is a timeout or a spurious wakeup, so an
untimed wait and a timed one differ in the status of the thread only.

| Property | Kind | Says |
|---|---|---|
| `TypeOK` | invariant | types; no count falls below 0 |
| `HolderOwns` | invariant | a thread inside `synchronized` owns the lock at its own depth, so no two are inside |
| `SleeperReachable` | invariant | a sleeping waiter is in the wait set, or signalled, or in the hands of a notifier |
| `NoStaleWaiter` | invariant | the wait set holds each thread once, and only threads in a wait |
| `InterruptKept` | invariant | an interrupt stays raised until it is thrown or queried |
| `FattensOnce` | action property | no compare-and-swap takes over a word that has become fat |
| `RefinesJavaMonitor` | refinement | the lock implements `JavaMonitor` |
| `ReachedWakes` | liveness | a waiter that was notified or interrupted wakes |

`JavaMonitor` has an owner, a depth and, per thread, the depth at which it
waits. The mapping takes the mutex for the owner when the word is fat, and the
depth a waiter has put away for what it will come back to. A wait of the
contract may return at any time; whom a notify must reach is what
`SleeperReachable` and `ReachedWakes` say.

### `ClassInit`

A call of `dvmInitClass` has a front half, which looks at the status under the
monitor of the class and claims it, answers or waits (`Enter`, `Verify`,
`Claim`, `Publish`, `Wait`, `Relock`, `Recheck`, `Answer`, `Return`), and, for
the thread that claimed, a back half that calls it again for the superclass
(`InitSuper`, `SuperReturned`) and from `<clinit>` (`Use`, `UseReturned`,
`ClinitReturned`), sets the outcome (`Settle`) and wakes the others
(`Notify`). Back halves nest; `inner` and `outer` are that stack. The class
hierarchy and the uses of each `<clinit>` are chosen at the start, the verifier
rejects the classes in `Unverifiable`, and a `<clinit>` of `Throwing` may
throw. Not in it: the classes that the verifier loads, and the exceptions that
the front half makes (`Class.cpp:4256`, `:4293`), may themselves be initialized,
with the monitor of the class held.

| Property | Kind | Says |
|---|---|---|
| `OneInitializer` | invariant | one thread has claimed a class, and its `<clinit>` starts at most once |
| `ConsistentView` | invariant | what a call from outside was told is what the class is |
| `ClinitAfterSuper` | invariant | a `<clinit>` runs after its superclass's, or inside it |
| `NoStaleClaim` | invariant | `dvmIsClassInitializing`, which takes no lock, is right whatever `initThreadId` holds |
| `WaiterHasWaker` | invariant | a wait set has a thread that will still notify |
| `SettledForGood` | action property | a failed class stays failed and an initialized one initialized |
| `InitReturns` | liveness | every call returns, unless the classes need each other in a circle |

### `ConcurrentGc`

Objects are addresses, grouped in words of the bitmaps and in cards; the
address decides the kind (plain, soft, weak, finalizer, phantom, immune). The
program loads, drops and stores references (`SetFieldObject`, then `MarkCard`
as a second step), gets and clears referents, interns and looks up, and
allocates: `WantHeap`, `LockHeap`, `Try`, `AwaitGc`, `Woken`, `Retry` and
`Last` are `dvmMalloc` and `tryMalloc` with
`dvmWaitForConcurrentGcToComplete`. `phase` is where the collection is; it goes
through `dvmCollectGarbageInternal` in its order:

roots, unlock and resume when it is concurrent, walk of the bitmap with the
finger (`WalkNext`, `ScanField`, `DelayReferent`) and mark stack
(`PopMarkStack`), lock and stop again, roots again, dirty cards (`ReScanCard`),
soft, weak, finalizer and phantom references in this order, weak tables,
exchange of the bitmaps, unlock and resume, sweep word by word (`SweepWord`,
`FreeList`), end (`EndGc`, which wakes the waiters).

The four kinds of collection of `GcSpec` differ as in the code: concurrent
(daemon), explicit, for a failed allocation, and before an OutOfMemoryError.
`SweepWord` reads a word of the two bitmaps without the lock, as the code does.

| Property | Kind | Says |
|---|---|---|
| `TypeOK` | invariant | types |
| `FreesOnlyGarbage` | action property | what is freed is out of the program's reach, also through weak references and tables |
| `GrayIsDirty` | invariant | when the world stops again, a marked object with a white reference is on a dirty card or on the stack |
| `ClearsOnlyUnreachable` | action property | a soft or weak reference is cleared only when its referent is not strongly reachable |
| `PhantomIsLast` | action property | a phantom reference is cleared only after the finalization of its referent |
| `OomHeapIsReachable` | invariant | an OutOfMemoryError comes from a heap without garbage |
| `NoRecursiveGc` | action property | collections do not overlap |
| `WaiterHasGc` | invariant | who waits for a collection has one to wait for |
| `GcCompletes` | liveness | every collection ends |

### `ThreadSuspend`

Per thread the status, `suspendCount` and `dbgSuspendCount`; the locks
`_threadSuspendLock` and `threadListLock`; the event token. What the code does
under `threadSuspendCountLock` is one step. `SafePoint`, `CallNative`,
`Return` and `CheckSuspend` are the ways of a thread into and out of RUNNING;
`LockSuspend`, `SuspendOthers`, `SeeStopped` and `AllStopped` are
`dvmSuspendAllThreads` and `dvmSuspendThread`; `ResumeOthers`, `Broadcast` and
`UndoDebuggerSuspensions` the resumes; `PostEvent`, `SetWaitForEventThread`
and `SuspendSelf` an event that suspends; `Receive`, `ProcessRequest`,
`Handle`, `OneThread`, `Reply`, `Disconnect` and `DdmDisconnected` the thread
that serves the debugger (`OneThread` also resumes one thread,
`dvmDbgResumeThread`); `ListThreads`, `HoldList` and `UnlockList` a native
that locks the thread list. `robbed` is history: the threads from whose count
such a resume has taken more than the debugger's share.

| Property | Kind | Says |
|---|---|---|
| `TypeOK` | invariant | types; no count falls below 0, and the debugger's share only of a robbed thread |
| `StopTheWorld` | invariant | while one thread has stopped the world, no other runs managed code, but a robbed one |
| `CountsCover` | invariant | the part of a count that is not the debugger's is the number of collections that hold the thread; of a robbed thread it is no less |
| `SleeperHasWaker` | invariant | who sleeps with a count of 0 is about to be woken |
| `SuspendAllCompletes` | liveness | whoever waits for threads to stop sees them stop |

`StopTheWorld` excepts a thread that has just come out of `dvmLockThreadList`:
the code restores RUNNING there without a look at the count (its comment,
`Thread.cpp:356-358`, says the holder of the list lock has suspended nobody,
but the collector gives the list up before it collects), and the thread runs
until its next safepoint. A robbed thread is the subject of finding 3
(section 5). When the debugger goes away, `dvmUndoDebuggerSuspensions` takes
the debugger's share of a robbed thread, -1, from its count: it *adds* one, and
if the debugger had suspended nobody the thread stays suspended for good. That
is why `CountsCover` is an inequality there.

## 4. The runs

| Run | Instance | Distinct states | Shows |
|---|---|---|---|
| `manager_crash` | 2 patches (one cold, one hot), 1 library, deaths anywhere, 2 installs per process, limit 2 | 0.95 million | the safety properties of the store, `ClearOrderObeyed` and the refinement of `PatchSlot` |
| `manager_sessions` | 3 patches (one with resources only), 2 libraries, encrypted files, local patches, deaths between operations, 1 install per process, limit 1 | 0.74 million | `InjectedLibsMatch` |
| `manager_lost_install` | as `manager_crash`, deaths between operations | - | finding 1 |
| `cold_crash` | 2 patches, 1 class file in the apk, 1 executor thread, 1 system update, 1 install per process, deaths anywhere | 3.5 million | the safety properties of `ColdDex` |
| `monitor` | 3 threads, a count field of 0..2, nesting up to 3, timed waits of 2 threads, interrupts by the third | 0.35 million | all properties of the lock and the refinement of `JavaMonitor` |
| `class_init` | 3 threads that ask for one class each, 2 classes in every hierarchy and with every set of uses, one rejected by the verifier, one whose `<clinit>` may throw, 1 spurious wakeup | 0.4 million | all properties of `ClassInit` |
| `gc_mark` | 3 objects, one of them immune and one internable, 2 addresses to a word and to a card, one program thread that also allocates, any heap to begin with, the daemon's collections | 1.9 million | soundness of concurrent marking and of the sweep |
| `gc_refs` | 3 objects, a finalizer and a phantom reference, an internable object, one thread that stores and allocates | 0.6 million | `PhantomIsLast`, and that collections end |
| `gc_alloc` | 2 objects, one a soft reference, two threads that allocate and collect, and the daemon | 2.2 million | collections exclude each other, waiters are woken, references and the last collection |
| `suspend` | 2 program threads that collect, one of which posts events and lists threads, and a debugger that suspends and resumes all and one | 0.8 million | the properties of `ThreadSuspend` |
| `suspend_hang` | 2 threads, events that suspend all, a debugger that resumes and disconnects | - | finding 2 |
| `suspend_resume` | 2 threads, one that collects, a debugger that suspends and resumes one thread | - | finding 3 |

### Bounds

No state constraint is used; what would grow is bounded by the constants that
are commented "bound" in the modules.

`PatchManager`. `MaxAdds` caps the installs in the life of one process; the
number of processes is not bounded. Two installs in one process reach the case
in which the second one clears a standby slot that is already pending, and
three would repeat it. Two patches are enough for an old and a new one in the
two slots, one of each kind of load (cold: preloaded first; hot: relaunch when
over another); the third patch, which has resources but no classes, and the
second library, which patch 1 lacks and patch 2 has, matter for the names that
the injection compares and are in `manager_sessions`. `CrashLimit` is 5 in the
code; 2 is the least with a start between the first crash and the last, and
the theorem `CrashBound` is for every limit. TLC tells the states of this run
apart by `MCPatchManager!StoreView`, which leaves out `running`, `soFrom` and
`told`: no step of the model depends on them, and of the properties of this
run only `TypeOK` reads them, which is proved (section 6). `MidOpKills` says
whether a process may die inside an operation. It is FALSE in
`manager_sessions`, where `InjectedLibsMatch` needs that premise (the torn
library of section 2), and in the violation run, to show that it needs no such
death. `MaxAdds` is 1 there for the same reason: with `DebugMode` and two
installs in one process, TLC breaks `InjectedLibsMatch`. The second goes over
an existing patch and finds an odex, as it may when a preload was still
writing into that directory (`OdexPossible`), so its classes are loaded at
once. `loadPatch` hands `injectSoPatchFile` the current libs directory, which
has the libraries of the old patch; if their names are the same, they are
injected with the new classes. Without `DebugMode` an install finds no odex,
and section 6 has the proof for any `MaxAdds`.

`ColdDex`. One class file of the apk is the least that a merge can lack, and
two patches are the old and the new one. One system update tells an old odex
from a new one. One thread of the executor already runs a preload beside an
install, a clean and the compiler of an earlier preload; with two threads, one
patch and no update TLC finds no error either, and the theorems are for any
number. The two executor threads are alike, and so are the patches
(`MCColdDex!Symmetry`): no property of this run is temporal beyond one step.

`Monitor`. The count field has 13 bits in the code; with `CountMask` 2 and a
nesting of 3 the lock fattens by nesting as well as by contention and by a
wait, and unwinds again. Three threads are the least with two waiters and a
notifier, or an owner, a spinner and a thread that finds the lock free.
The waits are timed ones; an untimed wait takes the same steps, and a wait of
class initialization differs in what it does with an interrupt, which
`InterruptKept` excepts. All safety properties and the refinement are proved
for every size and all three kinds. `ReachedWakes` is checked with two waiters
and a notifier: while one waiter is being woken, the other may be notified,
interrupted or time out.

`ClassInit`. Two classes give a superclass and a subclass, or two that use each
other; three threads an initializer, one that waits, and one that comes when
the class is settled or initializes the other class. The safety properties
that are proved need no bound.

`ConcurrentGc`. With three objects there is one scanned, one the finger has
not reached and one moved between them; two of them share a word and a card and
the third has its own, so that both sides of the finger and of a card boundary
occur. `FlushAt` 1 frees in the middle of a sweep, and a thread allocates from
what has been freed while the sweep goes on. That collections end is checked in
`gc_refs`, where the marking is simpler (one object has fields) and all phases of
reference processing are passed. The instance of `gc_alloc`
is small in objects and large in threads: two that allocate, beside the daemon,
are the least in which a thread that was woken finds that a third has begun
another collection. All safety properties are proved for every heap.

`ThreadSuspend`. `MaxCount` is the count of a thread above which the debugger
and the events start nothing new: 2 lets two of the three parties hold a thread
at once. `MaxDebt` is how far below 0 the debugger's share may be when it starts
something new. `suspend` has both events and all requests of the debugger.
Two program threads and the debugger's are the least in which a thread
that is being stopped wants to stop the others while a third one waits.

### Fairness

No property of `PatchManager` or `ColdDex` assumes fairness.

In `Monitor` and `ClassInit` a thread inside the VM goes on (`Proceed`); what
the program does next is its own affair, and so are timeouts and spurious
wakeups. A `<clinit>` that was started goes on.

In `ConcurrentGc` the collector's steps are weakly fair, and so are those of a
thread between two safepoints with the heap lock or with a card still to dirty.
Taking the heap lock back is strongly fair (a mutex does not starve the
collector for ever), and so is a thread's safepoint: compiled and interpreted
code checks at every backward branch and return, so a thread comes to one again
and again. The program need not allocate.

In `ThreadSuspend` every thread that has begun something is weakly fair. The
violation run assumes more, strong fairness of the locks and of a thread that
is resumed again and again, so that what it finds is not a matter of an unlucky
scheduler.

## 5. What the checks found

Three runs are expected to end in a violation. Each states what a comment of
the code promises, and TLC shows a run of the code that breaks it.

1. `manager_lost_install`. Two installs and a restart make slot 1 current.
   `cleanPatches` empties it and the preferences, so the disk says slot 0 and
   the process still says slot 1. The next install is reported as loaded and
   goes to `patch_`; the next start looks into `patch` and clears `patch_`.
2. `suspend_hang`. A thread that posts a suspend-all event is in VMWAIT, so a
   collection takes it for stopped. While the world is stopped it takes the
   suspend lock and raises the collector's count; the collector, on its way to
   resume the others, finds the lock taken, sees its own count and suspends
   itself. The debugger's thread is still suspended by the collection and falls
   asleep as soon as it wants to serve a request or a disconnect: the
   collection never resumes anybody, and the debugger, which alone could resume
   the collector, cannot. `Thread.cpp:94` promises that a debugger that
   disconnects resumes what it suspended.
3. `suspend_resume`. The debugger asks to resume a thread it has not suspended.
   The JDWP thread waits for the thread list in VMWAIT, so a collection that
   stops the world takes it for stopped, and lets go of the list before it
   collects. The JDWP thread gets the list, comes out of `dvmLockThreadList`
   without a look at its own count (section 3), and `dvmResumeThread`
   (`Thread.cpp:2216`) finds a count above 0: the collector's. It lowers it, and
   the thread runs beside the collector. `Thread.cpp:128-130` and
   `Thread.h:132-135` say that the debugger cannot resume threads that the GC
   has suspended, since its thread is suspended too. `dbgSuspendCount` is -1
   then, against the assertions at `Thread.cpp:2751` and `:2871`.

TLC also shows the limits that the bounds of section 4 and the exceptions of
sections 2 and 3 name.

The collector holds the heap lock when it stops the world, and a thread that
suspends may hold it too, although `Thread.cpp:101` says that threads do not
suspend with it: `LockHeap` takes it in VMWAIT and the thread sleeps on its way
back to RUNNING. `ConcurrentGc` lets that happen, and the properties hold.

## 6. The proofs

Each theorem holds for all values of the constants that satisfy the named
assumptions of its module (`PatchesAssumption`, `SettingsAssumption`,
`ColdAssumption`, `MonitorAssumption`, `ClassInitAssumption`, `GcAssumption`,
`SuspendAssumption`), which TLC evaluates in every run, and on nothing else;
`InjectedLibsSafe` has further hypotheses, given below. For a property that is not
inductive alone the modules prove an inductive invariant (`Init => Inv`,
`Inv /\ [Next]_vars => Inv'`, `Inv => property`), with one lemma per part of
it and one case per action.

**`PatchManagerProofs`, `PatchSlotProofs`**: all sets of patches and libraries,
every `CrashLimit` and `MaxAdds`, encryption and debug mode on or off. `IInv`
is `TypeOK /\ CrashInv /\ SlotInv /\ StoredInv`.

* `CrashLoopBounded` needs the relation of the streak to the stored counter:
  while a process is on watch the counter on disk is already greater than the
  streak, because `j` writes ahead of the load, and `CheckCrash` lets no
  process pass with a counter at the limit (`CrashInv`). The counter in the
  handler is part of it, since a crash writes that one.
* `StoredIsNext` needs to know at each point of `addPatch` and `loadPatch`
  which files of the target are complete, and which slot the next start will
  take (`SlotInv`, `StoredInv`). `CleanEmptiesStore` needs the progress of the
  clean.
* `ClearOrderObeyed` (`ClearOrderSafe`): as long as the order is open the flag is
  on the disk (`OrderInv`), a start that has it passes `CheckClear` only into a
  clean, and a clean takes it away with the preferences, after both directories.
* `CurrentKept` follows since only actions of `addPatch`'s file work touch the
  slots, and those write to `where`, which differs from the current slot. For
  the refinement, the initial state maps to the initial state, and each action
  to `Begin`, `Install`, `Clean`, `Restart` or a stutter.
* `InjectedLibsMatch` assumes that no local patch is added (not `DebugMode`) and
  that no process dies inside an operation (not `MidOpKills`); TLC breaks it
  without either. The theorem is for any number of installs, failed installs,
  cleans and restarts, which leave libraries of any names behind. The invariant
  `LibsInv` says that a jar, outside an install into its slot, is whole and has
  all its libraries (`SlotsWhole`, which needs `StandbyInv`: a start deletes the
  jar of a slot before its libraries), and that a patch loaded from the standby
  slot is not hot and has loaded no classes (`LoadInv`). So a load that gets as
  far as the injection is one from the current slot, whose directory has the
  libraries of its patch, and the comparison of names excludes any others.

**`ColdDexProofs`**: any patches, dex files, executor threads, installs and
system updates, without hypotheses. The types need one fact more, that a preload
that has opened its jar knows a patch (`SourceInv`). Then two invariants, each
checked by TLC before it was proved:

* `SystemInv` (with `PlaceInv`) is about the system that compiled an odex. At rest the odex of the next
  start is no older than the stamp (`StampInv`). The difficult step is the one
  that writes the stamp, at the end of a preload in one directory while the
  other may hold an old odex: `FreshInv` says that the directory of a preload
  never does, and that a preload outside the current directory has made its
  directory the next one, unless a clean has since emptied the current one.
  `CheckedInv` carries what the start has compared from the check to the load,
  `ClearedInv` what `clearDir` has still to delete. `NoOdexOfOldSystem` follows
  at `Inject`.
* `FilesInv` is about the files of a directory that is not `mixed`. There a
  preload is alone (`SoleInv`), so its class files are not lost and its jar is not
  exchanged (`PreloadInv`), and an install starts in an emptied directory
  (`EmptiedInv`). So beside a jar there is only what was made of it: the merged
  file is that jar and the whole apk and the odex was compiled from it
  (`MadeInv`), whatever the compiler writes and whenever. The md5 record plays no
  part, so it does not matter which directory it came from or whether the odex
  was at rest. `mixed` ends when the directory is empty and no preload is in it,
  which is when the four parts hold by themselves.

**`MonitorProofs`**: any number of threads, any size of the count field, any
nesting. `Inv` is the types and `LockInv`, the three parts of which are in
`Monitor`: what the word and the fat monitor say of each other (`WordInv`),
what the place of a thread says of both (`PlaceInv`), and that a thread's
nesting is one more than the count that is stored for it (`HoldInv`).
`HolderOwns` and `FattensOnce` follow, and the refinement of `JavaMonitor`:
`Cas`, the mutex and the fattening of a thin lock map to `Enter`, the unlocks
to `Exit`, `WaitRelease` to `Wait`, `WaitDone` to `Return`.
`InterruptKept` has an invariant of its own: what a wait or a query has read of
the flag is still in its local until the thread is back from it.
`SleeperReachable` and `NoStaleWaiter` rest on `WaitInv`, about the wait set: it
lists each thread at most once, and only threads inside a wait. A thread that
sleeps on its condition is on the list, or was woken by a signal or an
interrupt that has set `signaled`, or is in the hands of a notifier, which has
taken it off and still owns the lock (`WaitPlace`). `Notify` and `NotifyAll`
take off the head, `WaitSetRemove` one from the middle; the lemmas `JoinSet`,
`PopSet` and `UnlinkSet` say what each does to the list as a set of threads.

**`ClassInitProofs`**: any threads, classes and programs. `Inv` is the types
(`Types`) and `InitInv`: a thread at "publish" has stored its id and holds the
monitor; a claim is signed with the id of its thread and, until it is settled,
the status says "initializing"; and "initializing" has a claimant. So a second
claim would need another id (`OneInitializer`), a reader without the lock that
finds its own id and "initializing" has the claim (`NoStaleClaim`), and a class
that is settled has nobody who could change it (`SettledForGood`), which gives
`ConsistentView`. `WaiterHasWaker` follows since a thread goes to sleep only
under the monitor with the status not settled or with the claimant between its
unlocked write and its notify.
`ClinitAfterSuper` has an invariant of its own, `StackInv`, on the calls a
thread has nested. The chain `outer` is not followed by recursion: there *is* a
depth for every class (`Nested`) that grows from a call to the one inside it,
so that a superclass which was not ready when the `<clinit>` of a class started
is the business of a call further out. That call cannot end before the inner
one, so it cannot reach its own `Settle` while it is needed.

**`ConcurrentGcLocks`, `ConcurrentGcProofs`**: any heap,
fields, words and cards of any size, any number of threads. `IInv` has fourteen
parts. Locks first: who holds the heap lock in which phase, that one thread
runs the collection, and that when the world is stopped no thread is between a
store and its card (`LockInv`, `WorldInv`). Then

* the heap: everything within reach is live, and free chunks are blank
  (`HeapInv`, `BlankInv`); what each phase holds in its hands (`StageInv`);
* the three colours (`TriInv`, with `MarkInv`): behind the finger, a marked
  object that is not on the stack or being scanned has white targets only if
  its card is dirty, or a thread that is not at a safepoint has still to dirty
  it. `GrayIsDirty` is that at the second stop, where the second alternative is
  gone. After the cards are scanned and the stack is empty the marked set is
  closed, and it has the roots in it, so whatever is reachable is marked;
* references: a reference object with a white referent is on the lists until it
  is cleared (`RefInv`), the finalizer list and its zombies (`FinalInv`), and
  what the threads may have got since the roots were marked (`RootInv`).
  `ClearsOnlyUnreachable` and `PhantomIsLast` follow by the closed set;
* the sweep: garbage is what the old bitmap has and the new one lacks, and a
  chunk allocated meanwhile is in both (`SweepInv`), so `FreesOnlyGarbage`
  follows from `HeapInv`: what is freed is not live, and what is accessible is;
* the last collection: without the concurrency and the immune marking, every
  mark has a path from the roots (`ExactInv`), and after the sweep exactly the
  marked chunks are in use (`UseInv`), which gives `OomHeapIsReachable`.

`Reachable` and `Accessible` are intersections of closed sets, so that no
induction over paths is needed: the proofs show one closed set.

**`ThreadSuspendProofs`**: any number of threads, each of which may collect,
post events and lock the list, any requests of the debugger, any `MaxCount` and
`MaxDebt`. `Inv` has these parts: what the place of a thread says of its
status, its cause and the suspend lock (`PlaceInv`), what the debugger has
asked for (`RequestInv`), `CountsCover`, `SleeperHasWaker`, and `WorldInv`: a thread that a collector has seen stop is
*quiet*, that is neither in managed code nor at a place that leads there
without a look at its count. It cannot leave such a place, since `CountsCover`
makes its count greater than 0 while somebody holds the world, and no second
collector gets past its own wait, since it would have to see the first one
stop. `StopTheWorld` follows, for a collector at "stopped" has seen everybody.
A robbed thread is quiet only while the collector still waits for others, with
the list locked: the debugger cannot lower a count then (`AwaitInv`).
That no resume takes `suspendCount` below 0 needs the same parts: a collector has its
share in every count (`HeldIsCounted`), and the debugger resumes everybody only
when no collector holds the world (`DebuggerAlone`).

Only model-checked: the liveness properties, since liveness under fairness is
beyond the prover. Every other property of a passing run is a theorem.

## 7. What is not modelled, and why

In the SDK:

* Power loss. A write that returned is on the disk; only the process dies.
* In `PatchManager` and `PatchSlot`, `FileUtils.clearDir` is one step per directory
  (`ColdDex` takes it file by file). It renames each file to a
  name that nobody reads before it deletes it, and there is one jar; a death
  between two libraries leaves fewer files than a death before.
* The refusal to start on Android 9 without `SophixApplication`
  (`PatchManager.java:84`) and refused files: nothing is stored or changed.
* The device id and `happ_ishotfix`, saved and restored by `cleanPatches`: no
  step of the model reads them. Reports to the server are left out.
* The query and the `addPatch` after it are one task of one thread, and the
  model starts `addPatch` in the step in which the query ends. The throttle and
  the retries of queries, a second query that overwrites the download file in
  between, and one that withdraws an order while the patch of the first is being
  installed, are left out. A query carries the version of the time it was asked
  for, so any patch may be taken for newer.
* Cold patches on Dalvik (SDK 20 and below), where the class files are loaded
  one by one and counted in `SP_BASE_DEX_COUNT`, and the enhanced mode, which
  compiles the jar itself: `ColdDex` follows the ART branch of each method.
  Sub-processes never preload.
* Sub-processes, and the stub application.
* Cryptography, class-loader and AssetManager reflection, ART method
  surgery, the Android framework, generated and vendored code. Classes under
  `com.taobao.sophix` are not in the repository; what the code uses of them is
  modelled from that use.

In the VM:

* Object locks: the hash bits of the word (built with the copying collector
  only), the sampling of contention, `dvmSweepMonitorList`, which runs with the
  world stopped, and `dvmThreadSleep`, a timed wait on a lock of its own.
* Class initialization: loading, linking and the verifier's work, with the
  classes that these and the exceptions of the front half may initialize while
  the monitor of the class is held. A program that keeps the monitor of a class
  while it asks for another is left out: it can stop the initialization for
  ever whatever the VM does, although `Class.cpp:4176` says no interpreted code
  has access to the class yet.
* Collector: growth and trimming of the heap, heap profiles, tracked
  allocations of JNI, the copying collector (not built). A chunk is found or
  not, without the fragmentation of dlmalloc.
* Suspension: threads that start and end, method calls by the debugger,
  timeouts of `waitForThreadSuspend` (it logs and, after long, aborts the VM),
  the abort of the VM when `lockThreadSuspend` has not got the lock in 3 s
  (`Thread.cpp:490`), and requests and events that touch no count.
* Everything sequential: the compilers, the interpreters, the bytecode
  verifier, class loading, JNI, profiling. These are by far the most of the
  C++ lines; their correctness is that of translations and analyses of
  bytecode, which bounded models of a useful size do not reach.

`ReLinker`, the uninstall watcher, the reference-counted database, the patch
builder, the binary patcher and the smaller components are not modelled;
`PROJECT.json` gives the reason for each.

## 8. The plan

1. `ReLinker`: the library files and the loads on several threads
   (`ApkLibraryInstaller.java:118` writes to the final name). Abstract
   specification: a library that is loaded is whole.
2. `SubProcess`: a second process that reads the directories of the first, and
   `StubApp`, the removal and installation of the providers.
3. The composition of `ThreadSuspend` with the phases of `ConcurrentGc`, in
   place of the one-step suspension.
