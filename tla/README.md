# rvx-builds: TLA+ specifications

rvx-builds downloads Android apps and patch bundles, patches the apps with a
Java command line tool and records what it built. Apps are processed in
parallel threads that share caches; a process-wide coordinator turns SIGINT and
SIGTERM into a graceful shutdown; hourly workflow runs decide what to build
again and share one record of what was built. These modules specify the
builder's logic, TLC checks them on small instances, and TLAPS proves the main
safety properties of the concurrent core, and that the right APK is chosen, for
every size.

Paths are below `src/`, the root of the repository.

## The system

| Part | Source | State | Operations | Hard behaviour |
|---|---|---|---|---|
| Shutdown coordinator | `src/signals.py` 365-840, `main.py` 218-228 | phase, handlers, registry and its snapshot, frozen identifiers, abort latch, published future, drain worker | install, uninstall, register, unregister, signal handler, drain worker, finalizer, redelivery | the handler runs on the main thread between any two bytecodes and takes no lock; clients publish under a lock the handler ignores; second signals, nested handlers; early process exit |
| Pending-call bridge | `src/signals.py` 76-145 | queue, scheduled flag, CPython's own queue | post with retries, drain | a full queue; withdrawal of a callback races the drain |
| Cancellation token | `src/signals.py` 220-357 | one event | cancel, checks, watcher daemon | completion and cancellation at the same moment |
| Build run | `main.py` | updates_info, failed_apps, futures | process apps in sequence or in a pool, write metadata, export, verdict | apps fail or are cancelled in any order; interrupts while waiting |
| Patcher | `src/parser.py` 630-719 | child process, output APK | launch, read, reap, judge the exit code | termination, partial output, left-over APKs |
| Shared resource cache | `src/app.py` 423-651 | URL to tag and file, a lock per URL, a pool per app, the app's bundles in order | filter, download, merge | several apps miss the cache together; releases come out meanwhile; some downloads fail; the order of bundles |
| APK cache, version fall-back, apkeep | `src/app.py` 102-209, `src/apks/version_fallback.py`, `src/downloader/download.py` 202-350, `src/downloader/apkeep.py` | cache, resolved version | check, lock, download, step down | stale resolved version; failure under the lock |
| File download | `src/downloader/download.py` 74-165 | files | download, reuse, replace | the same file by two apps |
| Requests, browser service | `src/utils.py` 175-252, `src/prowl_client.py` | session headers and cookies | try, wait, retry, browser, last try | cancellation between attempts; unusable answers; a shared session |
| Patch listing | `src/patches_gen.py` | none | list, split, parse | labels inside options; two dialects |
| Patch selection | `src/parser.py`, `src/patches.py`, `src/_bundle_selector.py` | lists of patches and options | include, exclude, options, command | places of bundles, several copies of a patch, exclusive mode |
| CLI profiles | `src/cli_args.py` | none | merge overrides, fill templates | values for several templates |
| APK sources, variants, repacking | `src/downloader/uptodown.py`, `src/downloader/apkmirror.py`, `src/apks/variant_sorter.py`, `src/apks/repack.py` | none | find a version, choose a variant, filter splits | which failure means "step down" |
| Need to build, revisions | `check_resource_updates.py`, `src/utils.py` 363-404, `src/manager/github.py`, `src/jars/normalize.py` | `updates.json` across runs | fetch, compare, build, push | runs that overlap, lost entries, metadata-only releases |
| Release metadata, other sources, scripts, workflows | `src/metadata`, `src/downloader/apkpure.py`, `github.py`, `gitlab.py`, `scripts`, `auto` | none shared | I/O | the shape of web pages |

They meet in few places. `main.py` installs the coordinator, then runs the
apps; every app worker calls the resource cache, then the APK cache, then the
patcher, and looks at the cancellation token in requests and around the
patcher. A signal cancels the token, drains registered cleanups and is then
redelivered to the disposition that was there before: KeyboardInterrupt in the
main thread for SIGINT, the end of the process for SIGTERM. What a run built
goes into `updates.json`, which the next run's check reads.

What makes each part correct:

* coordinator: an accepted cleanup runs once, in LIFO order, before the
  handlers are restored; a signal is raised only at the restored disposition,
  once; a shutdown does not hang;
* bridge: a posted callback runs, or its poster is told that it will not;
* build run and patcher: what is recorded as built was built by this run, no
  success is lost, no failure is exported, a cancelled run ends and leaves no
  patcher behind;
* requests: a cancelled process stops asking, an answer is given only when it is
  conclusive or nothing is left to try, a clearance is used once obtained;
* APK cache and download: apps that ask for the same selector patch the same
  APK, the version recorded is the version of that APK, the fall-back passes
  over no candidate that is surely found, an error releases the lock;
* resource cache: all apps of a run patch with the same release of a URL, no
  app goes on without a resource, no failed download blocks another app;
* selection: the command enables, bundle by bundle, exactly the patches the
  requests select, with their options (as far as the code reads them);
* need to build: no build of what has been built, none missed, a revision tells
  two builds of one version apart, and the record settles.

## Modules

| Module | What it is |
|---|---|
| `SignalCoordinator` | the coordinator with main.py's entry point |
| `Shutdown` | what the coordinator promises to main.py and to the owners of cleanups |
| `SignalDrainInvariant`, `SignalSafetyInvariant` | the inductive invariants: `DrainInv` of the drain, `SafetyInv` of the shutdown around it, `PromiseInv` behind the refinement of `Shutdown` |
| `SignalCoordinatorProofs` | the coordinator's type correctness, safety properties and refinement of `Shutdown` |
| `MainThreadPost` | what the pending-call bridge promises |
| `PendingCalls`, `PendingCallsProofs` | the bridge; its wake-ups and its refinement of `MainThreadPost` |
| `BuildRun`, `BuildRunProofs` | main(), the app workers, the patcher and its watcher |
| `Requests`, `RequestsProofs`, `MCRequests` | make_request and the browser service |
| `PatchResources`, `PatchResourcesProofs`, `MCPatchResources` | the shared resource cache |
| `ApkDownload`, `ApkDownloadProofs`, `MCApkDownload` | the APK cache, the version fall-back, the download, apkeep |
| `Rebuild`, `RebuildProofs`, `MCRebuild` | the need to build, revisions, `updates.json` across runs |
| `CliArgs` | argument profiles, overrides, templates |
| `PatchListing` | listing a bundle's patches and parsing the listing |
| `Selection`, `SelectionPromises` | the selection of patches and the command; what the documentation promises of it |
| `ApkSources` | version search, variants, split APKs |
| `Algorithms`, `AlgorithmsProofs`, `MCAlgorithms` | the inputs of the four modules above and their properties |

`Selection` and `PatchListing` extend `CliArgs`; `SelectionPromises` extends
`Selection`; `Algorithms` brings them and `ApkSources` together; `PendingCalls`
instantiates `MainThreadPost`, `SignalCoordinator` instantiates `Shutdown`. The
other modules meet through what they leave open: `SignalCoordinator` has the
bridge by its outcome (the finalizer will run, or the post fails), which
`PendingCalls` shows to be all there is to it; `BuildRun` has the coordinator as
`Cancel`, `Interrupt` and `Kill`, and takes an interrupt only after the token is
set, which is the guard of `Hand` in `Shutdown`; it has downloads as a step that
succeeds, fails or is cancelled, which is how calls of `Requests`, `ApkDownload`
and `PatchResources` end; the order of bundles that
`PatchResources` computes is an input of `Selection` and a choice in `Rebuild`.

Operators whose comment begins with `Mutant:` are wrong variants of the
operator that follows them. Put in its place, each makes TLC find a violation
of a property: they show that the property depends on that piece of code.

### SignalCoordinator

The main thread is a stack of activations: the main program (`Main`), the
handler of signal occurrence *k* (*k*), and the pending call that finalizes
(`Fin`). Only the one on top moves; `Arrive` pushes a handler between any two
steps. Each statement of `_on_signal` that other threads can observe is a step
(`Entry`, `CancelToken`, `Freeze`, `SpawnWorker`, `Escalate`, `Detach`,
`RestoreHandlers`, `RaiseSignal`), because the handler holds no lock. Clients
take the lock (`BeginRegister`, `BeginUnregister`) and publish in separate
steps (`CopyRegistry`, `Publish`, `PublishSnapshot`, `Verdict`), so that a
handler may freeze the snapshot in between. The drain worker is `DrainLoop`,
`RunRegistration` and `FinishDrain`.

A registry is the set of its identifiers: Python dictionaries keep insertion
order, and identifiers are issued and inserted under the lock, so order of
identifiers is order of registration. Time is the flag `expired`: the grace
period may run out at any moment. The prior disposition of a signal may end the
process, return or raise; an exception unwinds the stack (`Unwind`) up to
main.py's `finally`.

Three constants open windows. `EarlySignals` lets signals arrive while
`install()` is running. `MainFinishes` lets main() return. `Reentrant` lets a
second signal hit the first statements of the handler, before it has assigned
DRAINING; CPython allows it, and the run `SignalReentrant` shows what happens.
All other properties are checked and proved with this last window closed.

`Shutdown` forgets phases, handlers, locks and threads. Its variables are
computed from the coordinator's: the stage of main() from the main thread's
program counter (`MainStage`), the stage of the drain from the workers'
(`DrainStage`: running from the moment a worker exists, over when one has
finished its list), the accepted cleanups from what `register()` has returned
(`AcceptedIds`), the started ones, the signals that own a drain (`TakenOcc`) and
those the prior disposition has seen (`HandedOcc`) from the counters of runs and
deliveries. It does not promise that only accepted cleanups start, nor that a
withdrawn one does not: a cleanup whose `register()` is refused, or whose
`unregister()` answers True, between the handler's read of the snapshot and the
freeze may still be run by the drain.

### PendingCalls

`queue` and `scheduled` are `_PENDING_CALLS` and `_PENDING_CALL_SCHEDULED`, which
are changed only under their lock, so one pass through the lock is one step:
`Posted` and `RingFull` are the two ends of a poster's pass, `Sleep`, `Late` and
`Withdraw` what follows a full queue. `ring` is CPython's own queue, of bounded
size, that others fill as well (`OtherCall`) and the main thread serves in order
(`PendingCall`). `_drain_pending_calls` is `Take`, `RunCallback` and `Drained`.
The refinement maps each poster to the answer it got and each callback to its
fate; a callback that is taken by the drain while its poster is giving up runs
although the poster raises, and `MainThreadPost` says so.

### Requests

A call goes through the stages direct, browser and final. The look at the token and
the request that follows it are two steps (`Look`, `Ask` or `AskBrowser`), and what
an answer does is a third (`Apply`): merge the browser's cookies and user agent into
the session, each only if the answer has it, conclude, wait for another attempt or
go on to the next stage. An answer of the browser service is a record with the first
thing that is wrong with it; `Usable` is what `solution_from_envelope` lets through.
The session holds cookies per site (`jar`) and one user agent: there is one browser,
so `agent` says whether its agent has replaced the session's own. Statuses are drawn
from a set with one member of each kind the code tells apart.

### PatchResources

Worker `<<a, i>>` is the pool thread that gets resource *i* of app *a*. Each
moment at which another thread can act is a step: the pass over the cache under
its lock (`Filter`), the wait for the URL's lock (`AcquireUrl`), the second look
at the cache (`CheckCache`), the resolution of the release (`ResolveRelease`),
the end of the download (`FinishDownload`), and the merge into the cache, which
takes one future per step while the app holds the cache lock (`BeginMerge`,
`Merge`, `MergeFails`, `EndMerge`). `PublishRelease` is the world: a newer
release makes two downloads of one URL differ. A file stands for its release.
`PatchBundles` is `app.patch_bundles`: first what `Filter` found in the cache,
then what `Merge` took over. `resource_dl_locks` is not modelled as such:
`setdefault` under its own lock gives every thread the same lock object, which
is `url_lock[u]`.

### ApkDownload

The apps of one source, which is all that a cache entry can be shared by. An
app's `way` is the branch `download_apk_for_patching` takes: its own URL
(`direct`), the versions of its patches (`fallback`), or its selector, with
`Latest` for any. `Begin` is everything up to the with-block, first look at the
cache included; `Acquire` is the second look; `Publish` the assignment to the
cache and the end of the block. In between, `Resolve` is a scraper that found a
page, `StepDown` a VersionNotFoundError, `Break` any other error; `Fetch` and
`Write` are `_download`, whose replacement of the target is atomic; `ApkeepRun`
and `ApkeepEnds` are apkeep; `Convert` merges bundles and settles the version.
The scrapers are reduced to what the downloader learns from them: whether they
find the version, the kind of file on its page and possibly its name; how they
learn it is in `ApkSources`. VersionNotFoundError means less than that the source
lacks the version. APKMirror raises it after any error of the guessed address if
the first page of the listing lacks the version (`apkmirror.py` 231-263), UptoDown
after a 404 of the file as well as of its page (`uptodown.py` 245-255). So there are
two sets: `available` are the versions that may be found, `sure` those that no
request can miss, being on the first listed page with page and file in place.
`StepDown` may happen to any version that is not `sure`, on UptoDown also while
its file is fetched. `Release` is the source publishing a version while the apps
run.

The temp folder holds, per name, nothing or a file of some release, whole or
not (an archive being zipped). A release has a size of its own: the comparison
with content-length tells releases apart. The runs have a server that sends it
(`LengthsSent`). Repacking keeps the original under its name and is part of
`Convert`, and so is a file named `.apk` that turns out to be an archive
(`MayBeArchive`): it is moved aside and merged into a file of its old name.
`dry_run` is left out.

### BuildRun

One module for main(), the app workers, the patcher and its watcher, because
what matters is their order. Everything an app does before it patches is
`preparing`; it ends in a launch, a failure, or, if the token is set, a
cancellation (the token is looked at only in some places, so it need not). In a
sequential run the main thread is itself the worker, so `Interrupt` unwinds
`process_single_app` and sets the completion event; in a parallel run it leaves
the loop over the futures, and a second one leaves the executor's join. A pool
keeps starting queued apps while it shuts down, as `Executor.__exit__` does.
`continue_on_error` (a property of the app's CLI profile) and the existence of
the export directory are choices of the step that depends on them.

### Rebuild

`record` is `updates.json` on its branch. A run first checks the apps one after the
other: `Fetch` for the versions and for the sources, `Resources`, `Fetch` for the
hashes, `Decide`, which reads the file once more for the names that belong to the
hashes. It then loads the file (`Load`), builds (`Build`, one app per step) and
pushes all of it (`Push`), unless it has patched no app: the workflow verifies that
before it commits (`Verified`; `build-artifact.yml` 113-126). Runs are started by
the schedule and may overlap. A bundle's file is the bundle and its tag; its
normalized hash is the content under that tag, so a release may change its tag
alone. Hashes are compared in the order of file names, versions in the order of
`patch_bundles`, which depends on the process; both are Python's stable sort
(`SortedBy`). A file name is a digest of the URL, so a release with new metadata
only may change the order of the hashes, and then the comparison fails although the
contents are the same: `NoSpuriousRebuild` has as a premise that the names sort as
the recorded ones did (`SameOrderedContents`). An app without bundles is built by
every run, since an empty record counts as none. The world publishes releases
(`Publish`), new versions of apps (`Offer`) and edits the configuration between runs
(`Configure`). Download URLs and replaced assets under an unchanged tag, which no
check can tell apart, are left out, as are unreadable bundles, whose hash is the
same empty string on both sides.

### CliArgs, PatchListing, Selection, ApkSources

Pure operators, one per function of the source, over abstract data: a template is
its kind and the key it belongs to, a line of a listing its label, its column and
its words, a page a record of what the scraper looks for on it. `Algorithms` chooses
one input in its only step, and each invariant compares the result with a definition
that takes another road: `ArgumentsAgree` finds each value on the command line next
to the template it is meant for (`ValuesInPlace`: the next one that takes a value,
or the last for all that is left); `SelectionAgrees` reads the finished command as a
patcher does and compares it with `SelectionPromises`, where a request is a set of
bundle positions and options are merged key by key. `SelectionPromises` is the
documentation; the code reads less of a configuration than is documented, so the
comparison is made for what it reads (`AsRead`: include requests without a selector,
of a patch's options the highest level that has any). A copy of a patch whose option
keys differ from those of a copy in an earlier bundle is promised no options of its
own (`FirstOfItsKeys`), only that it gets no others; `ListingRoundTrips` prints a
list of patches in either dialect and parses it; `DownloadChoice` says of the result
that the version is the one asked for, that no variant on offer would have been
better (`NoneBetter`), that the fall-back is told to step down only of a version the
site does not list or whose page, or on UptoDown the file behind it, answers 404,
and that of a bundle just the splits are kept that fit the device. Every page, file
and release says how the request for it and the transfer of its file end, in a 404
or another error included. A version of APKMirror counts as listed if it is on the
first page or its guessed address shows a release, whatever error that address ends
in otherwise. In sorting keys the open end of a density range is `Infinity`, a
number above every density there is. Versions are sequences of numbers; what the
scrapers do to them as text is modelled where it matters: a title contains a version
as a part of it (`InTitle`), and addresses are ordered on their own.

## Runs

| Run | Shows | Bounds |
|---|---|---|
| `SignalSafety` | LIFO and hence once, no accepted cleanup lost, escalation reaches the coroutine, drained before finalized, refinement of `Shutdown` | 1 client thread, 2 registrations, 2 occurrences of 1 signal |
| `SignalLive` | raised only at the prior disposition, delivered once, redelivered in the end; signals from the first statement of install() | 2 signals, 2 occurrences, 1 registration, main() keeps running |
| `Pending` | no lost wake-up, refinement of `MainThreadPost`, accepted callbacks run | 3 posters, a ring of 2 |
| `Requests` | one late request, justified answers, cookies and user agent carried, calls end | 2 threads, 1 site, one status of each kind |
| `Resources` | agreement on releases, nothing missing, one fetch at a time, the cache is stable, every app ends | 2 apps with the same CLI and bundle, 2 workers each, 2 releases per URL |
| `Apk` | the cache is stable, equal selectors give equal APKs, recorded version is the file's, no surely found candidate passed over, fresh when caching is off, every app ends | 2 apps of one source in 8 combinations of ways, 2 releases, 2 candidates |
| `BuildRun` | built by this run, never terminated, nothing lost, no failure exported; a cancelled run ends and ends its patchers | 2 apps, pool of 2, 2 interrupts |
| `Rebuild` | no spurious rebuild, nothing missed, revisions grow, the record settles | 2 runs, 2 apps that share a bundle, 2 changes of the world, 1 failure, 1 overlap |
| `Algorithms` | arguments, selection, listings, sources | 58 thousand inputs |
| `SignalReentrant` | two drains at once | violation |
| `BundleOrder` | an app's bundles in the wrong order | violation |
| `BuildEmpty` | all apps fail, main() succeeds | violation |

Two occurrences of a signal give a shutdown and an escalation, nested or not;
a third goes to the restored disposition. Two registrations are the least that
have an order. A ring of two can hold a drain and another's call, or be full of
others' calls, and three posters are one that fails, one that finds the flag
set and one that comes late. Two apps sharing both resources contend for the
cache lock and both URL locks; two releases make their downloads differ. Two
interrupts reach both places in which main() waits. Two changes of the world
are a release during a run and its successor or an edit; one overlap is enough
for a push to be lost. The inputs of `Algorithms` have up to three templates,
two bundles, two copies of a patch and two requests. The proofs have none of
these bounds.

The violations are what the code does, against what a comment, the header, a
test or the documentation says of it. Each run checks one such sentence.

## Fairness

Safety runs assume none. `SignalLive` assumes that the interpreter runs the main
thread, workers, helpers and clients that hold the lock; not that anybody sends
a signal, registers or completes a coroutine. A synchronous cleanup is assumed
to return: the source says it cannot be pre-empted. `Pending` assumes that the
main thread and posters are run, and strong fairness of `Late`: a poster that
keeps finding the queue full has a deadline, however often it sleeps in between.
`Requests` assumes that requests and waits end, each having a time-out.
`Resources` assumes that threads run and that requests end. `Apk` assumes the
same of app threads and of external tools; `BuildRun` of workers and watchers,
but nothing of the patcher: only its watcher makes it end. `Rebuild` assumes
that the schedule keeps starting runs and that a run's steps are carried out;
failures and overlaps are bounded.

## Proofs

TLAPS checks all of them from nothing.

* `TypeCorrect` (`SignalCoordinatorProofs`): `TypeOK` is inductive once it says
  that the stack is never empty and that a client inside the lock has an
  identifier.
* `DrainInvariant`, `CleanupsRunOnce`, `CleanupsAreLifo` (same module):
  once-and-LIFO is not inductive, because nothing in it stops a second worker.
  `DrainInv` adds the chain the code relies on: before a shutdown nothing of
  one exists; an activation that has read ACTIVE and not yet written DRAINING is
  on top of the stack; so at most one occurrence ever owns a list; and what has
  run is above everything left on that list. The assumption is `~Reentrant`;
  `SignalReentrant` shows that it is needed. The run checks `StrictLifo` alone: a
  cleanup that starts is older than all that started before, so none starts twice.
* `SafetyInvariant` (same module) adds `SafetyInv` on top of `DrainInv`, in layers, each
  preserved by every step given the layers before it; the assumption is again
  `~Reentrant`. `Nested` says that the stack holds the running activations, each
  once, and `GoneBeforePosted` that a finalizer exists only when the worker has
  gone: `FinalizersFollowTheDrain`. `PutBack`: what has been given back stays
  given back, except in `install()`: `RaisesReachPriorHandler`. `OneDelivery`
  counts the posted finalizer, the running one, the redelivery thread and the
  delivery as one: `SignalsAreDeliveredOnce`. Six parts lead to
  `EscalationCutsTheWait`: who holds the lock, what the worker has published,
  that a signal taken in ACTIVE is one still owned, that only an activation that
  has set the latch detaches, that nothing but `uninstall()` ends a drain before
  an escalation, and `WaitIsCut`, which names who will release a waiting worker.
  Four parts lead to `NoAcceptedCleanupIsLost`: a token is issued once
  (`TokensIssued`), an accepted registration is in the registry and its snapshot
  as long as a drain may still read them, and so is one whose re-check is ahead
  (`InRegistry`), nothing is frozen before the freeze (`NothingFrozen`), and what
  is frozen or accepted is on the drained list or has run (`InDrain`).
* `CoordinatorKeepsPromise` (same module): every step of the coordinator is a step
  of `Shutdown` or a stutter, for any clients, signals and registrations, again
  under `~Reentrant`. `PromiseInv` says what the steps need beyond `SafetyInv`: of a
  shutdown there is nothing before the token is set (`CancelledFirst`); a worker
  at the end of its list has walked it, or its time is up (`ListWalked`); no
  `register()` is under way when a drain that nobody gave up is over
  (`RegisteredInTime`); what `install()` has taken it still holds until it has saved
  what was there before (`Installing`); and while main() works, the coordinator
  keeps every signal or none, and every one while such a drain is running (`Held`).
* `PendingCallsProofs`: the invariant says that callbacks in the queue are
  distinct and belong to posters that have not given up, that the flag is set
  exactly while a drain is under way, and that a poster that has returned waits
  only while it is set. `WakeupsKept` follows; `BridgeImplementsPost` maps every
  step to a step of `MainThreadPost` or a stutter, for any number of posters and
  any ring.
* `RequestsProofs`: the invariant counts what each stage has sent and ties a late
  request to a look at the token that came before the cancellation;
  `AtMostOneLateRequest` and `AnswersAreJustified` follow for any threads, sites
  and statuses. `ClearanceIsCarried` needs that a call which got cookies or a
  user agent has them in the session, unless that answer is still to be applied;
  nothing takes either out again.
* `PatchResourcesProofs`: `ResInv` says that a worker past its URL's lock is the
  only one in it, that resolved futures hold a release, that recorded releases
  are the cached ones, and that an app has recorded whatever it has passed over.
* `ApkDownloadProofs`: `CacheInv` says that an app sharing the cache downloads only
  inside the with-block and only while its entry is missing, that what it is about
  to publish is a file, and that an app that is done has what its entry says. The
  second look at the cache is what makes it inductive. `FilesInv` follows a file
  from its transfer to the end: who owns which name, where an app can be by the way
  it goes, that nobody else writes the files of an app that is under way or done,
  and that from the transfer on the file is of the release the app has found. It
  gives `VersionsAreOfFiles` and, with the remark that every candidate tried is one
  not surely found and older ones come after newer ones, `FallbacksAreNewest`, which
  assume `LengthsSent` (a file of the wrong release left over under the same name is
  otherwise taken as it is), and `AlwaysFresh`, which does not.
* `BuildRunProofs`: `RunInv` links the actors: nothing is terminated before the
  token is set, a worker judges only a patcher that has ended, results are
  recorded as judged, and a main thread that was not interrupted has collected
  every app.
* `RebuildProofs`: `RebuildInv` says that every recorded, loaded or freshly resolved
  list of files is a permutation of the bundles it was configured by, with a
  published release of each (`Resolved`), and that what a build has put in place of
  a loaded entry has grown from it (`Growths`). Releases are only added to, so
  hashes of what is resolved stay: `RevisionsAlwaysGrow`. The lemmas about
  `SortedBy` show that a stable order exists, takes every index once and, counting
  the keys below the k-th, that lists with the same keys have the same k-th key;
  files that sort alike, the same ones above all, have the same hashes in the same
  order (`SortedAlike`, `SameHashes`): `ChecksAreNeverSpurious`. For
  `ChecksMissNothing`, tags equal place by place and, by `~Ahead`, never smaller for
  the same bundle are equal for the same bundle: otherwise the bundles of at least
  some tag would be mapped one to one into fewer.
* `AlgorithmsProofs` is about the operators themselves, for sites, listings and
  bundles of any size. `Greatest` and `BestExists` show by induction over the
  number of rows, in the form of a set that contains 0 and every successor, that a
  best row exists; the lexicographic comparison of sorting keys is total and
  transitive, so the row chosen is one that none beats (`BestIsBest`). From there a
  lemma per function follows the code: what a page gives, what an entry gives, what
  the search gives. `UptoDownFindsTheVersion` asks of the site that it keeps under
  an entry what belongs to the entry's version (`IsUptoDown`); not found then means
  not listed, or a 404 of a page of the version or of the file behind it.
  `ApkMirrorFindsTheVersion` asks besides that the version asked for is part of no
  other version's title and that addresses are in the order of titles (`IsMirror`):
  1.2 is found in the row of 1.2.3, and the address of 9.10 comes before that of
  9.9, and then the code takes the wrong row. `BundleKeepsWhatFits` asks for a
  density that is a number. `DownloadIsChosenRight` shows that the cases TLC runs
  through meet these hypotheses, and so `DownloadChoice` holds of all of them.
  `RequestsDecide` is the exclude requests, of any number: what the code decides of
  a patch in a bundle is what the set of positions the entries stand for decides, if
  `EXCEPT` stands at most in front of the first (`AreRequests`).

They assume of the constants what the ASSUME of each module states, and
`~Reentrant`, `LengthsSent` or the hypotheses of `AlgorithmsProofs` where that is
said. TLC checks every inductive invariant on the instances of the runs:
`SafetyInv`, with `DrainInv`, on those of `SignalSafety` (2 234 760 states) and
`SignalLive`, `PromiseInv` on that of `SignalSafety`, `FilesInv` on that of `Apk`,
`RebuildInv` on that of `Rebuild` (750 624 states).

Only model-checked: liveness; everything under `Reentrant`; and three properties of
`Algorithms`. `ArgumentsAgree` and `SelectionAgrees` fold over lists and merge
options with `@@`, `ListingRoundTrips` flattens lists of lines: what such an
operator computes for every input needs an induction over lists whose operators
the provers cannot expand.

## Known divergences

Three runs show a disagreement between the code and what is said of it. Others,
met while modelling, have no run of their own:

* `EventuallyRedelivered` with `MainFinishes = TRUE`: if main() ends while the
  worker drains, the interpreter exits and the signal is never redelivered.
* `EscalationReachesCoroutine` without its exception: `uninstall()` called while a
  drain runs gives the signals back one by one; a signal that its prior
  disposition turns into an exception may then unwind an escalation that has set
  the latch and not yet reached the future, and the worker waits on until the
  grace period ends.
* `DownloadedOnce` (`PatchResources`, run `Resources`' instance): the URL lock is
  left before the cache is filled, so two apps download one URL, against
  `app.py:522`.
* `ApkmOnlyForMorphe` (`ApkDownload`, `Settings <- TwoProfiles`): the APK cache
  has no profile in its key, so an app of another profile gets Morphe's unmerged
  bundle, against `download.py:297`.
* `ExportIsFresh` (`BuildRun`): a cancelled or uncollected app is not in
  `failed_apps` and is exported from its older entry, against `main.py:209`.
* `FallbackIsNewestThereIs` (`ApkDownload`): a candidate the source has may be
  passed over, against `version_fallback.py:18-23`, by which download errors after
  the page was found, and all errors but a 404 of the version, propagate:
  `uptodown.py:245-255` and `apkmirror.py:231-263` raise VersionNotFoundError for
  others, too. `FallbackIsNewest` is what holds.
* `MetadataIsNoReason` (`Rebuild`): a release with new metadata only may cause a
  rebuild, as the digests that name its files may sort otherwise than before,
  against the comment of `check_resource_updates.py:182`.
* `NothingMissed` without its premise `~Ahead`: versions are compared in the order
  of `patch_bundles`; a check that resolved its bundles before another run
  recorded newer ones may take a swapped pair for the same. `Settles` says that
  it is made up for.
* `SelectionAsDocumented` (`Algorithms`), for two reasons. `customize-patches.md:434-438`
  promises selectors in INCLUDE_PATCH (`2:some-universal-patch`); `parser.py:471`
  compares bare names. `customize-patches.md:326` merges options per patch and
  option; the code replaces all options of a patch (`parser.py:291-361`).
  `SelectionAgrees` is about what the code reads (`AsRead`).
* `customize-patches.md:396` wants `EXCEPT::` on the first entry; `parser.py:436`
  takes it from any, which is why `RequestsDecide` has it as a hypothesis.
* The latest release of APKMirror is the greatest address as a string
  (`apkmirror.py:328`), and the row of a version the first that has it in its title:
  the hypothesis `IsMirror` of `ApkMirrorFindsTheVersion`.
* `parser.py:85` drops an option's value if it is false, zero or empty;
  `cli_args.py:263` emits the positional marker itself when values run out;
  `repack.py` keeps no density split if the nearest one is not in the bundle.

## Not modelled, and plan

Not modelled: APKPure (the factory never creates it), the release assets of
GitHub and GitLab, release metadata and changelogs, APKEditor and zip archives,
`race()` and `wait_async()` (only the tests call them), scripts and workflows
(I/O and text, no state shared with the builder except `updates.json`, of which
`Rebuild` has the schedule, the verification and the push); logging
and wording everywhere.

Next: the release assets and tags of GitHub and GitLab as operators, in the way
of `ApkSources`.
