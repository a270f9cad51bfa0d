---------------------------- MODULE PatchResources ----------------------------
(***************************************************************************)
(* How parallel apps obtain the CLI and the patch bundles (APP.            *)
(* download_patch_resources of src/src/app.py).  Every app of a run filters *)
(* its configured URLs against the cache all apps share, downloads the     *)
(* rest on a pool of its own under one lock per URL, waits for all of them *)
(* and then merges the results into the cache.                             *)
(*                                                                         *)
(* A download yields the tag the URL's latest release has at that moment;  *)
(* a file stands for its tag.  Resource i of app a is Configured[a][i]:    *)
(* the first one is the CLI, the others are the patch bundles.             *)
(***************************************************************************)
EXTENDS Integers, Sequences, FiniteSets

CONSTANTS
  Apps, Urls,
  Configured,      \* the URLs of each app, in order
  MaxWorkers,      \* max_resource_workers of an app's pool
  MaxTag           \* bound: releases published at a URL

ASSUME ResourcesAssumption ==
  /\ Configured \in [Apps -> Seq(Urls)] /\ \A a \in Apps : Len(Configured[a]) > 0
  /\ "free" \notin Apps
  /\ MaxWorkers \in Nat \ {0} /\ MaxTag \in Nat \ {0}

Resources(a) == 1 .. Len(Configured[a])
Url(a, i)    == Configured[a][i]
Workers      == UNION {{a} \X Resources(a) : a \in Apps}
Absent       == 0

VARIABLES
  disable_caching,  \* the run's configuration
  resource_cache,   \* URL -> tag, or Absent
  resource_lock,    \* the app that holds it, or "free"
  url_lock,         \* the workers that hold a lock of the URL
  latest,           \* the tag a download of the URL yields
  pc,               \* the app's thread
  task, result,     \* per worker: where it is, what its future holds
  merged,           \* the futures the app has looked at
  recorded,         \* what _handle_cached_resource stored in the app
  fetched           \* history: the workers that downloaded

vars == <<disable_caching, resource_cache, resource_lock, url_lock, latest, pc, task, result,
          merged, recorded, fetched>>

Init ==
  /\ disable_caching \in BOOLEAN
  /\ resource_cache = [u \in Urls |-> Absent] /\ resource_lock = "free"
  /\ url_lock = [u \in Urls |-> {}] /\ latest = [u \in Urls |-> 1]
  /\ pc = [a \in Apps |-> "filter"]
  /\ task = [w \in Workers |-> "none"] /\ result = [w \in Workers |-> Absent]
  /\ merged = [a \in Apps |-> {}] /\ recorded = [w \in Workers |-> Absent] /\ fetched = {}

------------------------------------------------------------------------------
(* The app's thread.                                                         *)

Cached(a, i) == ~disable_caching /\ resource_cache[Url(a, i)] # Absent

\* _filter_cached_resources, and what is left is submitted to the pool.
Filter(a) ==
  /\ pc[a] = "filter" /\ (disable_caching \/ resource_lock = "free")
  /\ recorded' = [w \in Workers |->
                    IF w[1] = a /\ Cached(a, w[2]) THEN resource_cache[Url(a, w[2])] ELSE recorded[w]]
  /\ task' = [w \in Workers |-> IF w[1] = a /\ ~Cached(a, w[2]) THEN "queued" ELSE task[w]]
  /\ pc' = [pc EXCEPT ![a] = IF \A i \in Resources(a) : Cached(a, i) THEN "done" ELSE "wait"]
  /\ UNCHANGED <<disable_caching, resource_cache, resource_lock, url_lock, latest, result, merged, fetched>>

Ended == {"none", "done", "builderError", "otherError"}

\* concurrent.futures.wait(...) has returned; `with resource_lock' is entered.
BeginMerge(a) ==
  /\ pc[a] = "wait" /\ \A i \in Resources(a) : task[<<a, i>>] \in Ended
  /\ resource_lock = "free" /\ resource_lock' = a
  /\ pc' = [pc EXCEPT ![a] = "merge"]
  /\ UNCHANGED <<disable_caching, resource_cache, url_lock, latest, task, result, merged, recorded, fetched>>

ToMerge(a) == {i \in Resources(a) : task[<<a, i>>] # "none"} \ merged[a]

\* Mutant: the app keeps its own download when another thread has cached one.
MergeOwn(a) ==
  \E i \in ToMerge(a) :
    LET w == <<a, i>>  u == Url(a, i) IN
    /\ pc[a] = "merge" /\ \A j \in ToMerge(a) : i <= j
    /\ task[w] = "done"
    /\ merged' = [merged EXCEPT ![a] = @ \cup {i}]
    /\ recorded' = [recorded EXCEPT ![w] = result[w]]
    /\ resource_cache' = IF disable_caching \/ resource_cache[u] # Absent THEN resource_cache
                         ELSE [resource_cache EXCEPT ![u] = result[w]]
    /\ UNCHANGED <<disable_caching, resource_lock, url_lock, latest, pc, task, result, fetched>>

\* Mutant: the cache takes every result.
MergeOverwrites(a) ==
  \E i \in ToMerge(a) :
    LET w == <<a, i>>  u == Url(a, i) IN
    /\ pc[a] = "merge" /\ \A j \in ToMerge(a) : i <= j
    /\ task[w] = "done"
    /\ merged' = [merged EXCEPT ![a] = @ \cup {i}]
    /\ recorded' = [recorded EXCEPT ![w] = result[w]]
    /\ resource_cache' = [resource_cache EXCEPT ![u] = result[w]]
    /\ UNCHANGED <<disable_caching, resource_lock, url_lock, latest, pc, task, result, fetched>>

\* The next future, in order of submission: what it holds goes to the app, and to
\* the cache unless caching is off or another app's result is already there.
Merge(a) ==
  \E i \in ToMerge(a) :
    LET w == <<a, i>>  u == Url(a, i) IN
    /\ pc[a] = "merge" /\ \A j \in ToMerge(a) : i <= j
    /\ task[w] = "done"
    /\ merged' = [merged EXCEPT ![a] = @ \cup {i}]
    /\ recorded' = [recorded EXCEPT ![w] = IF disable_caching \/ resource_cache[u] = Absent
                                           THEN result[w] ELSE resource_cache[u]]
    /\ resource_cache' = IF disable_caching \/ resource_cache[u] # Absent THEN resource_cache
                         ELSE [resource_cache EXCEPT ![u] = result[w]]
    /\ UNCHANGED <<disable_caching, resource_lock, url_lock, latest, pc, task, result, fetched>>

\* Mutant: a failed download is skipped.
MergeSkipsFailed(a) ==
  \E i \in ToMerge(a) :
    /\ pc[a] = "merge" /\ \A j \in ToMerge(a) : i <= j
    /\ task[<<a, i>>] \in {"builderError", "otherError"}
    /\ merged' = [merged EXCEPT ![a] = @ \cup {i}]
    /\ UNCHANGED <<disable_caching, resource_cache, resource_lock, url_lock, latest, pc, task, result, recorded, fetched>>

\* A future's exception leaves the loop: the app fails, the lock is given back and
\* what was merged before stays.
MergeFails(a) ==
  \E i \in ToMerge(a) :
    /\ pc[a] = "merge" /\ \A j \in ToMerge(a) : i <= j
    /\ task[<<a, i>>] \in {"builderError", "otherError"}
    /\ pc' = [pc EXCEPT ![a] = IF task[<<a, i>>] = "builderError" THEN "patchingFailed" ELSE "raised"]
    /\ resource_lock' = "free"
    /\ UNCHANGED <<disable_caching, resource_cache, url_lock, latest, task, result, merged, recorded, fetched>>

EndMerge(a) ==
  /\ pc[a] = "merge" /\ ToMerge(a) = {}
  /\ resource_lock' = "free" /\ pc' = [pc EXCEPT ![a] = "done"]
  /\ UNCHANGED <<disable_caching, resource_cache, url_lock, latest, task, result, merged, recorded, fetched>>

------------------------------------------------------------------------------
(* A worker of the app's pool: _download_with_dedup of resource i.           *)

Running(a) == {i \in Resources(a) : task[<<a, i>>] \in {"started", "check", "fetch", "stream"}}

Start(a, i) ==
  /\ task[<<a, i>>] = "queued" /\ Cardinality(Running(a)) < MaxWorkers
  /\ \A j \in Resources(a) : j < i => task[<<a, j>>] # "queued"
  /\ task' = [task EXCEPT ![<<a, i>>] = "started"]
  /\ UNCHANGED <<disable_caching, resource_cache, resource_lock, url_lock, latest, pc, result, merged, recorded, fetched>>

\* Mutant: the lock is made anew instead of looked up with setdefault.
OwnUrlLock(u) == TRUE

UrlLockFree(u) == url_lock[u] = {}

AcquireUrl(a, i) ==
  /\ task[<<a, i>>] = "started" /\ UrlLockFree(Url(a, i))
  /\ url_lock' = [url_lock EXCEPT ![Url(a, i)] = @ \cup {<<a, i>>}]
  /\ task' = [task EXCEPT ![<<a, i>>] = "check"]
  /\ UNCHANGED <<disable_caching, resource_cache, resource_lock, latest, pc, result, merged, recorded, fetched>>

\* Mutant: the lock of the URL is not released when the download raises.
ResolveHolding(a, i, outcome) ==
  /\ task' = [task EXCEPT ![<<a, i>>] = outcome]
  /\ url_lock' = IF outcome = "done" THEN [url_lock EXCEPT ![Url(a, i)] = @ \ {<<a, i>>}] ELSE url_lock

\* A future gets its value or its exception; the worker gives the URL lock back.
Resolve(a, i, outcome) ==
  /\ task' = [task EXCEPT ![<<a, i>>] = outcome]
  /\ url_lock' = [url_lock EXCEPT ![Url(a, i)] = @ \ {<<a, i>>}]

CheckCache(a, i) ==
  /\ task[<<a, i>>] = "check" /\ (disable_caching \/ resource_lock = "free")
  /\ IF Cached(a, i)
     THEN Resolve(a, i, "done") /\ result' = [result EXCEPT ![<<a, i>>] = resource_cache[Url(a, i)]]
     ELSE task' = [task EXCEPT ![<<a, i>>] = "fetch"] /\ UNCHANGED <<url_lock, result>>
  /\ UNCHANGED <<disable_caching, resource_cache, resource_lock, latest, pc, merged, recorded, fetched>>

\* APP.download: the release is resolved, then the file is streamed.
ResolveRelease(a, i) ==
  /\ task[<<a, i>>] = "fetch" /\ task' = [task EXCEPT ![<<a, i>>] = "stream"]
  /\ result' = [result EXCEPT ![<<a, i>>] = latest[Url(a, i)]]
  /\ fetched' = fetched \cup {<<a, i>>}
  /\ UNCHANGED <<disable_caching, resource_cache, resource_lock, url_lock, latest, pc, merged, recorded>>

\* The stream ends, or the download raises: a BuilderError (HTTP status, no
\* asset), or another exception (time-out, cancellation).
FinishDownload(a, i) ==
  /\ task[<<a, i>>] \in {"fetch", "stream"}
  /\ \/ task[<<a, i>>] = "stream" /\ Resolve(a, i, "done")
     \/ \E e \in {"builderError", "otherError"} : Resolve(a, i, e)
  /\ UNCHANGED <<disable_caching, resource_cache, resource_lock, latest, pc, result, merged, recorded, fetched>>

PublishRelease(u) ==     \* somebody publishes a release at the URL
  /\ latest[u] < MaxTag /\ latest' = [latest EXCEPT ![u] = @ + 1]
  /\ UNCHANGED <<disable_caching, resource_cache, resource_lock, url_lock, pc, task, result, merged, recorded, fetched>>

------------------------------------------------------------------------------

AppThread(a) == Filter(a) \/ BeginMerge(a) \/ Merge(a) \/ MergeFails(a) \/ EndMerge(a)

PoolWorker(a, i) ==
  Start(a, i) \/ AcquireUrl(a, i) \/ CheckCache(a, i) \/ ResolveRelease(a, i) \/ FinishDownload(a, i)

Finished(a) == pc[a] \in {"done", "patchingFailed", "raised"}

AllFinished == (\A a \in Apps : Finished(a)) /\ UNCHANGED vars

Next ==
  \/ \E a \in Apps : AppThread(a)
  \/ \E a \in Apps : \E i \in Resources(a) : PoolWorker(a, i)
  \/ \E u \in Urls : PublishRelease(u)
  \/ AllFinished

Spec == Init /\ [][Next]_vars

\* Threads run; requests end, because every one carries a time-out.
Fairness ==
  /\ \A a \in Apps : WF_vars(AppThread(a))
  /\ \A a \in Apps : \A i \in Resources(a) : WF_vars(PoolWorker(a, i))

FairSpec == Spec /\ Fairness

\* app.patch_bundles: _handle_cached_resource appends what the cache had first,
\* then what the pool fetched, each in configured order.
PatchBundles(a) ==
  LET bundles == [i \in 1 .. Len(Configured[a]) - 1 |-> i + 1]
      FromCache(i) == task[<<a, i>>] = "none"
      FromPool(i)  == i \in merged[a]
  IN  SelectSeq(bundles, FromCache) \o SelectSeq(bundles, FromPool)

------------------------------------------------------------------------------
(* Properties.                                                               *)

Tags == Nat \ {0}

TypeOK ==
  /\ disable_caching \in BOOLEAN
  /\ resource_cache \in [Urls -> Nat] /\ resource_lock \in Apps \cup {"free"}
  /\ url_lock \in [Urls -> SUBSET Workers] /\ latest \in [Urls -> Tags]
  /\ \A u \in Urls : \A w \in url_lock[u] : Url(w[1], w[2]) = u
  /\ pc \in [Apps -> {"filter", "wait", "merge", "done", "patchingFailed", "raised"}]
  /\ task \in [Workers -> Ended \cup {"queued", "started", "check", "fetch", "stream"}]
  /\ result \in [Workers -> Nat] /\ recorded \in [Workers -> Nat]
  /\ merged \in [Apps -> SUBSET Nat] /\ fetched \in SUBSET Workers

\* With caching on, every app of the run patches with the same release of a URL,
\* though several may have downloaded it and a new release come out in between
\* (_update_resource_cache).
AppsAgree ==
  ~disable_caching =>
    \A w \in Workers : recorded[w] # Absent => recorded[w] = resource_cache[Url(w[1], w[2])]

\* With caching off the shared cache stays empty, as _update_resource_cache says
\* ("the shared cache must remain untouched").
CacheUntouched == disable_caching => \A u \in Urls : resource_cache[u] = Absent

\* A cached release is never replaced during the run.
CacheIsStable ==
  [][\A u \in Urls : resource_cache[u] # Absent => resource_cache'[u] = resource_cache[u]]_resource_cache

\* An app goes on to patching only with every one of its resources, whichever part
\* came from the cache and whichever from its pool.
NothingMissing ==
  \A a \in Apps : pc[a] = "done" => \A i \in Resources(a) : recorded[<<a, i>>] # Absent

\* A URL is downloaded by one worker at a time, so its file is written by one.
OneFetchAtATime ==
  \A v, w \in Workers :
    task[v] = "stream" /\ task[w] = "stream" /\ Url(v[1], v[2]) = Url(w[1], w[2]) => v = w

\* Every app's resource step ends: no failed download leaves a lock behind that
\* another app or another resource waits for.
EveryAppFinishes == \A a \in Apps : <>Finished(a)

\* A bundle is known by its position in the configuration: "N - bundle index
\* (1-indexed) only", "Only keep custom-branding from bundle 2 and ads from bundle
\* 1" (auto/docs/customize-patches.md:391-401); parser.py:540 numbers
\* app.patch_bundles.
BundleOrder ==
  \A a \in Apps : pc[a] = "done" => \A i \in DOMAIN PatchBundles(a) : PatchBundles(a)[i] = i + 1

\* "A per-URL lock ensures only one thread ever downloads a given resource URL"
\* (_download_with_dedup).
DownloadedOnce ==
  ~disable_caching =>
    \A v, w \in fetched : Url(v[1], v[2]) = Url(w[1], w[2]) => v = w
==============================================================================
