------------------------- MODULE PatchResourcesProofs -------------------------
(***************************************************************************)
(* The safety properties of PatchResources hold for every number of apps,  *)
(* of resources per app, of pool workers and of published releases.        *)
(*                                                                         *)
(* The inductive invariant ResInv adds to the properties what each thread  *)
(* knows half-way: a worker past the URL lock is in the lock's set, which  *)
(* holds one worker; a future that resolved without exception holds a tag; *)
(* and an app that waits or merges has recorded whatever came from the     *)
(* cache and whatever it has looked at.                                    *)
(***************************************************************************)
EXTENDS PatchResources, TLAPS

Holding == {"check", "fetch", "stream"}

\* A worker that is past the lock of its URL holds it alone.
LockInv ==
  /\ \A w \in Workers : task[w] \in Holding => w \in url_lock[Url(w[1], w[2])]
  /\ \A u \in Urls : \A v, w \in url_lock[u] : v = w

\* A future resolved without an exception holds a tag, and one tag per URL is in the cache.
ValueInv ==
  /\ \A w \in Workers : task[w] \in {"stream", "done"} => result[w] # Absent
  /\ CacheUntouched /\ AppsAgree

\* What an app has behind it when its pool ends is recorded.
RecordInv ==
  /\ \A a \in Apps :
       /\ pc[a] = "filter" => merged[a] = {}
       /\ pc[a] \in {"wait", "merge"} =>
         \A i \in Resources(a) :
           task[<<a, i>>] = "none" \/ i \in merged[a] => recorded[<<a, i>>] # Absent
  /\ NothingMissing

ResInv == TypeOK /\ LockInv /\ ValueInv /\ RecordInv

USE DEF Absent, Tags, Ended, Holding

LEMMA WorkerPairs ==
  /\ \A a \in Apps : \A i \in Resources(a) : <<a, i>> \in Workers /\ Url(a, i) \in Urls
  /\ \A w \in Workers : w[1] \in Apps /\ w[2] \in Resources(w[1]) /\ w = <<w[1], w[2]>>
  /\ \A w \in Workers : Url(w[1], w[2]) \in Urls
  /\ \A a \in Apps : Resources(a) \subseteq Nat
<1>1. \A a \in Apps : \A i \in Resources(a) : <<a, i>> \in Workers
  BY DEF Workers
<1>2. \A w \in Workers : w[1] \in Apps /\ w[2] \in Resources(w[1]) /\ w = <<w[1], w[2]>>
  BY DEF Workers
<1>3. \A a \in Apps : Configured[a] \in Seq(Urls)
  BY ResourcesAssumption
<1>4. \A a \in Apps : \A i \in Resources(a) : Url(a, i) \in Urls
  BY <1>3 DEF Resources, Url
<1>5. \A a \in Apps : Resources(a) \subseteq Nat
  BY <1>3 DEF Resources
<1> QED
  BY <1>1, <1>2, <1>4, <1>5

LEMMA ResInit == Init => ResInv
<1> SUFFICES ASSUME Init PROVE ResInv
  OBVIOUS
<1>1. TypeOK
  BY ResourcesAssumption DEF Init, TypeOK
<1>2. LockInv
  BY WorkerPairs DEF Init, LockInv
<1>3. ValueInv
  BY WorkerPairs DEF Init, ValueInv, CacheUntouched, AppsAgree
<1>4. RecordInv
  BY DEF Init, RecordInv, NothingMissing
<1> QED
  BY <1>1, <1>2, <1>3, <1>4 DEF ResInv

\* What an app's own thread does.
LEMMA AppThreadKeepsResInv ==
  ASSUME ResInv, NEW a \in Apps, AppThread(a) PROVE ResInv'
<1> USE WorkerPairs DEF ResInv
<1>1. CASE Filter(a)
  <2>1. TypeOK'
    BY <1>1 DEF Filter, TypeOK, Cached
  <2>2. LockInv'
    BY <1>1 DEF Filter, TypeOK, LockInv, Cached
  <2>3. ValueInv'
    BY <1>1 DEF Filter, TypeOK, ValueInv, CacheUntouched, AppsAgree, Cached
  <2>4. \A b \in Apps : \A i \in Resources(b) :
          /\ b # a => task'[<<b, i>>] = task[<<b, i>>] /\ recorded'[<<b, i>>] = recorded[<<b, i>>]
          /\ b = a /\ Cached(a, i) => recorded'[<<b, i>>] = resource_cache[Url(a, i)]
          /\ b = a /\ ~Cached(a, i) => task'[<<b, i>>] = "queued"
    BY <1>1 DEF Filter, TypeOK
  <2>5. \A b \in Apps : pc'[b] = IF b # a THEN pc[b]
                               ELSE IF \A i \in Resources(a) : Cached(a, i) THEN "done" ELSE "wait"
    BY <1>1 DEF Filter, TypeOK
  <2>6. merged' = merged /\ pc[a] = "filter"
    BY <1>1 DEF Filter
  <2>7. merged[a] = {}
    BY <2>6 DEF RecordInv
  <2>8. RecordInv'
    BY <2>4, <2>5, <2>6, <2>7 DEF RecordInv, NothingMissing, Cached
  <2> QED
    BY <2>1, <2>2, <2>3, <2>8
<1>2. CASE BeginMerge(a)
  BY <1>2 DEF BeginMerge, TypeOK, LockInv, ValueInv, RecordInv, CacheUntouched, AppsAgree, NothingMissing
<1>3. CASE Merge(a)
  <2> PICK i \in ToMerge(a) :
        LET w == <<a, i>>  u == Url(a, i) IN
        /\ pc[a] = "merge" /\ task[w] = "done"
        /\ merged' = [merged EXCEPT ![a] = @ \cup {i}]
        /\ recorded' = [recorded EXCEPT ![w] = IF disable_caching \/ resource_cache[u] = Absent
                                               THEN result[w] ELSE resource_cache[u]]
        /\ resource_cache' = IF disable_caching \/ resource_cache[u] # Absent THEN resource_cache
                             ELSE [resource_cache EXCEPT ![u] = result[w]]
        /\ UNCHANGED <<disable_caching, resource_lock, url_lock, latest, pc, task, result, fetched>>
    BY <1>3 DEF Merge
  <2> i \in Resources(a)
    BY DEF ToMerge
  <2>0. <<a, i>> \in Workers /\ Url(a, i) \in Urls /\ result[<<a, i>>] # Absent /\ result[<<a, i>>] \in Nat
    BY DEF ValueInv, TypeOK
  <2>1. TypeOK'
    BY <2>0 DEF TypeOK
  <2>2. LockInv'
    BY DEF LockInv
  <2>3. ValueInv'
    BY <2>0 DEF TypeOK, ValueInv, CacheUntouched, AppsAgree
  <2>4. RecordInv'
    BY <2>0 DEF TypeOK, RecordInv, NothingMissing
  <2> QED
    BY <2>1, <2>2, <2>3, <2>4
<1>4. CASE MergeFails(a)
  BY <1>4 DEF MergeFails, TypeOK, LockInv, ValueInv, RecordInv, CacheUntouched, AppsAgree, NothingMissing
<1>5. CASE EndMerge(a)
  BY <1>5 DEF EndMerge, ToMerge, TypeOK, LockInv, ValueInv, RecordInv, CacheUntouched, AppsAgree, NothingMissing
<1> QED
  BY <1>1, <1>2, <1>3, <1>4, <1>5 DEF AppThread

\* A worker moves on, gives its URL lock back or keeps it, and may learn a tag.
LEMMA WorkerMoves ==
  ASSUME ResInv, NEW a \in Apps, NEW i \in Resources(a), NEW to \in Ended \cup {"queued", "started"} \cup Holding,
         task[<<a, i>>] # "none", to # "none",
         task' = [task EXCEPT ![<<a, i>>] = to],
         to \in Holding => /\ \/ url_lock' = url_lock /\ task[<<a, i>>] \in Holding
                              \/ /\ url_lock[Url(a, i)] = {}
                                 /\ url_lock' = [url_lock EXCEPT ![Url(a, i)] = @ \cup {<<a, i>>}],
         to \notin Holding => url_lock' = url_lock \/ url_lock' = [url_lock EXCEPT ![Url(a, i)] = @ \ {<<a, i>>}],
         to \in {"stream", "done"} => result'[<<a, i>>] # Absent,
         result' = result \/ \E t \in Tags : result' = [result EXCEPT ![<<a, i>>] = t],
         fetched' \in SUBSET Workers,
         UNCHANGED <<disable_caching, resource_cache, resource_lock, latest, pc, merged, recorded>>
  PROVE  ResInv'
<1> USE WorkerPairs DEF ResInv
<1> DEFINE w == <<a, i>>  u == Url(a, i)
<1>0. w \in Workers /\ u \in Urls
  OBVIOUS
<1>1. /\ \A v \in Workers : task'[v] = IF v = w THEN to ELSE task[v]
      /\ \A x \in Urls : /\ url_lock'[x] \subseteq url_lock[x] \cup {w}
                         /\ x # u => url_lock'[x] = url_lock[x]
                         /\ url_lock[x] \ {w} \subseteq url_lock'[x]
      /\ to \in Holding => w \in url_lock'[u] /\ \A v \in url_lock'[u] : v = w
  BY <1>0 DEF TypeOK, LockInv
<1>2. TypeOK'
  <2>1. url_lock' \in [Urls -> SUBSET Workers]
    BY <1>0 DEF TypeOK
  <2>2. \A x \in Urls : \A v \in url_lock'[x] : Url(v[1], v[2]) = x
    BY <1>0, <1>1 DEF TypeOK
  <2>3. result' \in [Workers -> Nat]
    BY <1>0 DEF TypeOK
  <2>4. task' \in [Workers -> Ended \cup {"queued", "started", "check", "fetch", "stream"}]
    BY <1>0 DEF TypeOK
  <2> QED
    BY <2>1, <2>2, <2>3, <2>4 DEF TypeOK
<1>3. LockInv'
  <2>1. ASSUME NEW v \in Workers, task'[v] \in Holding PROVE v \in url_lock'[Url(v[1], v[2])]
    BY <1>0, <1>1, <2>1 DEF LockInv
  <2>2. ASSUME NEW x \in Urls, NEW v \in url_lock'[x], NEW z \in url_lock'[x] PROVE v = z
    <3>1. CASE to \in Holding /\ x = u
      BY <1>1, <3>1
    <3>2. CASE x # u
      BY <1>1, <3>2 DEF LockInv
    <3>3. CASE to \notin Holding
      BY <3>3, <1>0 DEF LockInv, TypeOK
    <3> QED
      BY <3>1, <3>2, <3>3
  <2> QED
    BY <2>1, <2>2 DEF LockInv
<1>4. ValueInv'
  <2>1. \A v \in Workers : v # w => result'[v] = result[v]
    BY <1>0 DEF TypeOK
  <2>2. \A v \in Workers : task'[v] \in {"stream", "done"} => result'[v] # Absent
    BY <1>0, <1>1, <2>1 DEF ValueInv
  <2>3. CacheUntouched' /\ AppsAgree'
    BY DEF ValueInv, CacheUntouched, AppsAgree
  <2> QED
    BY <2>2, <2>3 DEF ValueInv
<1>5. RecordInv'
  BY <1>0, <1>1 DEF RecordInv, NothingMissing
<1> QED
  BY <1>2, <1>3, <1>4, <1>5

\* What a worker of an app's pool does.
LEMMA PoolWorkerKeepsResInv ==
  ASSUME ResInv, NEW a \in Apps, NEW i \in Resources(a), PoolWorker(a, i) PROVE ResInv'
<1> DEFINE w == <<a, i>>  u == Url(a, i)
<1>0. /\ w \in Workers /\ u \in Urls /\ fetched \in SUBSET Workers
      /\ latest[u] \in Tags /\ latest[u] # Absent /\ resource_cache[u] \in Nat
      /\ result \in [Workers -> Nat] /\ task \in [Workers -> Ended \cup {"queued", "started"} \cup Holding]
  BY WorkerPairs DEF ResInv, TypeOK
<1>1. CASE Start(a, i)
  BY <1>0, <1>1, WorkerMoves DEF Start
<1>2. CASE AcquireUrl(a, i)
  BY <1>0, <1>2, WorkerMoves DEF AcquireUrl, UrlLockFree
<1>3. CASE CheckCache(a, i) /\ Cached(a, i)
  BY <1>0, <1>3, WorkerMoves DEF CheckCache, Resolve, Cached
<1>4. CASE CheckCache(a, i) /\ ~Cached(a, i)
  BY <1>0, <1>4, WorkerMoves DEF CheckCache
<1>5. CASE ResolveRelease(a, i)
  <2>1. fetched' \in SUBSET Workers /\ result' = [result EXCEPT ![w] = latest[u]] /\ result'[w] # Absent
    BY <1>0, <1>5 DEF ResolveRelease
  <2> QED
    BY <1>0, <1>5, <2>1, WorkerMoves DEF ResolveRelease
<1>6. CASE FinishDownload(a, i)
  <2>1. task[w] = "stream" => result[w] # Absent
    BY <1>0 DEF ResInv, ValueInv
  <2>2. CASE task[w] = "stream" /\ Resolve(a, i, "done")
    BY <1>0, <1>6, <2>1, <2>2, WorkerMoves DEF FinishDownload, Resolve
  <2>3. ASSUME NEW e \in {"builderError", "otherError"}, Resolve(a, i, e) PROVE ResInv'
    BY <1>0, <1>6, <2>3, WorkerMoves DEF FinishDownload, Resolve
  <2> QED
    BY <1>6, <2>2, <2>3 DEF FinishDownload
<1> QED
  BY <1>1, <1>2, <1>3, <1>4, <1>5, <1>6 DEF PoolWorker

LEMMA StepKeepsResInv == ResInv /\ [Next]_vars => ResInv'
<1> SUFFICES ASSUME ResInv, [Next]_vars PROVE ResInv'
  OBVIOUS
<1>1. ASSUME NEW a \in Apps, AppThread(a) PROVE ResInv'
  BY <1>1, AppThreadKeepsResInv
<1>2. ASSUME NEW a \in Apps, NEW i \in Resources(a), PoolWorker(a, i) PROVE ResInv'
  BY <1>2, PoolWorkerKeepsResInv
<1>3. ASSUME NEW u \in Urls, PublishRelease(u) PROVE ResInv'
  BY <1>3 DEF PublishRelease, ResInv, TypeOK, LockInv, ValueInv, RecordInv, CacheUntouched, AppsAgree, NothingMissing
<1>4. CASE UNCHANGED vars
  BY <1>4 DEF vars, ResInv, TypeOK, LockInv, ValueInv, RecordInv, CacheUntouched, AppsAgree, NothingMissing
<1> QED
  BY <1>1, <1>2, <1>3, <1>4 DEF Next, AllFinished

\* The inductive invariant holds in every reachable state.
THEOREM ResourcesInvariant == Spec => []ResInv
<1> QED
  BY ResInit, StepKeepsResInv, PTL DEF Spec

\* With caching on, every app patches with the release the cache holds for a URL,
\* for any number of apps, resources and releases published meanwhile.
THEOREM AppsAlwaysAgree == Spec => []AppsAgree
<1>1. ResInv => AppsAgree
  BY DEF ResInv, ValueInv
<1> QED
  BY <1>1, ResourcesInvariant, PTL

\* With caching off the shared cache is never written.
THEOREM CacheNeverTouched == Spec => []CacheUntouched
<1>1. ResInv => CacheUntouched
  BY DEF ResInv, ValueInv
<1> QED
  BY <1>1, ResourcesInvariant, PTL

\* No app goes on to patching without one of its resources.
THEOREM NothingEverMissing == Spec => []NothingMissing
<1>1. ResInv => NothingMissing
  BY DEF ResInv, RecordInv
<1> QED
  BY <1>1, ResourcesInvariant, PTL

\* A URL is downloaded by one worker at a time.
THEOREM OneFetchPerUrl == Spec => []OneFetchAtATime
<1>1. ResInv => OneFetchAtATime
  BY WorkerPairs DEF ResInv, LockInv, OneFetchAtATime
<1> QED
  BY <1>1, ResourcesInvariant, PTL

\* A cached release stays what it is for the rest of the run.
THEOREM CacheNeverReplaced == Spec => CacheIsStable
<1>1. ResInv /\ [Next]_vars =>
        [\A u \in Urls : resource_cache[u] # Absent => resource_cache'[u] = resource_cache[u]]_resource_cache
  <2> SUFFICES ASSUME ResInv, [Next]_vars, resource_cache' # resource_cache, NEW u \in Urls,
                      resource_cache[u] # Absent
               PROVE  resource_cache'[u] = resource_cache[u]
    OBVIOUS
  <2>1. PICK a \in Apps : Merge(a)
    BY DEF Next, vars, AllFinished, AppThread, PoolWorker, Filter, BeginMerge, MergeFails, EndMerge, Start,
           AcquireUrl, CheckCache, ResolveRelease, FinishDownload, PublishRelease
  <2> QED
    BY <2>1, WorkerPairs DEF Merge, ToMerge, ResInv, TypeOK
<1> QED
  BY <1>1, ResourcesInvariant, PTL DEF Spec, CacheIsStable
==============================================================================
