-------------------------- MODULE ApkDownloadProofs --------------------------
(***************************************************************************)
(* The APK cache keeps what it holds, apps with the same selector patch    *)
(* the same APK, and the version an app records, the release its fall-back *)
(* ends at and, with caching disabled, the transfer are its own, for every *)
(* number of apps and releases.                                            *)
(*                                                                         *)
(* CacheInv adds what the double-checked cache relies on: an app that      *)
(* shares the cache downloads only inside the with-block and only while    *)
(* its entry is missing, the file it is about to publish is a real one,    *)
(* and an app that is done has what its entry says.  FilesInv adds who     *)
(* writes which file, and what a file holds from its transfer on: nobody   *)
(* else writes the files of an app that is under way or done, nor, once    *)
(* its entry is there, those of the package that apkeep downloads.         *)
(***************************************************************************)
EXTENDS ApkDownload, TLAPS

Downloading == {"resolve", "fetch", "write", "apkeep", "zip", "convert", "publish"}

\* An app that shares the cache and downloads is inside, with the entry missing.
InsideInv ==
  \A a \in Apps : Shares(a) /\ pc[a] \in Downloading => download_lock = a /\ ~Cached(a)

\* What is published is a file, and not the mark of a missing entry.
FileInv == \A a \in Apps : pc[a] \in Downloading \ {"resolve", "apkeep"} => file[a] # NoFile

\* An app that is done has the file and the version its entry promises.
DoneInv ==
  \A a \in Apps : Shares(a) /\ pc[a] = "done" =>
    download_cache[settings[a].version] = [file |-> file[a], version |-> resolved[a]] /\ Cached(a)

WayInv ==
  /\ \A a \in Apps : pc[a] = "manifest" => Way(a) = "direct"
  /\ \A a \in Apps : pc[a] = "lock" => Shares(a)

CacheInv == TypeOK /\ InsideInv /\ FileInv /\ DoneInv /\ WayInv

\* Who owns the files an app writes, and who asks apkeep for the package.
OwnerOf(a)       == IF source = "apkeep" /\ Way(a) # "direct" THEN Package ELSE a
ForPackage(a)    == Way(a) = "selector" /\ settings[a].version = Latest
NewestCandidates == {r \in Candidates : \A c \in Candidates \cap sure : c <= r}

\* Where an app can be, by the way it goes.
PlaceOf(a) ==
  /\ pc[a] \in {"resolve", "apkeep", "zip", "convert", "publish"} => Way(a) # "direct"
  /\ pc[a] \in {"fetch", "write"} => source # "apkeep" \/ Way(a) = "direct"
  /\ pc[a] \in {"apkeep", "zip"} => source = "apkeep"
  /\ pc[a] \in {"fetch", "write", "apkeep", "zip", "convert"} => Way(a) = "direct" \/ ~settings[a].existing
  /\ source = "apkeep" /\ ~settings[a].existing /\ pc[a] \in {"apkeep", "zip", "convert", "publish"} => ForPackage(a)
  /\ source = "apkeep" /\ ~settings[a].existing /\ pc[a] = "done" => Way(a) # "fallback"

\* Which file it is working on.
NameOf(a) ==
  /\ pc[a] \in {"fetch", "write", "manifest", "zip", "convert"} => file[a][1] = OwnerOf(a)
  /\ pc[a] = "publish" => IF settings[a].existing THEN file[a] = <<a, "local">> ELSE file[a][1] = OwnerOf(a)
  /\ source = "apkeep" /\ pc[a] \in {"apkeep", "zip", "convert"} => resolved[a] = Latest
  /\ source = "apkeep" /\ pc[a] \in {"zip", "convert"} => file[a][2] \in {"apk", "zip"}

\* Which release it was sent to: a fall-back has tried only what may be missed.
PageOf(a) ==
  /\ tried[a] \cap sure = {}
  /\ source # "apkeep" /\ Way(a) # "direct" /\ pc[a] \in {"fetch", "write", "convert"} =>
       /\ resolved[a] \in {Latest, page[a]} /\ Wanted(a) \subseteq {Latest, page[a]}
       /\ Way(a) = "fallback" => page[a] \in NewestCandidates

\* Without the cache nothing is taken that was not transferred.
FreshOf(a) ==
  disable_caching /\ source # "apkeep" /\ pc[a] \in {"convert", "manifest", "publish", "done"} /\ ~settings[a].existing =>
    a \in fetched

StepInv == \A a \in Apps : PlaceOf(a) /\ NameOf(a) /\ PageOf(a) /\ FreshOf(a)

\* A file nobody writes any more, and one that is of the release v.
Settled(f) ==
  \/ f[1] \in Apps /\ pc[f[1]] = "done"
  \/ f[1] = Package /\ source = "apkeep" /\ download_cache[Latest] # NoEntry
Named(f, v) == v = Latest \/ f[2] = "local" \/ disk[f] = [release |-> v, whole |-> TRUE]

Fallen(a) == Way(a) = "fallback" /\ ~settings[a].existing => disk[file[a]].release \in NewestCandidates

\* What the file of an app holds.
HeldOf(a) ==
  /\ pc[a] \in {"convert", "manifest"} /\ (source # "apkeep" \/ Way(a) = "direct") =>
       disk[file[a]] = [release |-> page[a], whole |-> TRUE]
  /\ source = "apkeep" /\ pc[a] = "convert" /\ file[a][2] = "apk" => disk[file[a]].whole
  /\ pc[a] = "publish" => Named(file[a], resolved[a]) /\ Fallen(a)
  /\ pc[a] = "done" =>
       /\ Settled(file[a]) /\ Fallen(a)
       /\ Named(file[a], resolved[a]) \/ (Way(a) = "direct" /\ settings[a].version # Latest)

\* What an entry of the cache promises.
EntryOf(v) == download_cache[v] # NoEntry =>
  Settled(download_cache[v].file) /\ Named(download_cache[v].file, download_cache[v].version)

PackageOf == disk[<<Package, "apk">>] # Absent => disk[<<Package, "apk">>].whole

\* apkeep's files have one name per package, so they need the cache's lock.
Separate == ~(source = "apkeep" /\ disable_caching)
HeldInv  ==
  LengthsSent /\ Separate =>
    PackageOf /\ (\A a \in Apps : HeldOf(a)) /\ (\A v \in Selectors : EntryOf(v))

FilesInv == CacheInv /\ StepInv /\ HeldInv

------------------------------------------------------------------------------
(* The sets of values.                                                       *)

LEMMA Versions == Latest \in Selectors /\ Releases \subseteq Selectors /\ 1 \in Releases
BY DownloadAssumption DEF Latest, Selectors, Releases

LEMMA DiskType ==
  /\ Absent \in Disk
  /\ \A v \in Selectors, w \in BOOLEAN : [release |-> v, whole |-> w] \in Disk
  /\ \A d \in Disk : d.release \in Selectors /\ [d EXCEPT !.whole = TRUE] \in Disk
BY Versions DEF Disk, Absent, Latest

LEMMA FileNames ==
  /\ \A a \in Apps, e \in Exts : <<a, e>> \in Files /\ <<a, e>> # NoFile
  /\ \A e \in {"apk", "zip"} : <<Package, e>> \in Files /\ <<Package, e>> # NoFile
  /\ \A f \in Files : <<f[1], "apk">> \in Files /\ <<f[1], "apk">> # NoFile
  /\ NoFile \in Files
BY DownloadAssumption DEF Files, Owners, Exts, NoFile, Package

LEMMA EntryType ==
  /\ NoEntry \in Entries
  /\ \A f \in Files, v \in Selectors : [file |-> f, version |-> v] \in Entries
  /\ \A f \in Files \ {NoFile}, v \in Selectors : [file |-> f, version |-> v] # NoEntry
  /\ \A e \in Entries : e.file \in Files /\ e.version \in Selectors
  /\ \A e \in Entries : e = [file |-> e.file, version |-> e.version]
BY FileNames, Versions DEF Entries, NoEntry

LEMMA SettingsType ==
  ASSUME TypeOK, NEW a \in Apps PROVE settings[a].version \in Selectors /\ Way(a) \in {"direct", "fallback", "selector"}
<1>1. settings[a] \in SettingsOf
  BY DownloadAssumption DEF TypeOK
<1> QED
  BY <1>1 DEF SettingsOf, Way

LEMMA WantedType == ASSUME TypeOK, NEW a \in Apps PROVE Wanted(a) \subseteq Selectors
BY SettingsType, DownloadAssumption, Versions DEF Wanted, Largest

------------------------------------------------------------------------------
(* Type correctness.                                                         *)

LEMMA CacheInit == Init => CacheInv
<1> SUFFICES ASSUME Init PROVE CacheInv
  OBVIOUS
<1>1. TypeOK
  <2>1. disk \in [Files -> Disk]
    <3>1. PICK left \in {Absent, [release |-> 1, whole |-> TRUE]} :
            disk = [f \in Files |-> IF f[1] \in Apps /\ f[2] = "apk" THEN left ELSE Absent]
      BY DEF Init
    <3> QED
      BY <3>1, DiskType, Versions
  <2>2. download_cache \in [Selectors -> Entries]
    BY EntryType DEF Init
  <2> QED
    BY <2>1, <2>2, Versions, FileNames, DownloadAssumption DEF Init, Asked, TypeOK, Way, Places
<1>2. InsideInv /\ FileInv /\ DoneInv /\ WayInv
  BY DEF Init, InsideInv, FileInv, DoneInv, WayInv, Downloading
<1> QED
  BY <1>1, <1>2 DEF CacheInv

\* What a step of app a may do to the variables that have a value per app, a file
\* or a selector, the set of tried candidates aside.
Moves(a) ==
  /\ UNCHANGED config /\ newest' = newest
  /\ pc' = pc \/ \E l \in Places : pc' = [pc EXCEPT ![a] = l]
  /\ file' = file \/ \E f \in Files : file' = [file EXCEPT ![a] = f]
  /\ resolved' = resolved \/ \E v \in Selectors : resolved' = [resolved EXCEPT ![a] = v]
  /\ page' = page \/ \E v \in Selectors : page' = [page EXCEPT ![a] = v]
  /\ disk' = disk \/ \E f \in Files, d \in Disk : disk' = [disk EXCEPT ![f] = d]
  /\ \/ download_cache' = download_cache
     \/ \E v \in Selectors, e \in Entries : download_cache' = [download_cache EXCEPT ![v] = e]
  /\ download_lock' \in {download_lock, a, "free"}
  /\ fetched' \subseteq fetched \cup {a}

LEMMA MovesType == ASSUME TypeOK, NEW a \in Apps, Moves(a), tried' = tried,
                          pc'[a] \in {"begin", "resolve"} => pc[a] \in {"begin", "resolve"} \/ Way(a) # "fallback"
                   PROVE  TypeOK'
<1> USE DEF TypeOK, Moves, config
<1>1. pc' \in [Apps -> Places] /\ file' \in [Apps -> Files]
  OBVIOUS
<1>2. resolved' \in [Apps -> Selectors] /\ page' \in [Apps -> Selectors]
  OBVIOUS
<1>3. disk' \in [Files -> Disk]
  OBVIOUS
<1>4. download_cache' \in [Selectors -> Entries]
  OBVIOUS
<1>5. download_lock' \in Apps \cup {"free"} /\ fetched' \in SUBSET Apps
  OBVIOUS
<1>6. settings' \in Settings /\ disable_caching' \in BOOLEAN /\ source' \in Sources /\ available' \in SUBSET Releases /\ sure' \in SUBSET available'
  OBVIOUS
<1>7. \A b \in Apps : (pc[b] \in {"begin", "resolve"} /\ Way(b) = "fallback" => tried[b] # Candidates)'
  <2> SUFFICES ASSUME NEW b \in Apps PROVE (pc[b] \in {"begin", "resolve"} /\ Way(b) = "fallback" => tried[b] # Candidates)'
    OBVIOUS
  <2>1. CASE b = a
    BY <2>1 DEF Way
  <2>2. CASE b # a
    <3>1. pc'[b] = pc[b]
      BY <2>2
    <3> QED
      BY <3>1 DEF Way
  <2> QED
    BY <2>1, <2>2
<1> QED
  BY <1>1, <1>2, <1>3, <1>4, <1>5, <1>6, <1>7

\* Every action but the step down.
LEMMA AppMoves ==
  ASSUME TypeOK, WayInv, NEW a \in Apps, AppStep(a), ~StepDown(a)
  PROVE  /\ Moves(a) /\ tried' = tried
         /\ pc'[a] \in {"begin", "resolve"} => pc[a] \in {"begin", "resolve"} \/ Way(a) # "fallback"
<1> USE DEF config, Held, Goto, Fail, Unlock, Moves, Places
<1>0. settings[a].version \in Selectors /\ Wanted(a) \subseteq Selectors
  BY SettingsType, WantedType
<1>1. pc \in [Apps -> Places] /\ file \in [Apps -> Files] /\ download_cache \in [Selectors -> Entries] /\ disk \in [Files -> Disk]
  BY DEF TypeOK
<1>2. CASE Begin(a)
  BY <1>0, <1>1, <1>2, FileNames, EntryType, Versions DEF Begin, Reuse, Shares, Exts
<1>3. CASE Acquire(a)
  BY <1>0, <1>1, <1>3, EntryType DEF Acquire, Reuse, WayInv, Shares
<1>4. CASE Publish(a)
  BY <1>0, <1>1, <1>4, EntryType DEF Publish, TypeOK
<1>5. CASE UseExisting(a)
  BY <1>0, <1>1, <1>5, FileNames DEF UseExisting, Exts
<1>6. CASE Resolve(a)
  BY <1>0, <1>1, <1>6, FileNames, Versions DEF Resolve, ExtsFor, Exts, TypeOK
<1>7. CASE Break(a)
  BY <1>1, <1>7 DEF Break
<1>8. CASE ApkeepRun(a)
  BY <1>1, <1>8, FileNames, Versions DEF ApkeepRun
<1>9. CASE Fetch(a)
  BY <1>1, <1>9 DEF Fetch, AfterTransfer
<1>10. CASE Write(a)
  BY <1>1, <1>10, DiskType DEF Write, AfterTransfer, TypeOK
<1>11. CASE ApkeepEnds(a)
  <2>1. disk' = disk \/ \E f \in Files, d \in Disk : disk' = [disk EXCEPT ![f] = d]
    <3>1. newest \in Selectors /\ file[a] \in Files /\ disk[file[a]] \in Disk
      BY <1>1, Versions DEF TypeOK
    <3>2. \A e \in {"apk", "zip"} : (e = "apk") \in BOOLEAN
      OBVIOUS
    <3>3. CASE \E e \in {"apk", "zip"} :
                 disk' = [disk EXCEPT ![<<Package, e>>] = [release |-> newest, whole |-> e = "apk"]]
      BY <3>1, <3>2, <3>3, DiskType, FileNames
    <3>4. CASE disk' = [disk EXCEPT ![file[a]] = [@ EXCEPT !.whole = TRUE]]
      BY <1>1, <3>1, <3>4, DiskType
    <3> QED
      BY <1>11, <3>3, <3>4 DEF ApkeepEnds
  <2> QED
    BY <1>1, <1>11, <2>1, FileNames DEF ApkeepEnds
<1>12. CASE Convert(a)
  <2>1. Output(a) \in Files /\ disk[file[a]] \in Disk
    BY <1>1, FileNames DEF Output
  <2>2. disk' = disk \/ \E f \in Files, d \in Disk : disk' = [disk EXCEPT ![f] = d]
    BY <1>12, <2>1, DiskType DEF Convert
  <2>3. disk' \in [Files -> Disk]
    BY <1>1, <2>2
  <2>4. resolved' = resolved \/ \E v \in Selectors : resolved' = [resolved EXCEPT ![a] = v]
    <3>1. CASE Name(a, Output(a))
      BY <1>0, <2>1, <2>3, <3>1, DiskType DEF Name, TypeOK
    <3>2. CASE resolved' = resolved
      BY <3>2
    <3> QED
      BY <1>12, <3>1, <3>2 DEF Convert
  <2>5. pc'[a] \notin {"begin", "resolve"}
    BY <1>1, <1>12 DEF Convert
  <2> QED
    BY <1>12, <2>1, <2>2, <2>4, <2>5 DEF Convert
<1>13. CASE Manifest(a)
  BY <1>0, <1>1, <1>13, DiskType, Versions DEF Manifest
<1> QED
  BY <1>2, <1>3, <1>4, <1>5, <1>6, <1>7, <1>8, <1>9, <1>10, <1>11, <1>12, <1>13 DEF AppStep

\* The step down takes a candidate, and stays only while one is left.
LEMMA StepDownType == ASSUME TypeOK, NEW a \in Apps, StepDown(a) PROVE TypeOK'
<1> USE DEF StepDown, TypeOK, config, Held, Goto, Fail, Unlock
<1>1. PICK v \in Wanted(a) \ (sure \cup {Latest}) : tried' = [tried EXCEPT ![a] = @ \cup {v}]
  OBVIOUS
<1>2. \/ pc' = [pc EXCEPT ![a] = "resolve"] /\ download_lock' = download_lock /\ Candidates # tried'[a] /\ Way(a) = "fallback"
      \/ pc' = [pc EXCEPT ![a] = "failed"] /\ download_lock' \in {download_lock, "free"}
  OBVIOUS
<1>3. pc' \in [Apps -> Places] /\ tried' \in [Apps -> SUBSET Releases] /\ resolved' \in [Apps -> Selectors]
  BY <1>1, <1>2, WantedType, Versions DEF Places, Selectors
<1>4. ASSUME NEW b \in Apps, pc'[b] \in {"begin", "resolve"}, (Way(b) = "fallback")' PROVE tried'[b] # Candidates
  BY <1>1, <1>2, <1>4 DEF Way
<1> QED
  BY <1>2, <1>3, <1>4

LEMMA TypeStep == ASSUME TypeOK, WayInv, [Next]_vars PROVE TypeOK'
<1>1. ASSUME NEW a \in Apps, AppStep(a), ~StepDown(a) PROVE TypeOK'
  BY <1>1, AppMoves, MovesType
<1>2. ASSUME NEW a \in Apps, StepDown(a) PROVE TypeOK'
  BY <1>2, StepDownType
<1>3. CASE Release
  BY <1>3, DownloadAssumption DEF Release, TypeOK, config, Way, Releases
<1>4. CASE UNCHANGED vars
  BY <1>4 DEF TypeOK, vars, Way
<1> QED
  BY <1>1, <1>2, <1>3, <1>4 DEF Next, Ended
------------------------------------------------------------------------------
(* The cache.                                                                *)

\* What a step of app a means to the cache and the lock.
CacheEffect(a) ==
  \/ download_cache' = download_cache /\ (pc[a] = "publish" /\ Shares(a) => pc'[a] # "done")
  \/ /\ pc[a] = "publish" /\ Shares(a) /\ pc'[a] = "done" /\ file' = file /\ resolved' = resolved
     /\ download_cache' = [download_cache EXCEPT ![settings[a].version] = [file |-> file[a], version |-> resolved[a]]]

LockEffect(a) ==
  \/ download_lock' = download_lock
  \/ download_lock = a /\ download_lock' = "free" /\ pc'[a] \in {"done", "failed"}
  \/ download_lock = "free" /\ download_lock' = a

\* How an app gets to download, and how it ends.
ProgressEffect(a) ==
  /\ pc'[a] \in Downloading =>
       \/ ~Shares(a)
       \/ /\ download_cache' = download_cache
          /\ (pc[a] \in Downloading /\ download_lock' = download_lock) \/ (download_lock' = a /\ ~Cached(a))
  /\ pc'[a] = "done" =>
       \/ pc[a] \in {"publish", "done"} /\ file'[a] = file[a] /\ resolved'[a] = resolved[a]
       \/ pc[a] = "manifest"
       \/ /\ Cached(a) /\ download_cache' = download_cache
          /\ file'[a] = download_cache[settings[a].version].file
          /\ resolved'[a] = download_cache[settings[a].version].version
  /\ pc'[a] \in Downloading \ {"resolve", "apkeep"} =>
       \/ file'[a] # NoFile
       \/ pc[a] \in Downloading \ {"resolve", "apkeep"} /\ file'[a] = file[a]
  /\ (pc'[a] = "manifest" => Way(a) = "direct") /\ (pc'[a] = "lock" => Shares(a))

LEMMA AppEffect ==
  ASSUME TypeOK, WayInv, NEW a \in Apps, AppStep(a)
  PROVE  CacheEffect(a) /\ LockEffect(a) /\ ProgressEffect(a)
<1> USE DEF CacheEffect, LockEffect, ProgressEffect, Downloading, config, Held, Goto, Fail, Unlock
<1>0. pc \in [Apps -> Places] /\ file \in [Apps -> Files] /\ resolved \in [Apps -> Selectors]
  BY DEF TypeOK
<1>1. CASE Begin(a)
  BY <1>0, <1>1, FileNames DEF Reuse, Shares, Begin, WayInv
<1>2. CASE Acquire(a)
  BY <1>0, <1>2, FileNames DEF Reuse, Acquire, WayInv
<1>3. CASE Publish(a)
  BY <1>0, <1>3, FileNames DEF Publish, WayInv
<1>4. CASE UseExisting(a)
  BY <1>0, <1>4, FileNames DEF Exts, UseExisting, WayInv
<1>5. CASE Resolve(a)
  <2>1. \A e \in ExtsFor(a) : <<a, e>> # NoFile
    BY FileNames DEF ExtsFor, Exts
  <2>2. \E e \in ExtsFor(a) : file' = [file EXCEPT ![a] = <<a, e>>]
    BY <1>5 DEF Resolve
  <2>3. file'[a] # NoFile
    BY <1>0, <2>1, <2>2
  <2>4. pc' = [pc EXCEPT ![a] = "fetch"] /\ pc[a] = "resolve" /\ UNCHANGED <<download_cache, download_lock>>
    BY <1>5 DEF Resolve
  <2> QED
    BY <1>0, <2>3, <2>4
<1>6. CASE StepDown(a)
  BY <1>0, <1>6, FileNames DEF StepDown, WayInv
<1>7. CASE Break(a)
  BY <1>0, <1>7, FileNames DEF Break, WayInv
<1>8. CASE Fetch(a)
  BY <1>0, <1>8, FileNames DEF AfterTransfer, Fetch, WayInv
<1>9. CASE Write(a)
  BY <1>0, <1>9, FileNames DEF AfterTransfer, Write, WayInv
<1>10. CASE ApkeepRun(a)
  BY <1>0, <1>10, FileNames DEF ApkeepRun, WayInv
<1>11. CASE ApkeepEnds(a)
  BY <1>0, <1>11, FileNames DEF ApkeepEnds, WayInv
<1>12. CASE Convert(a)
  <2>1. file[a] \in Files /\ Output(a) \in Files /\ (Output(a) = file[a] \/ Output(a) # NoFile)
    BY <1>0, FileNames DEF Output
  <2>2. CASE Goto(a, "publish") /\ file' = [file EXCEPT ![a] = Output(a)] /\ UNCHANGED download_lock
    BY <1>0, <1>12, <2>1, <2>2 DEF Convert
  <2>3. CASE Fail(a)
    BY <1>0, <1>12, <2>3 DEF Convert
  <2> QED
    BY <1>12, <2>2, <2>3 DEF Convert
<1>13. CASE Manifest(a)
  BY <1>0, <1>13, FileNames DEF Manifest, WayInv
<1> QED
  BY <1>1, <1>2, <1>3, <1>4, <1>5, <1>6, <1>7, <1>8, <1>9, <1>10, <1>11, <1>12, <1>13 DEF AppStep

\* The other apps keep their place, their page, their file and their version.
LEMMA OthersKeep ==
  ASSUME TypeOK, WayInv, NEW a \in Apps, AppStep(a)
  PROVE  /\ UNCHANGED config
         /\ \A b \in Apps \ {a} : /\ pc'[b] = pc[b] /\ file'[b] = file[b] /\ resolved'[b] = resolved[b]
                                 /\ page'[b] = page[b] /\ tried'[b] = tried[b]
<1>1. CASE StepDown(a)
  BY <1>1 DEF StepDown, TypeOK, config, Held, Goto, Fail
<1>2. CASE ~StepDown(a)
  <2>1. Moves(a) /\ tried' = tried
    BY <1>2, AppMoves
  <2> QED
    BY <2>1 DEF Moves, TypeOK
<1> QED
  BY <1>1, <1>2

\* The entry an app is about to publish is one.
LEMMA EntryIsReal ==
  ASSUME TypeOK, NEW a \in Apps, file[a] # NoFile
  PROVE  [file |-> file[a], version |-> resolved[a]] # NoEntry
BY EntryType DEF TypeOK

\* Only the app inside fills an entry, and only a missing one.
LEMMA CacheOnlyFilled ==
  ASSUME CacheInv, NEW a \in Apps, AppStep(a), NEW v \in Selectors, download_cache[v] # NoEntry
  PROVE  download_cache'[v] = download_cache[v]
<1>1. CacheEffect(a)
  BY AppEffect DEF CacheInv
<1>2. download_cache \in [Selectors -> Entries]
  BY DEF CacheInv, TypeOK
<1>3. ASSUME pc[a] = "publish", Shares(a) PROVE download_cache[settings[a].version] = NoEntry
  BY <1>3 DEF CacheInv, InsideInv, Downloading, Cached
<1> QED
  BY <1>1, <1>2, <1>3 DEF CacheEffect

LEMMA InsideStep == ASSUME CacheInv, NEW a \in Apps, AppStep(a) PROVE InsideInv'
<1> SUFFICES ASSUME NEW b \in Apps, Shares(b)', pc'[b] \in Downloading
             PROVE  download_lock' = b /\ ~Cached(b)'
  BY DEF InsideInv
<1> USE DEF CacheInv
<1>1. CacheEffect(a) /\ LockEffect(a) /\ ProgressEffect(a)
  BY AppEffect
<1>2. UNCHANGED config /\ Shares(b) /\ "free" \notin Apps /\ settings[b].version \in Selectors
  BY OthersKeep, SettingsType, DownloadAssumption DEF Shares, config, Way
<1>3. CASE b = a
  BY <1>1, <1>2, <1>3 DEF ProgressEffect, InsideInv, Cached, config
<1>4. CASE b # a
  <2>1. download_lock = b /\ ~Cached(b)
    BY <1>2, <1>4, OthersKeep DEF InsideInv
  <2>2. download_lock' = b
    BY <1>1, <1>2, <1>4, <2>1 DEF LockEffect
  <2>3. download_cache' = download_cache
    BY <1>1, <1>4, <2>1 DEF CacheEffect, InsideInv, Downloading
  <2> QED
    BY <1>2, <2>1, <2>2, <2>3 DEF Cached, config
<1> QED
  BY <1>3, <1>4

LEMMA DoneStep == ASSUME CacheInv, NEW a \in Apps, AppStep(a) PROVE DoneInv'
<1> SUFFICES ASSUME NEW b \in Apps, Shares(b)', pc'[b] = "done"
             PROVE  (download_cache[settings[b].version] = [file |-> file[b], version |-> resolved[b]] /\ Cached(b))'
  BY DEF DoneInv
<1> USE DEF CacheInv
<1>1. CacheEffect(a) /\ ProgressEffect(a)
  BY AppEffect
<1>2. UNCHANGED config /\ Shares(b) /\ settings[b].version \in Selectors
  BY OthersKeep, SettingsType DEF Shares, config, Way
<1>3. download_cache \in [Selectors -> Entries]
  BY DEF TypeOK
<1>4. CASE pc[b] = "done" /\ file'[b] = file[b] /\ resolved'[b] = resolved[b]
  BY <1>2, <1>4, CacheOnlyFilled DEF DoneInv, Cached, config
<1>5. CASE b # a
  BY <1>4, <1>5, OthersKeep
<1>6. CASE b = a
  <2>1. CASE pc[a] \in {"publish", "done"} /\ file'[a] = file[a] /\ resolved'[a] = resolved[a]
    <3>1. CASE pc[a] = "publish"
      <4>1. file[a] # NoFile
        BY <3>1 DEF FileInv, Downloading
      <4>2. [file |-> file[a], version |-> resolved[a]] # NoEntry
        BY <4>1, EntryIsReal
      <4> QED
        BY <1>1, <1>2, <1>3, <1>6, <2>1, <3>1, <4>2 DEF CacheEffect, Cached, config
    <3> QED
      BY <1>4, <1>6, <2>1, <3>1
  <2>2. CASE pc[a] = "manifest"
    <3>1. Way(a) = "direct"
      BY <2>2 DEF WayInv
    <3>2. Way(a) = "selector"
      BY <1>2, <1>6 DEF Shares
    <3> QED
      BY <3>1, <3>2
  <2>3. CASE /\ Cached(a) /\ download_cache' = download_cache
             /\ file'[a] = download_cache[settings[a].version].file
             /\ resolved'[a] = download_cache[settings[a].version].version
    <3>1. download_cache[settings[a].version] = [file |-> file'[a], version |-> resolved'[a]]
      BY <1>2, <1>3, <1>6, <2>3, EntryType
    <3>2. settings' = settings
      BY <1>2 DEF config
    <3>3. download_cache'[settings'[b].version] = [file |-> file'[b], version |-> resolved'[b]]
      BY <1>6, <2>3, <3>1, <3>2
    <3> QED
      BY <1>6, <2>3, <3>2, <3>3 DEF Cached
  <2> QED
    BY <1>1, <1>6, <2>1, <2>2, <2>3 DEF ProgressEffect
<1> QED
  BY <1>5, <1>6

LEMMA FileStep == ASSUME CacheInv, NEW a \in Apps, AppStep(a) PROVE FileInv' /\ WayInv'
<1> USE DEF CacheInv
<1>1. ProgressEffect(a)
  BY AppEffect
<1>2. UNCHANGED config /\ \A b \in Apps \ {a} : pc'[b] = pc[b] /\ file'[b] = file[b]
  BY OthersKeep
<1>3. FileInv'
  BY <1>1, <1>2 DEF ProgressEffect, FileInv
<1>4. WayInv'
  BY <1>1, <1>2 DEF ProgressEffect, WayInv, Way, Shares, config
<1> QED
  BY <1>3, <1>4

LEMMA CacheStep == ASSUME CacheInv, [Next]_vars PROVE CacheInv'
<1>1. TypeOK'
  BY TypeStep DEF CacheInv
<1>2. ASSUME NEW a \in Apps, AppStep(a) PROVE CacheInv'
  BY <1>1, <1>2, InsideStep, DoneStep, FileStep DEF CacheInv
<1>3. CASE Release \/ UNCHANGED vars
  <2>1. UNCHANGED <<config, download_cache, download_lock, pc, file, resolved>>
    BY <1>3 DEF Release, vars, config
  <2> QED
    BY <1>1, <2>1 DEF CacheInv, InsideInv, FileInv, DoneInv, WayInv, Shares, Cached, Way, config
<1> QED
  BY <1>2, <1>3 DEF Next, Ended

------------------------------------------------------------------------------
(* The files.                                                                *)

\* The whole APK of a release.
LEMMA WholeFile ==
  ASSUME NEW d \in Disk, d.whole  PROVE d = [release |-> d.release, whole |-> TRUE]
BY DEF Disk

LEMMA LargestIsOne == ASSUME NEW S \in SUBSET Releases, NEW r \in Largest(S), NEW q \in Largest(S) PROVE r = q
BY DownloadAssumption DEF Largest, Releases

LEMMA WantedOf ==
  ASSUME TypeOK, NEW a \in Apps
  PROVE  /\ Way(a) # "fallback" => Wanted(a) = {settings[a].version}
         /\ Way(a) = "fallback" => Latest \notin Wanted(a) /\ Wanted(a) = Largest(Candidates \ tried[a])
         /\ Wanted(a) = {Latest} /\ Way(a) # "direct" => ForPackage(a)
         /\ \A v, w \in Wanted(a) : v = w
<1>1. Candidates \ tried[a] \in SUBSET Releases
  BY DownloadAssumption
<1>2. Latest \notin Largest(Candidates \ tried[a])
  BY <1>1 DEF Largest, Releases, Latest
<1> QED
  BY <1>1, <1>2, LargestIsOne, SettingsType DEF Wanted, ForPackage

\* An app that has ended makes no step.
LEMMA NotEnded == ASSUME NEW a \in Apps, AppStep(a) PROVE pc[a] \notin {"done", "failed"}
BY DEF AppStep, Begin, Acquire, Publish, UseExisting, Resolve, StepDown, Break, Fetch, Write, ApkeepRun,
       ApkeepEnds, Convert, Manifest

LEMMA FilesInit == Init => FilesInv
<1> SUFFICES ASSUME Init PROVE FilesInv
  OBVIOUS
<1>1. CacheInv
  BY CacheInit
<1>2. StepInv
  BY DEF Init, StepInv, PlaceOf, NameOf, PageOf, FreshOf
<1>3. HeldInv
  <2>1. PackageOf
    <3>1. <<Package, "apk">> \in Files /\ <<Package, "apk">>[1] \notin Apps
      BY FileNames, DownloadAssumption
    <3> QED
      BY <3>1 DEF Init, PackageOf
  <2>2. ASSUME NEW a \in Apps PROVE HeldOf(a)
    BY DEF Init, HeldOf
  <2>3. ASSUME NEW v \in Selectors PROVE EntryOf(v)
    BY DEF Init, EntryOf
  <2> QED
    BY <2>1, <2>2, <2>3 DEF HeldInv
<1> QED
  BY <1>1, <1>2, <1>3 DEF FilesInv

LEMMA PlaceStep ==
  ASSUME CacheInv, NEW a \in Apps, AppStep(a), PlaceOf(a)
  PROVE  PlaceOf(a)'
<1> USE DEF PlaceOf, config, Held, Goto, Fail, Unlock, ForPackage, CacheInv
<1>0. /\ pc \in [Apps -> Places] /\ Way(a) \in {"direct", "fallback", "selector"}
      /\ Way(a)' = Way(a) /\ settings' = settings /\ source' = source /\ disable_caching' = disable_caching
  BY OthersKeep, SettingsType DEF TypeOK, Way
<1>1. CASE Begin(a)
  BY <1>0, <1>1 DEF Begin, Reuse, Shares
<1>2. CASE Acquire(a)
  BY <1>0, <1>2 DEF Acquire, Reuse, WayInv, Shares
<1>3. CASE Publish(a)
  BY <1>0, <1>3 DEF Publish
<1>4. CASE UseExisting(a)
  BY <1>0, <1>4 DEF UseExisting
<1>5. CASE Resolve(a)
  BY <1>0, <1>5 DEF Resolve
<1>6. CASE StepDown(a)
  BY <1>0, <1>6 DEF StepDown
<1>7. CASE Break(a)
  BY <1>0, <1>7 DEF Break
<1>8. CASE Fetch(a)
  BY <1>0, <1>8 DEF Fetch, AfterTransfer
<1>9. CASE Write(a)
  BY <1>0, <1>9 DEF Write, AfterTransfer
<1>10. CASE ApkeepRun(a)
  <2>1. Wanted(a) = {Latest} => Way(a) = "selector" /\ settings[a].version = Latest
    BY <1>10, WantedOf DEF ApkeepRun
  <2> QED
    BY <1>0, <1>10, <2>1 DEF ApkeepRun
<1>11. CASE ApkeepEnds(a)
  BY <1>0, <1>11 DEF ApkeepEnds
<1>12. CASE Convert(a)
  BY <1>0, <1>12 DEF Convert
<1>13. CASE Manifest(a)
  BY <1>0, <1>13 DEF Manifest, WayInv
<1> QED
  BY <1>1, <1>2, <1>3, <1>4, <1>5, <1>6, <1>7, <1>8, <1>9, <1>10, <1>11, <1>12, <1>13 DEF AppStep

LEMMA NameStep ==
  ASSUME CacheInv, NEW a \in Apps, AppStep(a), PlaceOf(a), NameOf(a)
  PROVE  NameOf(a)'
<1> USE DEF NameOf, config, Held, Goto, Fail, Unlock, OwnerOf, CacheInv
<1>0. /\ pc \in [Apps -> Places] /\ file \in [Apps -> Files] /\ resolved \in [Apps -> Selectors]
      /\ Way(a)' = Way(a) /\ settings' = settings /\ source' = source
  BY OthersKeep DEF TypeOK, Way
<1>1. CASE Begin(a)
  BY <1>0, <1>1 DEF Begin, Reuse, Shares
<1>2. CASE Acquire(a)
  BY <1>0, <1>2 DEF Acquire, Reuse
<1>3. CASE Publish(a)
  BY <1>0, <1>3 DEF Publish
<1>4. CASE UseExisting(a)
  BY <1>0, <1>4 DEF UseExisting
<1>5. CASE Resolve(a)
  <2>1. PICK ext \in ExtsFor(a) : file' = [file EXCEPT ![a] = <<a, ext>>]
    BY <1>5 DEF Resolve
  <2>2. file'[a][1] = a
    BY <1>0, <2>1
  <2> QED
    BY <1>0, <1>5, <2>2 DEF Resolve
<1>6. CASE StepDown(a)
  BY <1>0, <1>6 DEF StepDown
<1>7. CASE Break(a)
  BY <1>0, <1>7 DEF Break
<1>8. CASE Fetch(a)
  BY <1>0, <1>8 DEF Fetch, AfterTransfer, PlaceOf
<1>9. CASE Write(a)
  BY <1>0, <1>9 DEF Write, AfterTransfer, PlaceOf
<1>10. CASE ApkeepRun(a)
  BY <1>0, <1>10 DEF ApkeepRun, PlaceOf
<1>11. CASE ApkeepEnds(a)
  BY <1>0, <1>11 DEF ApkeepEnds, PlaceOf
<1>12. CASE Convert(a)
  <2>1. Output(a)[1] = file[a][1]
    BY <1>0 DEF Output
  <2> QED
    BY <1>0, <1>12, <2>1 DEF Convert, PlaceOf
<1>13. CASE Manifest(a)
  BY <1>0, <1>13 DEF Manifest
<1> QED
  BY <1>1, <1>2, <1>3, <1>4, <1>5, <1>6, <1>7, <1>8, <1>9, <1>10, <1>11, <1>12, <1>13 DEF AppStep

\* The page of a web source is the one its selector leads to, and stays.
LEMMA PageStep ==
  ASSUME CacheInv, NEW a \in Apps, AppStep(a), PlaceOf(a), PageOf(a)
  PROVE  PageOf(a)'
<1> USE DEF config, Held, Goto, Fail, Unlock, CacheInv
<1>0. /\ pc \in [Apps -> Places] /\ file \in [Apps -> Files] /\ resolved \in [Apps -> Selectors]
      /\ Way(a)' = Way(a) /\ settings' = settings /\ source' = source /\ available' = available /\ sure' = sure
      /\ tried \in [Apps -> SUBSET Releases] /\ page \in [Apps -> Selectors]
  BY OthersKeep DEF TypeOK, Way
<1>1. NewestCandidates' = NewestCandidates /\ (tried' = tried => Wanted(a)' = Wanted(a))
  BY <1>0 DEF NewestCandidates, Wanted
<1>2. CASE Resolve(a)
  <2>1. PICK v \in Wanted(a) : LET r == IF v = Latest THEN newest ELSE v IN
          /\ (v # Latest => v \in available) /\ source # "apkeep" /\ tried' = tried
          /\ page' = [page EXCEPT ![a] = r]
          /\ \E said \in {Latest, r} : resolved' = [resolved EXCEPT ![a] = said]
    BY <1>2 DEF Resolve
  <2>2. Wanted(a) = {v} /\ (v = Latest \/ v = page'[a]) /\ resolved'[a] \in {Latest, page'[a]}
    <3>1. Wanted(a) = {v}
      <4>1. v \in Wanted(a)
        BY <2>1
      <4>2. \A w \in Wanted(a) : w = v
        BY <4>1, WantedOf
      <4> QED
        BY <4>1, <4>2
    <3>2. (v = Latest \/ v = page'[a]) /\ resolved'[a] \in {Latest, page'[a]}
      BY <1>0, <2>1
    <3> QED
      BY <3>1, <3>2
  <2>3. ASSUME Way(a) = "fallback" PROVE page'[a] \in NewestCandidates
    <3>1. v \in Largest(Candidates \ tried[a]) /\ page'[a] = v
      BY <2>1, <2>2, <2>3, WantedOf
    <3>2. Candidates \cap sure \subseteq Candidates \ tried[a]
      BY DEF PageOf
    <3> QED
      BY <3>1, <3>2 DEF NewestCandidates, Largest
  <2> QED
    BY <1>0, <1>1, <2>1, <2>2, <2>3 DEF PageOf
<1>3. CASE StepDown(a)
  <2>1. PICK v : v \notin sure /\ tried' = [tried EXCEPT ![a] = @ \cup {v}]
    BY <1>3 DEF StepDown
  <2>2. tried'[a] \cap sure' = {}
    BY <1>0, <2>1 DEF PageOf
  <2>3. pc'[a] \in {"resolve", "failed"}
    BY <1>0, <1>3 DEF StepDown
  <2> QED
    BY <2>2, <2>3 DEF PageOf
<1>4. ASSUME tried' = tried, \/ pc'[a] \notin {"fetch", "write", "convert"} \/ source = "apkeep" \/ Way(a) = "direct"
                             \/ page' = page /\ resolved' = resolved /\ pc[a] \in {"fetch", "write", "convert"}
      PROVE  PageOf(a)'
  BY <1>0, <1>1, <1>4 DEF PageOf
<1>5. CASE Fetch(a) \/ Write(a)
  BY <1>4, <1>5 DEF Fetch, Write
<1>6. CASE Begin(a) \/ Acquire(a) \/ Publish(a) \/ UseExisting(a) \/ Break(a) \/ Manifest(a)
  <2>1. tried' = tried
    BY <1>6 DEF Begin, Acquire, Publish, UseExisting, Break, Manifest
  <2>2. pc'[a] \notin {"fetch", "write", "convert"} \/ Way(a) = "direct"
    BY <1>0, <1>6 DEF Begin, Acquire, Publish, UseExisting, Break, Manifest, Reuse
  <2> QED
    BY <1>4, <2>1, <2>2
<1>7. CASE ApkeepRun(a) \/ ApkeepEnds(a)
  BY <1>4, <1>7 DEF ApkeepRun, ApkeepEnds, PlaceOf
<1>8. CASE Convert(a)
  <2>1. tried' = tried /\ pc'[a] \in {"publish", "failed"}
    BY <1>0, <1>8 DEF Convert
  <2> QED
    BY <1>4, <2>1
<1> QED
  BY <1>2, <1>3, <1>5, <1>6, <1>7, <1>8 DEF AppStep

LEMMA FreshStep ==
  ASSUME CacheInv, NEW a \in Apps, AppStep(a), PlaceOf(a), FreshOf(a)
  PROVE  FreshOf(a)'
<1> USE DEF config, Held, Goto, Fail, Unlock, CacheInv, FreshOf
<1>0. /\ pc \in [Apps -> Places] /\ settings' = settings /\ source' = source /\ disable_caching' = disable_caching
  BY OthersKeep DEF TypeOK
<1>1. CASE Begin(a) \/ Acquire(a)
  BY <1>0, <1>1 DEF Begin, Acquire, Reuse, Shares, WayInv
<1>2. CASE Publish(a) \/ UseExisting(a) \/ Resolve(a) \/ StepDown(a) \/ Break(a) \/ Manifest(a)
  BY <1>0, <1>2 DEF Publish, UseExisting, Resolve, StepDown, Break, Manifest
<1>3. CASE Fetch(a) \/ Write(a)
  BY <1>0, <1>3 DEF Fetch, Write, Skip
<1>4. CASE ApkeepRun(a) \/ ApkeepEnds(a)
  BY <1>0, <1>4 DEF ApkeepRun, ApkeepEnds, PlaceOf
<1>5. CASE Convert(a)
  <2>1. pc[a] = "convert" /\ fetched' = fetched
    BY <1>5 DEF Convert
  <2> QED
    BY <1>0, <2>1
<1> QED
  BY <1>1, <1>2, <1>3, <1>4, <1>5 DEF AppStep

LEMMA FetchedGrows == ASSUME NEW a \in Apps, AppStep(a) PROVE fetched \subseteq fetched'
BY DEF AppStep, Begin, Acquire, Publish, UseExisting, Resolve, StepDown, Break, Fetch, Write, ApkeepRun,
       ApkeepEnds, Convert, Manifest, Held

LEMMA StepStep == ASSUME CacheInv, StepInv, NEW a \in Apps, AppStep(a) PROVE StepInv'
<1> SUFFICES ASSUME NEW b \in Apps PROVE (PlaceOf(b) /\ NameOf(b) /\ PageOf(b) /\ FreshOf(b))'
  BY DEF StepInv
<1>1. CASE b = a
  BY <1>1, PlaceStep, NameStep, PageStep, FreshStep DEF StepInv
<1>2. CASE b # a
  <2>1. /\ UNCHANGED <<settings, disable_caching, source, available, sure>>
        /\ UNCHANGED <<pc[b], file[b], resolved[b], page[b], tried[b]>>
    BY <1>2, OthersKeep DEF CacheInv, config
  <2>2. UNCHANGED <<Way(b), OwnerOf(b), ForPackage(b), Wanted(b), NewestCandidates>>
    BY <2>1 DEF Way, OwnerOf, ForPackage, Wanted, NewestCandidates
  <2> QED
    BY <2>1, <2>2, FetchedGrows DEF StepInv, PlaceOf, NameOf, PageOf, FreshOf
<1> QED
  BY <1>1, <1>2
\* A step of a writes only files of a's owner, and only from these places.
LEMMA Untouched ==
  ASSUME CacheInv, NEW a \in Apps, AppStep(a), PlaceOf(a), NameOf(a), NEW f \in Files,
         f[1] # OwnerOf(a) \/ pc[a] \notin {"write", "apkeep", "zip", "convert"}
  PROVE  disk'[f] = disk[f]
<1> USE DEF CacheInv
<1>0. disk \in [Files -> Disk] /\ file[a] \in Files /\ \A e : <<Package, e>>[1] = Package
  BY DEF TypeOK
<1>1. CASE Begin(a) \/ Acquire(a) \/ Publish(a) \/ UseExisting(a) \/ Resolve(a) \/ StepDown(a)
  BY <1>1 DEF Begin, Acquire, Publish, UseExisting, Resolve, StepDown
<1>2. CASE Break(a) \/ Fetch(a) \/ ApkeepRun(a) \/ Manifest(a)
  BY <1>2 DEF Break, Fetch, ApkeepRun, Manifest, Held
<1>3. CASE Write(a)
  BY <1>0, <1>3 DEF Write, NameOf
<1>4. CASE ApkeepEnds(a)
  BY <1>0, <1>4 DEF ApkeepEnds, NameOf, PlaceOf, OwnerOf
<1>5. CASE Convert(a)
  <2>1. Output(a)[1] = file[a][1] /\ pc[a] = "convert"
    BY <1>0, <1>5 DEF Output, Convert
  <2>2. f # Output(a)
    BY <2>1 DEF NameOf
  <2>3. disk' = disk \/ \E d : disk' = [disk EXCEPT ![Output(a)] = d]
    BY <1>5 DEF Convert
  <2> QED
    BY <1>0, <2>2, <2>3
<1> QED
  BY <1>1, <1>2, <1>3, <1>4, <1>5 DEF AppStep

\* Whoever writes the package's files is inside the cache's lock for it.
LEMMA PackageWriter ==
  ASSUME CacheInv, StepInv, Separate, NEW a \in Apps, OwnerOf(a) = Package,
         \/ pc[a] \in {"write", "apkeep", "zip", "convert"}
         \/ pc[a] = "publish" /\ ~settings[a].existing
  PROVE  download_lock = a /\ download_cache[Latest] = NoEntry
<1>1. source = "apkeep" /\ Way(a) # "direct"
  BY DownloadAssumption DEF OwnerOf
<1>2. ForPackage(a)
  BY <1>1 DEF StepInv, PlaceOf
<1>3. Shares(a) /\ settings[a].version = Latest /\ pc[a] \in Downloading
  BY <1>1, <1>2 DEF ForPackage, Shares, Separate, Downloading
<1> QED
  BY <1>3 DEF CacheInv, InsideInv, Cached

\* A settled file stays as it is.
LEMMA SettledStays ==
  ASSUME CacheInv, StepInv, Separate, NEW a \in Apps, AppStep(a), NEW f \in Files, Settled(f)
  PROVE  disk'[f] = disk[f] /\ Settled(f)' /\ \A v : Named(f, v) => Named(f, v)'
<1>0. PlaceOf(a) /\ NameOf(a)
  BY DEF StepInv
<1>1. UNCHANGED <<source, disable_caching>> /\ \A b \in Apps : pc[b] = "done" => pc'[b] = "done"
  BY OthersKeep, NotEnded DEF CacheInv, config
<1>2. CASE f[1] \in Apps /\ pc[f[1]] = "done"
  <2>1. f[1] # OwnerOf(a)
    BY <1>2, NotEnded, DownloadAssumption DEF OwnerOf
  <2> QED
    BY <1>0, <1>1, <1>2, <2>1, Untouched DEF Settled, Named
<1>3. CASE f[1] = Package /\ source = "apkeep" /\ download_cache[Latest] # NoEntry
  <2>1. f[1] # OwnerOf(a) \/ pc[a] \notin {"write", "apkeep", "zip", "convert"}
    BY <1>3, PackageWriter
  <2>2. download_cache'[Latest] # NoEntry
    BY <1>3, CacheOnlyFilled, Versions
  <2> QED
    BY <1>0, <1>1, <1>3, <2>1, <2>2, Untouched DEF Settled, Named
<1> QED
  BY <1>2, <1>3 DEF Settled

\* Nobody else writes the file of an app under way.
LEMMA OwnFile ==
  ASSUME CacheInv, StepInv, Separate, NEW a \in Apps, AppStep(a), NEW b \in Apps \ {a},
         pc[b] \in {"convert", "manifest", "publish"}
  PROVE  disk'[file[b]] = disk[file[b]]
<1>0. /\ PlaceOf(a) /\ NameOf(a) /\ NameOf(b) /\ PlaceOf(b) /\ file[b] \in Files
      /\ OwnerOf(a) \in {a, Package} /\ Package \notin Apps
  BY DownloadAssumption DEF StepInv, CacheInv, TypeOK, OwnerOf
<1>1. CASE file[b][1] # OwnerOf(a)
  BY <1>0, <1>1, Untouched
<1>2. CASE file[b][1] = OwnerOf(a)
  <2>1. ~(pc[b] = "publish" /\ settings[b].existing)
    <3>1. <<b, "local">>[1] = b
      OBVIOUS
    <3> QED
      BY <1>0, <1>2, <3>1 DEF NameOf
  <2>2. file[b][1] = OwnerOf(b) /\ OwnerOf(b) \in {b, Package}
    BY <1>0, <2>1 DEF NameOf, OwnerOf
  <2>3. OwnerOf(b) = Package /\ OwnerOf(a) = Package
    BY <1>0, <1>2, <2>2
  <2>4. pc[b] # "manifest"
    BY <2>3, DownloadAssumption DEF CacheInv, WayInv, OwnerOf
  <2>5. download_lock = b
    BY <2>1, <2>3, <2>4, PackageWriter
  <2>6. pc[a] \notin {"write", "apkeep", "zip", "convert"}
    BY <2>3, <2>5, PackageWriter
  <2> QED
    BY <1>0, <2>6, Untouched
<1> QED
  BY <1>1, <1>2

\* What a step of a does to its own file.
LEMMA HeldStep ==
  ASSUME CacheInv, StepInv, LengthsSent, Separate, PackageOf, NEW a \in Apps, AppStep(a), HeldOf(a),
         \A v \in Selectors : EntryOf(v)
  PROVE  HeldOf(a)'
<1> USE DEF config, Held, Goto, Fail, Unlock, CacheInv
<1>0. /\ pc \in [Apps -> Places] /\ file \in [Apps -> Files] /\ resolved \in [Apps -> Selectors]
      /\ disk \in [Files -> Disk] /\ page \in [Apps -> Selectors] /\ file[a] \in Files
      /\ Way(a)' = Way(a) /\ settings' = settings /\ source' = source /\ sure' = sure
      /\ settings[a].version \in Selectors
  BY OthersKeep, SettingsType DEF TypeOK, Way
<1>1. NewestCandidates' = NewestCandidates /\ PlaceOf(a) /\ NameOf(a) /\ PageOf(a)
  BY <1>0 DEF NewestCandidates, StepInv
<1>2. ASSUME pc'[a] \notin {"convert", "manifest", "publish", "done"} PROVE HeldOf(a)'
  BY <1>2 DEF HeldOf
<1>3. ASSUME Shares(a), Cached(a), Reuse(a), disk' = disk PROVE HeldOf(a)'
  <2>1. EntryOf(settings[a].version) /\ download_cache[settings[a].version] \in Entries \ {NoEntry}
    BY <1>0, <1>3 DEF Cached, TypeOK
  <2>2. PICK f \in Files, v \in Selectors : /\ f = download_cache[settings[a].version].file
                                          /\ v = download_cache[settings[a].version].version
    BY <2>1, EntryType
  <2>3. Settled(f) /\ Named(f, v)
    BY <2>1, <2>2 DEF EntryOf
  <2>4. pc'[a] = "done" /\ file'[a] = f /\ resolved'[a] = v
    BY <1>0, <1>3, <2>2 DEF Reuse
  <2>5. Settled(f)' /\ Named(f, v)'
    BY <2>3, SettledStays
  <2>6. Settled(file[a])' /\ Named(file[a], resolved[a])'
    BY <2>4, <2>5 DEF Settled, Named
  <2> QED
    BY <1>0, <1>3, <2>4, <2>6 DEF HeldOf, Fallen, Shares
<1>4. CASE Begin(a)
  BY <1>0, <1>2, <1>3, <1>4 DEF Begin
<1>5. CASE Acquire(a)
  BY <1>0, <1>2, <1>3, <1>5 DEF Acquire, WayInv
<1>6. CASE Publish(a)
  <2>1. pc'[a] = "done" /\ disk' = disk /\ file' = file /\ resolved' = resolved /\ pc[a] = "publish"
    BY <1>0, <1>6 DEF Publish
  <2>2. Settled(file[a])'
    <3>1. CASE file[a][1] = a
      BY <2>1, <3>1 DEF Settled
    <3>2. CASE file[a][1] # a
      <4>1. ~settings[a].existing /\ OwnerOf(a) = Package /\ file[a][1] = Package
        <5>1. <<a, "local">>[1] = a
          OBVIOUS
        <5> QED
          BY <1>1, <2>1, <3>2, <5>1 DEF NameOf, OwnerOf
      <4>2. source = "apkeep" /\ ForPackage(a)
        BY <1>1, <2>1, <3>2, <4>1 DEF PlaceOf, NameOf, OwnerOf
      <4>3. Shares(a) /\ settings[a].version = Latest
        BY <4>2 DEF ForPackage, Shares, Separate
      <4>4. download_cache' = [download_cache EXCEPT ![Latest] = [file |-> file[a], version |-> resolved[a]]]
        BY <1>6, <4>3 DEF Publish
      <4>5. file[a] # NoFile
        BY <2>1 DEF FileInv, Downloading
      <4>6. download_cache'[Latest] # NoEntry
        BY <4>4, <4>5, EntryIsReal, Versions DEF TypeOK
      <4> QED
        BY <1>0, <2>1, <4>1, <4>2, <4>6 DEF Settled
    <3> QED
      BY <3>1, <3>2
  <2> QED
    BY <1>0, <1>1, <2>1, <2>2 DEF HeldOf, Fallen, Named
<1>7. CASE UseExisting(a)
  <2>1. file'[a] = <<a, "local">> /\ pc'[a] = "publish" /\ settings[a].existing
    BY <1>0, <1>7 DEF UseExisting
  <2>2. file'[a][2] = "local"
    BY <2>1
  <2> QED
    BY <1>0, <2>1, <2>2 DEF HeldOf, Fallen, Named
<1>8. CASE Resolve(a)
  BY <1>0, <1>2, <1>8 DEF Resolve
<1>9. CASE StepDown(a)
  BY <1>0, <1>2, <1>9 DEF StepDown
<1>10. CASE Break(a)
  BY <1>0, <1>2, <1>10 DEF Break
<1>11. CASE Fetch(a)
  BY <1>0, <1>1, <1>2, <1>11 DEF Fetch, Skip, Complete, AfterTransfer, HeldOf, PlaceOf
<1>12. CASE Write(a)
  BY <1>0, <1>1, <1>2, <1>12 DEF Write, AfterTransfer, HeldOf, PlaceOf
<1>13. CASE ApkeepRun(a)
  <2>1. source = "apkeep" /\ Way(a) # "direct" /\ disk' = disk /\ pc'[a] \in {"failed", "apkeep", "convert"}
    BY <1>0, <1>1, <1>13 DEF ApkeepRun, PlaceOf
  <2>2. CASE pc'[a] = "convert" /\ file'[a][2] = "apk"
    <3>1. PICK ext \in {"apk", "zip"} : disk[<<Package, ext>>] # Absent /\ file' = [file EXCEPT ![a] = <<Package, ext>>]
      BY <1>0, <1>13, <2>2 DEF ApkeepRun
    <3>2. file'[a] = <<Package, ext>> /\ ext = "apk"
      BY <1>0, <2>2, <3>1
    <3> QED
      BY <1>0, <2>1, <2>2, <3>1, <3>2 DEF HeldOf, PackageOf
  <2> QED
    BY <1>0, <2>1, <2>2 DEF HeldOf
<1>14. CASE ApkeepEnds(a)
  <2>1. source = "apkeep" /\ Way(a) # "direct" /\ pc[a] \in {"apkeep", "zip"}
    BY <1>0, <1>1, <1>14 DEF ApkeepEnds, PlaceOf
  <2>2. CASE \E ext \in {"apk", "zip"} :
             /\ file' = [file EXCEPT ![a] = <<Package, ext>>]
             /\ disk' = [disk EXCEPT ![<<Package, ext>>] = [release |-> newest, whole |-> ext = "apk"]]
             /\ pc' = [pc EXCEPT ![a] = IF ext = "apk" THEN "convert" ELSE "zip"]
    <3>1. PICK ext \in {"apk", "zip"} :
             /\ file' = [file EXCEPT ![a] = <<Package, ext>>]
             /\ disk' = [disk EXCEPT ![<<Package, ext>>] = [release |-> newest, whole |-> ext = "apk"]]
             /\ pc' = [pc EXCEPT ![a] = IF ext = "apk" THEN "convert" ELSE "zip"]
      BY <2>2
    <3>2. CASE ext = "apk"
      <4>1. file'[a] = <<Package, "apk">> /\ disk'[<<Package, "apk">>].whole /\ pc'[a] = "convert"
        BY <1>0, <3>1, <3>2, FileNames
      <4> QED
        BY <1>0, <2>1, <4>1 DEF HeldOf
    <3>3. CASE ext = "zip"
      BY <1>0, <1>2, <3>1, <3>3
    <3> QED
      BY <3>2, <3>3
  <2>3. CASE file' = file /\ disk' = [disk EXCEPT ![file[a]] = [@ EXCEPT !.whole = TRUE]]
             /\ pc' = [pc EXCEPT ![a] = "convert"]
    <3>1. disk'[file[a]] = [disk[file[a]] EXCEPT !.whole = TRUE] /\ disk[file[a]] \in Disk
      BY <1>0, <2>3
    <3>2. disk'[file[a]].whole
      BY <3>1 DEF Disk
    <3> QED
      BY <1>0, <2>1, <2>3, <3>2 DEF HeldOf
  <2>4. CASE pc' = [pc EXCEPT ![a] = "failed"]
    BY <1>0, <1>2, <2>4
  <2> QED
    BY <1>14, <2>2, <2>3, <2>4 DEF ApkeepEnds
<1>15. CASE Convert(a)
  <2>1. CASE pc' = [pc EXCEPT ![a] = "failed"]
    BY <1>0, <1>2, <2>1
  <2>2. CASE /\ Patchable(a) \/ disk[file[a]].whole
             /\ disk' = [disk EXCEPT ![Output(a)] = disk[file[a]]]
             /\ file' = [file EXCEPT ![a] = Output(a)] /\ pc' = [pc EXCEPT ![a] = "publish"]
             /\ Name(a, Output(a))
    <3> DEFINE d == disk[file[a]]
    <3>1. Output(a) \in Files /\ d \in Disk
      BY <1>0, FileNames DEF Output
    <3>2. file'[a] = Output(a) /\ disk'[Output(a)] = d /\ pc'[a] = "publish"
      BY <1>0, <2>2, <3>1
    <3>3. PICK v \in IF resolved[a] # Latest THEN {resolved[a]} ELSE {d.release} \cup Wanted(a) : resolved'[a] = v
      BY <1>0, <2>2, <3>2 DEF Name
    <3>4. Way(a) # "direct" /\ pc[a] = "convert"
      BY <1>1, <1>15 DEF PlaceOf, Convert
    <3>5. CASE source # "apkeep"
      <4>1. d = [release |-> page[a], whole |-> TRUE]
        BY <3>4, <3>5 DEF HeldOf
      <4>2. v \in {Latest, page[a]} /\ (Way(a) = "fallback" => d.release \in NewestCandidates)
        BY <1>1, <3>3, <3>4, <3>5, <4>1 DEF PageOf
      <4>3. Named(file[a], resolved[a])' /\ Fallen(a)'
        <5>1. v = Latest \/ d = [release |-> v, whole |-> TRUE]
          BY <4>1, <4>2
        <5> QED
          BY <1>0, <1>1, <3>2, <3>3, <4>2, <5>1 DEF Named, Fallen
      <4> QED
        BY <1>0, <3>2, <4>3 DEF HeldOf
    <3>6. CASE source = "apkeep"
      <4>1. ForPackage(a) /\ resolved[a] = Latest /\ file[a][2] \in {"apk", "zip"}
        BY <1>1, <3>4, <3>6 DEF PlaceOf, NameOf
      <4>2. d.whole
        BY <2>2, <3>4, <3>6, <4>1 DEF HeldOf, Patchable
      <4>3. v = Latest \/ v = d.release
        BY <3>3, <4>1, WantedOf DEF ForPackage
      <4>4. v = Latest \/ d = [release |-> v, whole |-> TRUE]
        BY <3>1, <4>2, <4>3, WholeFile
      <4>5. Named(file[a], resolved[a])' /\ Fallen(a)'
        BY <1>0, <3>2, <3>3, <4>1, <4>4 DEF Named, Fallen, ForPackage
      <4> QED
        BY <1>0, <3>2, <4>5 DEF HeldOf
    <3> QED
      BY <3>5, <3>6
  <2> QED
    BY <1>15, <2>1, <2>2 DEF Convert
<1>16. CASE Manifest(a)
  <2>1. /\ Way(a) = "direct" /\ pc'[a] = "done" /\ disk' = disk /\ file' = file /\ pc[a] = "manifest"
        /\ file[a][1] = a
    BY <1>0, <1>1, <1>16 DEF Manifest, WayInv, NameOf, OwnerOf
  <2>2. disk[file[a]] = [release |-> page[a], whole |-> TRUE]
    BY <2>1 DEF HeldOf
  <2>3. settings[a].version # Latest \/ resolved'[a] \in {page[a], Latest}
    BY <1>0, <1>16, <2>2 DEF Manifest
  <2>4. Settled(file[a])'
    BY <2>1 DEF Settled
  <2>5. Named(file[a], resolved[a])' \/ settings[a].version # Latest
    BY <2>1, <2>2, <2>3 DEF Named
  <2> QED
    BY <1>0, <2>1, <2>4, <2>5 DEF HeldOf, Fallen
<1> QED
  BY <1>4, <1>5, <1>6, <1>7, <1>8, <1>9, <1>10, <1>11, <1>12, <1>13, <1>14, <1>15, <1>16 DEF AppStep

\* The package's APK is there as a whole or not at all.
LEMMA PackageStep ==
  ASSUME CacheInv, StepInv, Separate, PackageOf, NEW a \in Apps, AppStep(a), HeldOf(a)
  PROVE  PackageOf'
<1> DEFINE p == <<Package, "apk">>
<1>0. /\ p \in Files /\ p[1] = Package /\ PlaceOf(a) /\ NameOf(a) /\ file[a] \in Files /\ disk \in [Files -> Disk]
      /\ \A e : <<Package, e>> = p <=> e = "apk"
  BY FileNames DEF StepInv, CacheInv, TypeOK
<1>1. ASSUME disk'[p] = disk[p] \/ disk'[p] = Absent \/ disk'[p].whole PROVE PackageOf'
  BY <1>1 DEF PackageOf
<1>2. CASE OwnerOf(a) # Package \/ pc[a] \notin {"write", "apkeep", "zip", "convert"}
  BY <1>0, <1>1, <1>2, Untouched
<1>3. CASE OwnerOf(a) = Package /\ pc[a] \in {"write", "apkeep", "zip", "convert"}
  <2>1. source = "apkeep" /\ Way(a) # "direct" /\ pc[a] # "write"
    BY <1>0, <1>3, DownloadAssumption DEF OwnerOf, PlaceOf
  <2>2. ApkeepEnds(a) \/ Convert(a)
    BY <2>1, <1>3 DEF AppStep, Begin, Acquire, Publish, UseExisting, Resolve, StepDown, Break, Fetch, Write, ApkeepRun,
                      Manifest
  <2>3. CASE ApkeepEnds(a)
    <3>1. CASE \E ext \in {"apk", "zip"} :
                 disk' = [disk EXCEPT ![<<Package, ext>>] = [release |-> newest, whole |-> ext = "apk"]]
      <4>1. PICK ext \in {"apk", "zip"} :
                   disk' = [disk EXCEPT ![<<Package, ext>>] = [release |-> newest, whole |-> ext = "apk"]]
        BY <3>1
      <4>2. CASE ext = "apk"
        <5>1. disk'[p] = [release |-> newest, whole |-> TRUE]
          BY <1>0, <4>1, <4>2
        <5> QED
          BY <1>1, <5>1
      <4>3. CASE ext = "zip"
        BY <1>0, <1>1, <4>1, <4>3
      <4> QED
        BY <4>2, <4>3
    <3>2. CASE disk' = [disk EXCEPT ![file[a]] = [@ EXCEPT !.whole = TRUE]]
      <4>1. disk'[p] = disk[p] \/ disk'[p] = [disk[p] EXCEPT !.whole = TRUE]
        BY <1>0, <3>2
      <4>2. [disk[p] EXCEPT !.whole = TRUE].whole
        <5>1. disk[p] \in Disk
          BY <1>0
        <5> QED
          BY <5>1 DEF Disk
      <4> QED
        BY <1>1, <4>1, <4>2
    <3>3. CASE disk' = disk
      BY <1>1, <3>3
    <3> QED
      BY <2>3, <3>1, <3>2, <3>3 DEF ApkeepEnds
  <2>4. CASE Convert(a)
    <3>1. file[a][2] \in {"apk", "zip"} /\ (file[a][2] = "apk" => disk[file[a]].whole) /\ Output(a) \in Files
      BY <1>0, <2>1, <2>4, FileNames DEF Convert, NameOf, HeldOf, Output
    <3>2. CASE (Patchable(a) \/ disk[file[a]].whole) /\ disk' = [disk EXCEPT ![Output(a)] = disk[file[a]]]
      <4>1. disk[file[a]].whole
        BY <3>1, <3>2 DEF Patchable
      <4>2. disk'[p] = disk[p] \/ disk'[p] = disk[file[a]]
        BY <1>0, <3>1, <3>2
      <4> QED
        BY <1>1, <4>1, <4>2
    <3>3. CASE disk' = disk \/ disk' = [disk EXCEPT ![Output(a)] = Absent]
      BY <1>0, <1>1, <3>1, <3>3
    <3> QED
      BY <2>4, <3>2, <3>3 DEF Convert
  <2> QED
    BY <2>2, <2>3, <2>4
<1> QED
  BY <1>2, <1>3

LEMMA HeldInvStep == ASSUME CacheInv, StepInv, HeldInv, NEW a \in Apps, AppStep(a) PROVE HeldInv'
<1> SUFFICES ASSUME LengthsSent, Separate'
             PROVE  (PackageOf /\ (\A b \in Apps : HeldOf(b)) /\ (\A v \in Selectors : EntryOf(v)))'
  BY DEF HeldInv
<1>0. UNCHANGED config /\ Separate
  BY OthersKeep DEF CacheInv, Separate, config
<1>1. PackageOf /\ (\A b \in Apps : HeldOf(b)) /\ (\A v \in Selectors : EntryOf(v))
  BY <1>0 DEF HeldInv
<1>2. PackageOf'
  BY <1>0, <1>1, PackageStep
<1>3. HeldOf(a)'
  BY <1>0, <1>1, HeldStep
<1>4. ASSUME NEW b \in Apps \ {a} PROVE HeldOf(b)'
  <2>1. /\ UNCHANGED <<settings, source, available, sure>> /\ UNCHANGED <<pc[b], file[b], resolved[b], page[b]>>
        /\ UNCHANGED <<Way(b), NewestCandidates>> /\ file[b] \in Files
    BY OthersKeep DEF CacheInv, TypeOK, config, Way, NewestCandidates
  <2>2. pc[b] \in {"convert", "manifest", "publish"} => disk'[file[b]] = disk[file[b]]
    BY <1>0, OwnFile
  <2>3. CASE pc[b] = "done"
    <3>1. Settled(file[b])
      BY <1>1, <2>3 DEF HeldOf
    <3>2. disk'[file[b]] = disk[file[b]] /\ Settled(file[b])'
      <4>1. \A f \in Files : Settled(f) => disk'[f] = disk[f] /\ Settled(f)'
        BY <1>0, SettledStays
      <4>2. PICK f \in Files : f = file[b]
        BY <2>1
      <4>3. disk'[f] = disk[f] /\ Settled(f)'
        BY <3>1, <4>1, <4>2
      <4> QED
        BY <2>1, <4>2, <4>3 DEF Settled
    <3> QED
      BY <1>1, <2>1, <2>3, <3>2 DEF HeldOf, Fallen, Named
  <2>4. CASE pc[b] # "done"
    BY <1>1, <2>1, <2>2, <2>4 DEF HeldOf, Fallen, Named
  <2> QED
    BY <2>3, <2>4
<1>5. ASSUME NEW v \in Selectors PROVE EntryOf(v)'
  <2>0. download_cache \in [Selectors -> Entries] /\ settings[a].version \in Selectors
    BY SettingsType DEF CacheInv, TypeOK
  <2>1. CASE download_cache'[v] = download_cache[v]
    <3>1. \A f \in Files : Settled(f) => Settled(f)' /\ \A w : Named(f, w) => Named(f, w)'
      BY <1>0, SettledStays
    <3>2. PICK f \in Files, w \in Selectors : f = download_cache[v].file /\ w = download_cache[v].version
      BY <2>0, EntryType
    <3>3. download_cache[v] # NoEntry => Settled(f)' /\ Named(f, w)'
      BY <1>1, <3>1, <3>2 DEF EntryOf
    <3> QED
      BY <2>1, <3>2, <3>3 DEF EntryOf, Settled, Named
  <2>2. CASE download_cache'[v] # download_cache[v]
    <3>1. CacheEffect(a)
      BY AppEffect DEF CacheInv
    <3>2. /\ Shares(a) /\ pc'[a] = "done" /\ file' = file /\ resolved' = resolved
          /\ download_cache'[v] = [file |-> file[a], version |-> resolved[a]]
      BY <2>0, <2>2, <3>1 DEF CacheEffect
    <3>3. Settled(file[a])' /\ Named(file[a], resolved[a])'
      BY <1>0, <1>3, <3>2 DEF HeldOf, Shares, Way, config
    <3> QED
      BY <3>2, <3>3 DEF EntryOf, Settled, Named
  <2> QED
    BY <2>1, <2>2
<1> QED
  BY <1>2, <1>3, <1>4, <1>5

LEMMA FilesStep == ASSUME FilesInv, [Next]_vars PROVE FilesInv'
<1>1. CacheInv'
  BY CacheStep DEF FilesInv
<1>2. ASSUME NEW a \in Apps, AppStep(a) PROVE FilesInv'
  BY <1>1, <1>2, StepStep, HeldInvStep DEF FilesInv
<1>3. CASE Release \/ UNCHANGED vars
  <2>1. UNCHANGED <<config, disk, download_cache, pc, tried, page, file, resolved, fetched>>
    BY <1>3 DEF Release, vars, config
  <2>2. StepInv'
    BY <2>1, ZenonT(60) DEF FilesInv, StepInv, PlaceOf, NameOf, PageOf, FreshOf, Way, OwnerOf, ForPackage, Wanted,
                NewestCandidates, config
  <2>3. HeldInv'
    BY <2>1 DEF FilesInv, HeldInv, HeldOf, EntryOf, PackageOf, Separate, Fallen, Named, Settled, Way,
                NewestCandidates, config
  <2> QED
    BY <1>1, <2>2, <2>3 DEF FilesInv
<1> QED
  BY <1>2, <1>3 DEF Next, Ended

------------------------------------------------------------------------------
(* Theorems.                                                                 *)

\* In every reachable state CacheInv holds: an app that shares the cache
\* downloads only inside the with-block of download_apk_for_patching and only
\* while its entry is missing.
THEOREM CacheInvariant == Spec => []CacheInv
<1>1. CacheInv /\ [Next]_vars => CacheInv'
  BY CacheStep
<1> QED
  BY CacheInit, <1>1, PTL DEF Spec

\* The state of the cache, of the temp folder and of the apps is well-formed, and
\* VersionFallback.run never asks for a candidate when none is left.
THEOREM TypeCorrect == Spec => []TypeOK
<1>1. CacheInv => TypeOK
  BY DEF CacheInv
<1> QED
  BY CacheInvariant, <1>1, PTL

\* Apps that share the cache and ask for the same selector end with the same file
\* and the same version.
THEOREM SameApk == Spec => []SameSelectorSameApk
<1>1. CacheInv => SameSelectorSameApk
  <2> SUFFICES ASSUME CacheInv, NEW a \in Apps, NEW b \in Apps, Shares(a), Shares(b),
                      settings[a].version = settings[b].version, pc[a] = "done", pc[b] = "done"
               PROVE  file[a] = file[b] /\ resolved[a] = resolved[b]
    BY DEF SameSelectorSameApk
  <2>1. [file |-> file[a], version |-> resolved[a]] = [file |-> file[b], version |-> resolved[b]]
    BY DEF CacheInv, DoneInv
  <2> QED
    BY <2>1
<1> QED
  BY CacheInvariant, <1>1, PTL

\* Once the cache holds an APK it holds it to the end of the run.
THEOREM CacheNeverChanges == Spec => CacheIsStable
<1>1. CacheInv /\ [Next]_vars =>
        [\A v \in Selectors : download_cache[v] # NoEntry => download_cache'[v] = download_cache[v]]_vars
  <2> SUFFICES ASSUME CacheInv, Next, NEW v \in Selectors, download_cache[v] # NoEntry
               PROVE  download_cache'[v] = download_cache[v]
    OBVIOUS
  <2>1. ASSUME NEW a \in Apps, AppStep(a) PROVE download_cache'[v] = download_cache[v]
    BY <2>1, CacheOnlyFilled
  <2>2. CASE Release \/ UNCHANGED vars
    BY <2>2 DEF Release, vars
  <2> QED
    BY <2>1, <2>2 DEF Next, Ended
<1> QED
  BY CacheInvariant, <1>1, PTL DEF Spec, CacheIsStable

\* In every reachable state FilesInv holds: nobody writes the file of an app that
\* is under way or done, and the file holds the release the app was sent to.
THEOREM FilesInvariant == Spec => []FilesInv
<1>1. FilesInv /\ [Next]_vars => FilesInv'
  BY FilesStep
<1> QED
  BY FilesInit, <1>1, PTL DEF Spec

\* Of a source that announces the size of its files, an app records the version
\* of the APK it patches, whatever lies in the temp folder and whoever
\* downloaded it.
THEOREM VersionsAreOfFiles == ASSUME LengthsSent PROVE Spec => []VersionIsOfFile
<1>1. FilesInv => VersionIsOfFile
  BY DEF FilesInv, HeldInv, Separate, HeldOf, Named, VersionIsOfFile
<1> QED
  BY FilesInvariant, <1>1, PTL

\* Of such a source the fall-back ends at a candidate, and none of those that are
\* surely to be found is newer.
THEOREM FallbacksAreNewest == ASSUME LengthsSent PROVE Spec => []FallbackIsNewest
<1>1. FilesInv => FallbackIsNewest
  BY DEF FilesInv, StepInv, PlaceOf, HeldInv, Separate, HeldOf, Fallen, NewestCandidates, FallbackIsNewest
<1> QED
  BY FilesInvariant, <1>1, PTL

\* With DISABLE_CACHING every app of a web source transfers its APK.
THEOREM AlwaysFresh == Spec => []FreshWhenDisabled
<1>1. FilesInv => FreshWhenDisabled
  BY DEF FilesInv, StepInv, FreshOf, FreshWhenDisabled
<1> QED
  BY FilesInvariant, <1>1, PTL
==============================================================================
