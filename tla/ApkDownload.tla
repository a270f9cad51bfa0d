----------------------------- MODULE ApkDownload -----------------------------
(***************************************************************************)
(* How the apps of a run obtain the APK they patch: APP.                   *)
(* download_apk_for_patching of src/src/app.py, Downloader.download and    *)
(* _download of src/src/downloader/download.py, the fall-back to older     *)
(* versions (src/src/apks/version_fallback.py) and apkeep.                 *)
(*                                                                         *)
(* All apps use one source, which is where they meet: apps with the same   *)
(* version selector share a cache entry.  An app is directed to its own    *)
(* URL, falls back through the versions its patches support, or asks for   *)
(* its selector.  Releases are numbered; Latest is the selector of any, and*)
(* the version recorded when nobody could tell.  A file of a release has   *)
(* the size of no other release.                                           *)
(***************************************************************************)
EXTENDS Integers, FiniteSets

CONSTANTS
  Apps,
  Settings,       \* configurations of the apps to explore, see SettingsOf
  Candidates,     \* the versions the patches support
  MaxRelease,     \* bound: releases
  LengthsSent     \* does the server send content-length?

Releases  == 1 .. MaxRelease
Latest    == 0
Selectors == Releases \cup {Latest}
Sources   == {"uptodown", "apkmirror", "apkeep"}
Package   == "package"        \* with apkeep the apps are builds of one package

SettingsOf == [way : {"direct", "fallback", "selector"}, version : Selectors,
               morphe : BOOLEAN, existing : BOOLEAN]

ASSUME DownloadAssumption ==
  /\ MaxRelease \in Nat \ {0} /\ Apps \cap {"free", Package} = {}
  /\ Settings \in SUBSET [Apps -> SettingsOf]
  /\ Candidates \in SUBSET Releases /\ Candidates # {}
  /\ LengthsSent \in BOOLEAN

Owners  == Apps \cup {Package}
Exts    == {"apk", "apkm", "zip", "local"}
Files   == Owners \X Exts
Absent  == [release |-> 0, whole |-> FALSE]
Disk    == [release : Selectors, whole : BOOLEAN]   \* what a path may hold
NoFile  == <<Package, "local">>
Entries == [file : Files, version : Selectors]
NoEntry == [file |-> NoFile, version |-> Latest]

VARIABLES
  settings, disable_caching,       \* configuration of the run
  source,                          \* a web page, or Google Play by apkeep (a file per package)
  available, newest,               \* releases that may be found under their version; the latest one
  sure,                            \* those listed on the first page, with page and file in place
  disk,                            \* the temp folder
  download_cache, download_lock,   \* selector -> entry; the app in the with-block
  pc, tried, page, file, resolved, \* per app: candidates left to try, release on the page, ...
  fetched                          \* history: apps that transferred a file themselves

vars == <<settings, disable_caching, source, available, sure, newest, disk, download_cache, download_lock,
          pc, tried, page, file, resolved, fetched>>
config == <<settings, disable_caching, source, available, sure>>

\* The releases that some app may ask for by their version.
Asked == {r \in Releases : \E a \in Apps : \/ settings[a].version = r
                                           \/ settings[a].way = "fallback" /\ r \in Candidates}

\* An earlier run may have left files of the first release in the temp folder.
Init ==
  /\ settings \in Settings /\ disable_caching \in BOOLEAN /\ newest = 1
  /\ source \in Sources
  /\ available \in IF source = "apkeep" THEN {{}} ELSE SUBSET Asked
  /\ sure \in SUBSET available
  /\ disk \in {[f \in Files |-> IF f[1] \in Apps /\ f[2] = "apk" THEN left ELSE Absent] :
                 left \in {Absent, [release |-> 1, whole |-> TRUE]}}
  /\ download_cache = [v \in Selectors |-> NoEntry] /\ download_lock = "free"
  /\ pc = [a \in Apps |-> "begin"] /\ tried = [a \in Apps |-> {}]
  /\ page = [a \in Apps |-> Latest] /\ file = [a \in Apps |-> NoFile]
  /\ resolved = [a \in Apps |-> Latest] /\ fetched = {}

------------------------------------------------------------------------------
(* The cache, the lock, and the version an app asks for.                     *)

Goto(a, l) == pc' = [pc EXCEPT ![a] = l]

Way(a)    == settings[a].way
Cached(a) == download_cache[settings[a].version] # NoEntry
Shares(a) == Way(a) = "selector" /\ ~disable_caching

Largest(S) == {r \in S : \A q \in S : q <= r}

\* sorted(versions, reverse=True): the newest candidate that is left.
Wanted(a) ==
  IF Way(a) = "fallback" THEN Largest(Candidates \ tried[a]) ELSE {settings[a].version}

Unlock(a) == download_lock' = IF download_lock = a THEN "free" ELSE download_lock

\* Mutant: an exception leaves the lock behind.
FailHolding(a) == Goto(a, "failed") /\ UNCHANGED download_lock

\* An exception leaves download_apk_for_patching, and the with-block if inside.
Fail(a) == Goto(a, "failed") /\ Unlock(a)

\* Mutant: a hit takes the file and leaves the version as the app had it.
ReuseFile(a) ==
  /\ file' = [file EXCEPT ![a] = download_cache[settings[a].version].file]
  /\ Goto(a, "done") /\ UNCHANGED resolved

Reuse(a) ==
  LET entry == download_cache[settings[a].version] IN
  /\ file' = [file EXCEPT ![a] = entry.file] /\ resolved' = [resolved EXCEPT ![a] = entry.version]
  /\ Goto(a, "done")

\* Up to the with-block: the way is chosen, and the cache looked at without the lock.
Begin(a) ==
  /\ pc[a] = "begin"
  /\ \/ /\ Way(a) = "direct" /\ Goto(a, "fetch")
        /\ file' = [file EXCEPT ![a] = <<a, "apk">>]
        /\ \E r \in Releases : page' = [page EXCEPT ![a] = r]
        /\ UNCHANGED resolved
     \/ /\ Way(a) # "direct" /\ ~Shares(a) /\ Goto(a, "resolve")
        /\ UNCHANGED <<page, file, resolved>>
     \/ Shares(a) /\ Cached(a) /\ Reuse(a) /\ UNCHANGED page
     \/ Shares(a) /\ ~Cached(a) /\ Goto(a, "lock") /\ UNCHANGED <<page, file, resolved>>
  /\ UNCHANGED <<config, newest, disk, download_cache, download_lock, tried, fetched>>

\* Mutant: no second look at the cache.
AcquireBlindly(a) ==
  /\ pc[a] = "lock" /\ download_lock = "free"
  /\ Goto(a, "resolve") /\ download_lock' = a
  /\ UNCHANGED <<config, newest, disk, download_cache, page, tried, fetched, file, resolved>>

Acquire(a) ==
  /\ pc[a] = "lock" /\ download_lock = "free"
  /\ \/ Cached(a) /\ Reuse(a) /\ UNCHANGED download_lock
     \/ ~Cached(a) /\ Goto(a, "resolve") /\ download_lock' = a /\ UNCHANGED <<file, resolved>>
  /\ UNCHANGED <<config, newest, disk, download_cache, page, tried, fetched>>

\* download_cache[cache_key] = (file, dl, effective version); end of the with-block.
Publish(a) ==
  /\ pc[a] = "publish" /\ Goto(a, "done") /\ Unlock(a)
  /\ download_cache' = IF Shares(a)
                       THEN [download_cache EXCEPT ![settings[a].version] =
                               [file |-> file[a], version |-> resolved[a]]]
                       ELSE download_cache
  /\ UNCHANGED <<config, newest, disk, page, tried, file, resolved, fetched>>

------------------------------------------------------------------------------
(* Downloader.download: the source's page, and the step down to another one. *)

Held == <<config, newest, download_cache, fetched>>

\* existing_downloaded_apks: the operator has put the APK there.
UseExisting(a) ==
  /\ pc[a] = "resolve" /\ settings[a].existing
  /\ file' = [file EXCEPT ![a] = <<a, "local">>]
  /\ \E v \in Wanted(a) : resolved' = [resolved EXCEPT ![a] = v]
  /\ Goto(a, "publish")
  /\ UNCHANGED <<Held, disk, download_lock, tried, page>>

\* The page says which file there is: a bundle keeps the suffix Morphe needs, if
\* the source has it, and is an archive to be merged for everybody else.
ExtsFor(a) == {"apk", "zip"} \cup (IF settings[a].morphe THEN {"apkm"} ELSE {})

Resolve(a) ==
  \E v \in Wanted(a) : LET r == IF v = Latest THEN newest ELSE v IN
    /\ pc[a] = "resolve" /\ source # "apkeep" /\ ~settings[a].existing
    /\ v # Latest => v \in available
    /\ Goto(a, "fetch") /\ page' = [page EXCEPT ![a] = r]
    /\ \E ext \in ExtsFor(a) : file' = [file EXCEPT ![a] = <<a, ext>>]
    /\ \E said \in {Latest, r} : resolved' = [resolved EXCEPT ![a] = said]
    /\ UNCHANGED <<Held, disk, download_lock, tried>>

\* Mutant: any error makes the fall-back step down.
StepDownOnError(a) ==
  /\ pc[a] = "resolve" /\ source # "apkeep" /\ ~settings[a].existing
  /\ \E v \in Wanted(a) \ {Latest} : tried' = [tried EXCEPT ![a] = @ \cup {v}]
  /\ resolved' = [resolved EXCEPT ![a] = Latest]
  /\ IF Way(a) = "fallback" /\ Candidates # tried'[a]
     THEN UNCHANGED <<pc, download_lock>> ELSE Fail(a)
  /\ UNCHANGED <<Held, disk, page, file>>

\* VersionNotFoundError: the fall-back goes on to the next candidate.  A version
\* that is not surely found may be missed while it is looked for: UptoDown does
\* not list it or its page is gone, APKMirror's guessed address fails with
\* whatever error and the first page of the listing is without it.  UptoDown
\* takes a 404 of the file itself for one of the page.
StepDown(a) ==
  /\ \/ pc[a] = "resolve" /\ source # "apkeep" /\ ~settings[a].existing
     \/ pc[a] = "fetch" /\ source = "uptodown" /\ Way(a) # "direct"
  /\ \E v \in Wanted(a) \ (sure \cup {Latest}) : tried' = [tried EXCEPT ![a] = @ \cup {v}]
  /\ resolved' = [resolved EXCEPT ![a] = Latest]
  /\ IF Way(a) = "fallback" /\ Candidates # tried'[a]
     THEN Goto(a, "resolve") /\ UNCHANGED download_lock ELSE Fail(a)
  /\ UNCHANGED <<Held, disk, page, file>>

\* Any other error of a request, a page or a transfer, cancellation included, and
\* a source nobody knows.  The partial file of a transfer is removed.
Break(a) ==
  /\ \/ pc[a] = "begin" /\ Way(a) # "direct"
     \/ pc[a] = "resolve" /\ ~settings[a].existing
     \/ pc[a] \in {"fetch", "write"}
  /\ Fail(a)
  /\ UNCHANGED <<Held, disk, tried, page, file, resolved>>

Release ==            \* the source publishes another release
  /\ newest < MaxRelease /\ newest' = newest + 1
  /\ UNCHANGED <<config, disk, download_cache, download_lock, pc, tried, page, file, resolved, fetched>>

------------------------------------------------------------------------------
(* _download: an existing file of the announced size is reused.              *)

\* Mutant: any existing file will do.
CompleteIfThere(a) == disk[file[a]] # Absent

Complete(a) ==
  disk[file[a]] # Absent /\ (LengthsSent => disk[file[a]] = [release |-> page[a], whole |-> TRUE])

\* Mutant: DISABLE_CACHING is not looked at.
SkipAlways(a) == Complete(a)

Skip(a) == ~disable_caching /\ Complete(a)

AfterTransfer(a) == IF Way(a) = "direct" THEN "manifest" ELSE "convert"

Fetch(a) ==
  /\ pc[a] = "fetch" /\ Goto(a, IF Skip(a) THEN AfterTransfer(a) ELSE "write")
  /\ UNCHANGED <<Held, disk, download_lock, tried, page, file, resolved>>

Write(a) ==           \* the body is in the partial file, which replaces the target
  /\ pc[a] = "write" /\ Goto(a, AfterTransfer(a)) /\ fetched' = fetched \cup {a}
  /\ disk' = [disk EXCEPT ![file[a]] = [release |-> page[a], whole |-> TRUE]]
  /\ UNCHANGED <<config, newest, download_cache, download_lock, tried, page, file, resolved>>

------------------------------------------------------------------------------
(* apkeep: whatever lies under the package's name is taken.                  *)

ApkeepRun(a) ==
  /\ pc[a] = "resolve" /\ source = "apkeep" /\ ~settings[a].existing
  /\ \/ Wanted(a) # {Latest} /\ Fail(a) /\ UNCHANGED file      \* no specific_version
     \/ /\ Wanted(a) = {Latest} /\ UNCHANGED download_lock
        /\ \/ \E ext \in {"apk", "zip"} :
                /\ disk[<<Package, ext>>] # Absent
                /\ ext = "zip" => disk[<<Package, "apk">>] = Absent
                /\ file' = [file EXCEPT ![a] = <<Package, ext>>] /\ Goto(a, "convert")
           \/ /\ \A ext \in {"apk", "zip"} : disk[<<Package, ext>>] = Absent
              /\ Goto(a, "apkeep") /\ UNCHANGED file
  /\ resolved' = [resolved EXCEPT ![a] = Latest]
  /\ UNCHANGED <<Held, disk, tried, page>>

\* The process has ended with an APK, with a folder of splits that is zipped in
\* place, or with an error.
ApkeepEnds(a) ==
  /\ \/ /\ pc[a] = "apkeep" /\ fetched' = fetched \cup {a} /\ UNCHANGED download_lock
        /\ \E ext \in {"apk", "zip"} :
             /\ file' = [file EXCEPT ![a] = <<Package, ext>>]
             /\ disk' = [disk EXCEPT ![<<Package, ext>>] = [release |-> newest, whole |-> ext = "apk"]]
             /\ Goto(a, IF ext = "apk" THEN "convert" ELSE "zip")
     \/ /\ pc[a] = "zip" /\ Goto(a, "convert") /\ UNCHANGED <<file, fetched, download_lock>>
        /\ disk' = [disk EXCEPT ![file[a]] = [@ EXCEPT !.whole = TRUE]]
     \/ /\ pc[a] \in {"apkeep", "zip"} /\ Fail(a) /\ UNCHANGED <<file, fetched, disk>>
  /\ UNCHANGED <<config, newest, download_cache, tried, page, resolved>>

------------------------------------------------------------------------------
(* Merging of bundles, and the version in the manifest.                      *)

\* _should_patch_download_directly, and APKs.  An APK may turn out to be an XAPK
\* archive by another name, which is merged into a file of the same name.
Patchable(a)    == file[a][2] = "apk" \/ (file[a][2] = "apkm" /\ settings[a].morphe)
MayBeArchive(a) == file[a][2] = "apk" \/ ~Patchable(a)

Output(a) == IF Patchable(a) THEN file[a] ELSE <<file[a][1], "apk">>

\* _resolve_version_from_download: what the page said, what the manifest of the
\* file says if it can be read, or what was asked for.
Name(a, f) ==
  \E v \in IF resolved[a] # Latest THEN {resolved[a]} ELSE {disk'[f].release} \cup Wanted(a) :
    resolved' = [resolved EXCEPT ![a] = v]

\* _repack_if_needed (which leaves the original where it is) and convert_to_apk:
\* the old output is unlinked, a misnamed archive first moved to a name nobody
\* asks for again, and APKEditor may fail, as it does on half an archive.
Convert(a) ==
  /\ pc[a] = "convert"
  /\ \/ /\ Patchable(a) \/ disk[file[a]].whole
        /\ disk' = [disk EXCEPT ![Output(a)] = disk[file[a]]]
        /\ file' = [file EXCEPT ![a] = Output(a)] /\ Goto(a, "publish")
        /\ Name(a, Output(a)) /\ UNCHANGED download_lock
     \/ /\ Fail(a) /\ UNCHANGED <<file, resolved>>
        /\ \/ file[a][2] # "apk" /\ UNCHANGED disk
           \/ MayBeArchive(a) /\ disk' = [disk EXCEPT ![Output(a)] = Absent]
  /\ UNCHANGED <<Held, tried, page>>

Manifest(a) ==        \* the direct download: the selector, or the manifest if it is `latest'
  /\ pc[a] = "manifest" /\ Goto(a, "done")
  /\ \E v \in IF settings[a].version # Latest THEN {settings[a].version}
              ELSE {disk[file[a]].release, Latest} : resolved' = [resolved EXCEPT ![a] = v]
  /\ UNCHANGED <<Held, disk, download_lock, tried, page, file>>

------------------------------------------------------------------------------
AppStep(a) ==
  \/ Begin(a) \/ Acquire(a) \/ Publish(a) \/ UseExisting(a) \/ Resolve(a) \/ StepDown(a) \/ Break(a)
  \/ Fetch(a) \/ Write(a) \/ ApkeepRun(a) \/ ApkeepEnds(a) \/ Convert(a) \/ Manifest(a)

Ended == (\A a \in Apps : pc[a] \in {"done", "failed"}) /\ UNCHANGED vars

Next == (\E a \in Apps : AppStep(a)) \/ Release \/ Ended

Spec == Init /\ [][Next]_vars

\* App threads run, requests time out and external tools end.
FairSpec == Spec /\ \A a \in Apps : WF_vars(AppStep(a))

------------------------------------------------------------------------------
(* Properties.                                                               *)

Places == {"begin", "lock", "resolve", "fetch", "write", "apkeep", "zip", "convert", "manifest", "publish",
           "done", "failed"}

TypeOK ==
  /\ settings \in Settings /\ disable_caching \in BOOLEAN /\ source \in Sources
  /\ available \in SUBSET Releases /\ sure \in SUBSET available /\ newest \in Releases
  /\ disk \in [Files -> Disk]
  /\ download_cache \in [Selectors -> Entries]
  /\ download_lock \in Apps \cup {"free"}
  /\ pc \in [Apps -> Places]
  /\ tried \in [Apps -> SUBSET Releases] /\ page \in [Apps -> Selectors]
  /\ file \in [Apps -> Files] /\ resolved \in [Apps -> Selectors] /\ fetched \in SUBSET Apps
  /\ \A a \in Apps : pc[a] \in {"begin", "resolve"} /\ Way(a) = "fallback" => tried[a] # Candidates

\* Apps that ask the source for the same selector patch the same file and record
\* the same version, whoever downloaded it and whatever came out meanwhile.
SameSelectorSameApk ==
  \A a, b \in Apps :
    Shares(a) /\ Shares(b) /\ settings[a].version = settings[b].version /\ pc[a] = "done" /\ pc[b] = "done" =>
      file[a] = file[b] /\ resolved[a] = resolved[b]

\* A cached APK is never replaced, so nobody patches another file than the one
\* the cache promised (the second look under the lock).
CacheIsStable ==
  [][\A v \in Selectors : download_cache[v] # NoEntry => download_cache'[v] = download_cache[v]]_vars

\* The version an app records, which names the output and decides about later
\* rebuilds, is the version of the APK it patches, left-over files or not.  Not
\* so with apkeep and without the cache's lock: there builds of one package write
\* the same files at the same time.
VersionIsOfFile ==
  ~(source = "apkeep" /\ disable_caching) =>
    \A a \in Apps :
    \/ pc[a] # "done" \/ resolved[a] = Latest \/ file[a][2] = "local"
    \/ Way(a) = "direct" /\ settings[a].version # Latest   \* the operator's word
    \/ disk[file[a]] = [release |-> resolved[a], whole |-> TRUE]

\* The fall-back ends at a candidate, and passes over none that is newer and
\* surely to be found: not after an error that is no VersionNotFoundError, and
\* not by what a failed attempt has left behind (VersionFallback.run).
FallbackIsNewest ==
  \A a \in Apps : pc[a] = "done" /\ Way(a) = "fallback" /\ ~settings[a].existing =>
    disk[file[a]].release \in Candidates /\ \A c \in Candidates \cap sure : c <= disk[file[a]].release

\* With DISABLE_CACHING every app transfers its own APK, left-over files or not.
\* Again not so with apkeep, which takes what lies under the package's name.
FreshWhenDisabled ==
  disable_caching /\ source # "apkeep" => \A a \in Apps : pc[a] = "done" /\ ~settings[a].existing => a \in fetched

\* A failure anywhere under the lock lets the other apps go on.
EveryAppEnds == \A a \in Apps : <>(pc[a] \in {"done", "failed"})

------------------------------------------------------------------------------
(* What the source says of itself and the code does not do.                  *)

\* "Only catches VersionNotFoundError.  Network errors, download errors after the
\* page was found, and other exceptions propagate immediately": so no candidate
\* is passed over that the source has.
FallbackIsNewestThereIs ==
  \A a \in Apps : pc[a] = "done" /\ Way(a) = "fallback" /\ ~settings[a].existing =>
    disk[file[a]].release \in Largest(Candidates \cap available)

\* "Only Morphe accepts APKM safely": an app of another profile is never handed
\* an unmerged bundle.
ApkmOnlyForMorphe ==
  \A a \in Apps : pc[a] = "done" /\ file[a][2] = "apkm" => settings[a].morphe
==============================================================================
