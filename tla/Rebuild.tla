-------------------------------- MODULE Rebuild --------------------------------
(***************************************************************************)
(* Whether an app is built again (src/check_resource_updates.py), and what *)
(* its build records in updates.json (src/main.py, src/src/utils.py),      *)
(* across the hourly workflow runs that share that file.  A check compares *)
(* the recorded patch bundles with the published ones; it fetches the file *)
(* once per field, so another run's push may come between two fetches.  A  *)
(* build loads the file, builds the apps that need it and pushes the whole *)
(* file back; nothing keeps two runs apart.                                *)
(*                                                                         *)
(* A file of a bundle is [bundle, tag]; its normalized hash is the content *)
(* published under that tag.  The order of patch_bundles depends on which  *)
(* bundles another app of the process had cached.                          *)
(***************************************************************************)
EXTENDS Integers, Sequences, FiniteSets, SequencesExt

CONSTANTS
  Runs,               \* runs that may overlap
  AppOrder,           \* PATCH_APPS
  Bundles,
  Configs,            \* per app: the lists of bundles its owner configures, the first at first
  AppVersions,
  Rank,               \* the order of file names, digests of download URLs
  MaxChanges,         \* bound: releases, new versions and edits of the configuration
  MaxFailures,        \* bound: fetches and builds that fail
  MaxOverlaps         \* bound: runs started while another is under way

Apps == ToSet(AppOrder)
Tags == 1 .. MaxChanges + 1

\* File names are digests: no two URLs have the same.
ASSUME RebuildAssumption ==
  /\ AppOrder \in Seq(Apps) /\ AppOrder # <<>>
  /\ \A a \in Apps : Configs[a] \in Seq(Seq(Bundles)) /\ Configs[a] # <<>>
  /\ \A b \in Bundles : \A t \in Tags : Rank[b][t] \in Int
  /\ \A b, c \in Bundles : \A t, u \in Tags : Rank[b][t] = Rank[c][u] => b = c /\ t = u
  /\ AppVersions \subseteq Nat /\ \E v \in AppVersions : \A w \in AppVersions : v <= w
  /\ MaxChanges \in Nat /\ MaxFailures \in Nat /\ MaxOverlaps \in Nat

VARIABLES
  releases,           \* per bundle: the content of each tag
  config,             \* per app: patches_dl_list
  offered,            \* per app: the version of its APK
  record,             \* updates.json on the branch, per app
  at, todo, needed,   \* per run: where it is, apps still to do, PATCH_APPS of the build
  seen,               \* per run: what the check fetched for the current app
  cache,              \* per run: resource_cache of the process, tag 0 if missing
  files,              \* per run: patch_bundles of the app under check
  older, info,        \* per run: updates.json as loaded, updates_info
  built,              \* per run: whether it has patched an app
  changes, failures, overlaps

world == <<releases, config, offered, changes>>
vars  == <<world, record, at, todo, needed, seen, cache, files, older, info, built, failures, overlaps>>

NoEntry   == [files |-> <<>>, sources |-> <<>>, version |-> 0, revision |-> 0]
NothingSeen == [versions |-> NoEntry, sources |-> NoEntry, hashes |-> NoEntry]
NoRecord  == [a \in Apps |-> NoEntry]
NoCache   == [b \in Bundles |-> 0]

Init ==
  /\ releases = [b \in Bundles |-> <<1>>]
  /\ config = [a \in Apps |-> Configs[a][1]]
  /\ offered = [a \in Apps |-> CHOOSE v \in AppVersions : \A w \in AppVersions : v <= w]
  /\ record = NoRecord
  /\ at = [r \in Runs |-> "idle"]
  /\ todo = [r \in Runs |-> <<>>] /\ needed = [r \in Runs |-> <<>>]
  /\ seen = [r \in Runs |-> NothingSeen]
  /\ cache = [r \in Runs |-> NoCache] /\ files = [r \in Runs |-> <<>>]
  /\ older = [r \in Runs |-> NoRecord] /\ info = [r \in Runs |-> NoRecord]
  /\ built = [r \in Runs |-> FALSE]
  /\ changes = 0 /\ failures = 0 /\ overlaps = 0

------------------------------------------------------------------------------
(* Patch bundles and their hashes.                                           *)

\* sorted(range(len(key)), key=...): the indices in the order of their keys,
\* equal ones as they come.
SortedBy(key) ==
  CHOOSE order \in [DOMAIN key -> DOMAIN key] :
    \A i, j \in DOMAIN key : i < j =>
      \/ key[order[i]] < key[order[j]]
      \/ key[order[i]] = key[order[j]] /\ order[i] < order[j]

\* The bundles of an app once resolved: those that were cached come first.
Tagged(tags, conf, cached) ==
  LET order == SortedBy([i \in 1 .. Len(conf) |-> IF conf[i] \in cached THEN 0 ELSE 1])
  IN  [k \in 1 .. Len(conf) |-> LET b == conf[order[k]]  IN [bundle |-> b, tag |-> tags[b]]]

\* resource_cache once the app's bundles have been downloaded.
Downloaded(tags, conf) ==
  [b \in Bundles |-> IF b \in ToSet(conf) /\ tags[b] = 0 THEN Len(releases[b]) ELSE tags[b]]

Content(f) == <<f.bundle, releases[f.bundle][f.tag]>>

\* compute_pb_norm_hashes, in the order of patch_bundles.
NormHashes(fs) == [i \in 1 .. Len(fs) |-> Content(fs[i])]

\* The indices of fs by file name.
ByName(fs) == SortedBy([i \in 1 .. Len(fs) |-> Rank[fs[i].bundle][fs[i].tag]])

\* Mutant: hashes compared in the order of patch_bundles.
ArrangedAsTheyCome(hashes, fs) == hashes

\* Hashes by the name of their file.
Arranged(hashes, fs) ==
  LET order == ByName(fs)  IN [k \in 1 .. Len(fs) |-> hashes[order[k]]]

\* The part of get_build_hash that changes here.
BuildHash(e) == <<e.version, Arranged(NormHashes(e.files), e.files)>>

------------------------------------------------------------------------------
(* _detect_build_reason.                                                     *)

\* Mutant: only the first bundle is compared.
HashesMatchFirst(old, new) == old # <<>> /\ new # <<>> /\ old[1] = new[1]

\* Both lists are there and equal.
HashesMatch(old, new) == old # <<>> /\ new # <<>> /\ old = new

\* A build is needed for the bundles new configured by conf: vs and ss are the
\* entries its recorded versions and sources come from, old the recorded hashes.
BuildNeeded(vs, ss, old, new, conf) ==
  \/ vs.files = <<>> \/ ss.sources = <<>>
  \/ Len(vs.files) # Len(new) \/ Len(ss.sources) # Len(conf)
  \/ /\ \E i \in 1 .. Len(new) : ss.sources[i] # conf[i] \/ vs.files[i].tag # new[i].tag
     /\ ~HashesMatch(old, Arranged(NormHashes(new), new))

------------------------------------------------------------------------------
(* check_if_build_is_required.                                               *)

Goto(r, l) == at' = [at EXCEPT ![r] = l]

\* The end of a run, and of what its processes hold.
Reset(r) ==
  /\ todo' = [todo EXCEPT ![r] = <<>>] /\ needed' = [needed EXCEPT ![r] = <<>>]
  /\ seen' = [seen EXCEPT ![r] = NothingSeen]
  /\ cache' = [cache EXCEPT ![r] = NoCache] /\ files' = [files EXCEPT ![r] = <<>>]
  /\ older' = [older EXCEPT ![r] = NoRecord] /\ info' = [info EXCEPT ![r] = NoRecord]
  /\ built' = [built EXCEPT ![r] = FALSE]
  /\ Goto(r, "idle")

\* The schedule starts a run every hour, even if an earlier one is not done.
StartRun(r) ==
  /\ at[r] = "idle"
  /\ IF \A q \in Runs : at[q] = "idle" THEN UNCHANGED overlaps
     ELSE overlaps < MaxOverlaps /\ overlaps' = overlaps + 1
  /\ Goto(r, "versions") /\ todo' = [todo EXCEPT ![r] = AppOrder]
  /\ UNCHANGED <<world, record, needed, seen, cache, files, older, info, built, failures>>

\* get_last_version and get_last_version_source: one fetch of updates.json each.
Fetch(r, field, next) ==
  /\ at[r] = field
  /\ seen' = [seen EXCEPT ![r][field] = record[Head(todo[r])]]
  /\ Goto(r, next)
  /\ UNCHANGED <<world, record, todo, needed, cache, files, older, info, built, failures, overlaps>>

\* A fetch or a download that fails ends the check, and the run with it.
CheckFails(r) ==
  /\ at[r] \in {"versions", "sources", "resources", "hashes", "bundles"}
  /\ failures < MaxFailures /\ failures' = failures + 1
  /\ Reset(r)
  /\ UNCHANGED <<world, record, overlaps>>

\* download_patch_resources, with the cache of the process.
Resources(r) ==
  LET conf == config[Head(todo[r])]
      tags == Downloaded(cache[r], conf)
  IN  /\ at[r] = "resources"
      /\ cache' = [cache EXCEPT ![r] = tags]
      /\ files' = [files EXCEPT ![r] = Tagged(tags, conf, {b \in Bundles : cache[r][b] # 0})]
      /\ Goto(r, "hashes")
      /\ UNCHANGED <<world, record, todo, needed, seen, older, info, built, failures, overlaps>>

\* The recorded hashes, arranged by the names of the files recorded with them,
\* which are fetched only now and only when there are hashes.
OldHashes(r) ==
  LET hashes == NormHashes(seen[r].hashes.files)
  IN  IF hashes = <<>> THEN <<>> ELSE Arranged(hashes, record[Head(todo[r])].files)

\* The record went away, or shrank, between the two fetches.
Mismatched(r) ==
  LET n == Len(seen[r].hashes.files)
      m == Len(record[Head(todo[r])].files)
  IN  n > 0 /\ (m = 0 \/ n < m)

Decision(r) ==
  LET s == seen[r]
  IN  BuildNeeded(s.versions, s.sources, OldHashes(r), files[r], config[Head(todo[r])])

Decide(r) ==
  LET list == IF Decision(r) THEN Append(needed[r], Head(todo[r])) ELSE needed[r]
  IN  /\ at[r] = "bundles"
      /\ UNCHANGED <<world, record, failures, overlaps>>
      /\ IF Mismatched(r) \/ (Len(todo[r]) = 1 /\ list = <<>>)
         THEN Reset(r)
         ELSE /\ needed' = [needed EXCEPT ![r] = list]
              /\ todo' = [todo EXCEPT ![r] = Tail(@)]
              /\ seen' = [seen EXCEPT ![r] = NothingSeen]
              /\ files' = [files EXCEPT ![r] = <<>>]
              /\ Goto(r, IF Len(todo[r]) = 1 THEN "load" ELSE "versions")
              /\ UNCHANGED <<cache, older, info, built>>

------------------------------------------------------------------------------
(* main.                                                                     *)

\* load_older_updates: {} when updates.json cannot be had.
Load(r) ==
  /\ at[r] = "load"
  /\ \/ older' = [older EXCEPT ![r] = record] /\ UNCHANGED failures
     \/ /\ failures < MaxFailures /\ failures' = failures + 1
        /\ UNCHANGED older
  /\ info' = [info EXCEPT ![r] = older'[r]]
  /\ todo' = [todo EXCEPT ![r] = needed[r]] /\ needed' = [needed EXCEPT ![r] = <<>>]
  /\ cache' = [cache EXCEPT ![r] = NoCache]
  /\ Goto(r, "build")
  /\ UNCHANGED <<world, record, seen, files, built, overlaps>>

\* Mutant: another build hash starts a new count.
RevisionOfHash(previous, e) ==
  IF previous.version # e.version \/ BuildHash(previous) # BuildHash(e) THEN 0 ELSE previous.revision

\* get_build_revision
Revision(previous, e) ==
  IF previous.version # e.version THEN 0
  ELSE IF BuildHash(previous) = BuildHash(e) THEN previous.revision
  ELSE previous.revision + 1

\* save_patch_info
Entry(a, fs, previous) ==
  LET e == [files |-> fs, sources |-> config[a], version |-> offered[a], revision |-> 0]
  IN  [e EXCEPT !.revision = Revision(previous, e)]

\* process_single_app: the apps run in parallel, so which bundles another app
\* had cached is open.  An app that fails keeps its older entry.
Build(r) ==
  LET a == Head(todo[r])
      tags == Downloaded(cache[r], config[a])
  IN  /\ at[r] = "build" /\ todo[r] # <<>>
      /\ cache' = [cache EXCEPT ![r] = tags]
      /\ todo' = [todo EXCEPT ![r] = Tail(@)]
      /\ \/ /\ \E fs \in {Tagged(tags, config[a], cached) : cached \in SUBSET {b \in Bundles : cache[r][b] # 0}} :
                 info' = [info EXCEPT ![r][a] = Entry(a, fs, older[r][a])]
            /\ built' = [built EXCEPT ![r] = TRUE]
            /\ UNCHANGED failures
         \/ /\ failures < MaxFailures /\ failures' = failures + 1
            /\ UNCHANGED <<info, built>>
      /\ UNCHANGED <<world, record, at, needed, seen, files, older, overlaps>>

\* Mutant: what is pushed is the file that was loaded.
PushOlder(r) ==
  /\ at[r] = "build" /\ todo[r] = <<>>
  /\ record' = older[r]
  /\ Reset(r)
  /\ UNCHANGED <<world, failures, overlaps>>

\* The workflow verifies that an APK was patched: a run without one stops here,
\* also when main has left older entries in the file.
Verified(r) == built[r]

\* The last step of the workflow pushes the whole file, by force.
Push(r) ==
  /\ at[r] = "build" /\ todo[r] = <<>>
  /\ record' = IF Verified(r) THEN info[r] ELSE record
  /\ Reset(r)
  /\ UNCHANGED <<world, failures, overlaps>>

------------------------------------------------------------------------------
(* The world.                                                                *)

\* A release has new contents, or only new metadata.
Publish(b) ==
  /\ changes < MaxChanges /\ changes' = changes + 1
  /\ \E c \in {0, 1} : releases' = [releases EXCEPT ![b] = Append(@, Last(@) + c)]
  /\ UNCHANGED <<config, offered, record, at, todo, needed, seen, cache, files, older, info, built, failures, overlaps>>

Offer(a) ==
  /\ changes < MaxChanges /\ changes' = changes + 1
  /\ \E v \in AppVersions \ {offered[a]} : offered' = [offered EXCEPT ![a] = v]
  /\ UNCHANGED <<releases, config, record, at, todo, needed, seen, cache, files, older, info, built, failures, overlaps>>

\* The owner edits the configuration while no run is under way.
Configure(a) ==
  /\ changes < MaxChanges /\ changes' = changes + 1
  /\ \A r \in Runs : at[r] = "idle"
  /\ \E conf \in ToSet(Configs[a]) \ {config[a]} : config' = [config EXCEPT ![a] = conf]
  /\ UNCHANGED <<releases, offered, record, at, todo, needed, seen, cache, files, older, info, built, failures, overlaps>>

Advance(r) ==
  \/ StartRun(r) \/ Resources(r) \/ Decide(r) \/ Load(r) \/ Build(r) \/ Push(r)
  \/ Fetch(r, "versions", "sources") \/ Fetch(r, "sources", "resources")
  \/ Fetch(r, "hashes", "bundles")

Next ==
  \/ \E r \in Runs : Advance(r) \/ CheckFails(r)
  \/ \E b \in Bundles : Publish(b)
  \/ \E a \in Apps : Offer(a) \/ Configure(a)

Spec == Init /\ [][Next]_vars

\* The schedule keeps starting runs, and a run's jobs are carried out.
FairSpec == Spec /\ \A r \in Runs : WF_vars(Advance(r))

------------------------------------------------------------------------------
Contents(fs) == {Content(f) : f \in ToSet(fs)}

\* The entry records what is published for what is configured.
UpToDate(a) ==
  /\ ToSet(record[a].sources) = ToSet(config[a])
  /\ Contents(record[a].files) =
       {<<b, Last(releases[b])>> : b \in ToSet(config[a])}

\* Some file of old is of a later release than new's file of the same bundle.
Ahead(old, new) ==
  \E f \in ToSet(new), g \in ToSet(old) : f.bundle = g.bundle /\ f.tag < g.tag

\* What the check of an app saw is one and the same entry, e.
Saw(r, e) ==
  /\ at[r] = "bundles"
  /\ seen[r].versions = e /\ seen[r].sources = e /\ seen[r].hashes = e
  /\ record[Head(todo[r])] = e

\* The files of new have the contents of old's, and their bundles come in the
\* same order of file names.
SameOrderedContents(old, new) ==
  LET name(f) == Rank[f.bundle][f.tag]
  IN  /\ Contents(old) = Contents(new)
      /\ \A f, g \in ToSet(old), h, k \in ToSet(new) :
           f.bundle = h.bundle /\ g.bundle = k.bundle =>
             (name(f) < name(g) <=> name(h) < name(k))

\* The check does not ask for a build of what has been built: the same files,
\* in whatever order each process met them, or releases with new metadata only
\* whose file names sort as the recorded ones did, are no reason
\* (check_resource_updates.py 92-133, 176-190).  An app without bundles is
\* always built: its record is taken for none.
NoSpuriousRebuild ==
  \A r \in Runs : \A e \in {record[a] : a \in Apps} :
    /\ Saw(r, e) /\ e.files # <<>> /\ e.sources = config[Head(todo[r])]
    /\ SameOrderedContents(e.files, files[r])
    => ~Decision(r)

\* What "suppressing metadata-only rebuilds" promises (check_resource_updates.py
\* 182).  The code does not keep it: the digests that name the new files may sort
\* otherwise, and the hashes are compared in that order.  No run checks it.
MetadataIsNoReason ==
  \A r \in Runs : \A e \in {record[a] : a \in Apps} :
    /\ Saw(r, e) /\ e.files # <<>> /\ e.sources = config[Head(todo[r])]
    /\ Contents(e.files) = Contents(files[r])
    => ~Decision(r)

\* Nor does it leave out an app whose bundles have newer contents than those
\* recorded.  Versions are compared in the order of patch_bundles, which differs
\* between processes: a check that resolved its bundles before another run
\* recorded newer ones may take <<1, 2>> for <<1, 2>> the other way round.
NothingMissed ==
  \A r \in Runs : \A e \in {record[a] : a \in Apps} :
    Saw(r, e) /\ ~Ahead(e.files, files[r]) /\ Contents(e.files) # Contents(files[r])
      => Decision(r)

\* As long as a run pushes what it loaded, an app's revision tells its builds
\* of one version apart (utils.py 378-387).
RevisionsGrow ==
  [][\A r \in Runs : \A a \in Apps :
       Push(r) /\ older[r] = record /\ record[a].version = record'[a].version /\ record[a] # NoEntry =>
         /\ record'[a].revision >= record[a].revision
         /\ BuildHash(record[a]) # BuildHash(record'[a]) => record'[a].revision > record[a].revision]_vars

\* Once the world is quiet the record comes to agree with it and stays so,
\* whatever runs overlapped, lost each other's entries or failed before.
Settles == <>[](\A a \in Apps : UpToDate(a))
==============================================================================
