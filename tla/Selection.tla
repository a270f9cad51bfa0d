------------------------------- MODULE Selection -------------------------------
(***************************************************************************)
(* Which patches of which bundles an app is patched with, and the command  *)
(* line that says so: the patches kept from the bundles' listings          *)
(* (src/src/patches.py), the include and exclude requests with their       *)
(* bundle selectors (src/src/_bundle_selector.py), the options, and the    *)
(* assembly of the patcher's arguments (src/src/parser.py).                *)
(*                                                                         *)
(* Data.  A bundle is its file; app.bundles is the order in which the app  *)
(* lists them.  A listed patch is [name, packages, options], an option of  *)
(* it [key, title].  A request is [except, selector, name], a selector     *)
(* [kind, neg, lo, hi].  Loaded options map a patch name to a sequence of  *)
(* [key, value].                                                           *)
(***************************************************************************)
EXTENDS CliArgs

CONSTANTS
  Slug,        \* [names -> names], the lower-case dash-separated form of a name
  AllArchs,    \* possible_archs
  Env          \* the environment: [variable names -> values]

ASSUME SlugAssumption == \A n \in DOMAIN Slug : Slug[n] \in DOMAIN Slug /\ Slug[Slug[n]] = Slug[n]

\* Versions are numbers in the order of VersionSorter; three are special.
AllVersions == 0
Latest == -1
NoVersion == -2

------------------------------------------------------------------------------
(* The patches of an app: patches.py.                                        *)

PreferredVersion(versions) == IF versions = {} THEN AllVersions ELSE Max(versions)

PatchInfo(p, bundle, versions) ==
  [name |-> p.name, bundle |-> bundle, options |-> p.options, version |-> PreferredVersion(versions)]

\* One copy of a patch per bundle and matching package, in listing order; no
\* copy is dropped because another bundle has a patch of that name.
AppPatches(app, listed) ==
  LET Copies(b, p) == LET mine == SelectSeq(p.packages, LAMBDA k : k.name = app.package)
                      IN  [i \in DOMAIN mine |-> PatchInfo(p, b, mine[i].versions)]
      OfBundle(b)  == FlattenSeq([j \in DOMAIN listed[b] |-> Copies(b, listed[b][j])])
  IN  FlattenSeq([i \in DOMAIN app.bundles |-> OfBundle(app.bundles[i])])

UniversalPatches(app, listed) ==
  LET OfBundle(b) == LET u == SelectSeq(listed[b], LAMBDA p : p.packages = <<>>)
                     IN  [i \in DOMAIN u |-> PatchInfo(u[i], b, {})]
  IN  FlattenSeq([i \in DOMAIN app.bundles |-> OfBundle(app.bundles[i])])

\* The union the version fallback draws from.
CompatibleVersions(app, listed) ==
  UNION {k.versions : k \in {k \in UNION {Range(p.packages) : p \in UNION {Range(listed[b]) : b \in Range(app.bundles)}} :
                               k.name = app.package}}

\* Patches.get: the version of the first patch that names one.
RecommendedVersion(patches) ==
  LET named == SelectSeq(patches, LAMBDA p : p.version # AllVersions)
  IN  IF named = <<>> THEN Latest ELSE Head(named).version

AppVersion(app, patches) ==
  IF app.version = NoVersion THEN RecommendedVersion(patches) ELSE app.version

Experimental(app, patches) ==
  app.version # NoVersion /\ (app.version = Latest \/ app.version # RecommendedVersion(patches))

------------------------------------------------------------------------------
(* Requests: _bundle_selector.py and the checks of parser.py.                *)

SelectorMatches(s, index) ==
  s.kind # "bad" /\ s.neg # (s.kind = "star" \/ (s.lo <= index /\ index <= s.hi))

EntryMatches(e, name, index) ==
  e.name = name /\ (e.selector.kind = "none" \/ SelectorMatches(e.selector, index))

\* Deny the entries, or with an EXCEPT entry anywhere keep only the entries.
CheckExcludeRequest(requests, name, index) ==
  LET matched == \E e \in Range(requests) : EntryMatches(e, name, index)
  IN  IF \E e \in Range(requests) : e.except THEN matched ELSE ~matched

CheckName(app, p) == IF app.normalize THEN Slug[p.name] ELSE p.name

\* Mutant: positions counted from 0.
BundleIndexFromZero(app, bundle) == Max({i \in DOMAIN app.bundles : app.bundles[i] = bundle}) - 1

\* The position in app.bundles, the last one of a file listed twice.
BundleIndex(app, bundle) == Max({i \in DOMAIN app.bundles : app.bundles[i] = bundle})

IncludeRegular(app, p) ==
  CheckExcludeRequest(app.exclude, CheckName(app, p), BundleIndex(app, p.bundle))

\* A universal patch has to be asked for by its bare name.
IncludeUniversal(app, p) ==
  /\ \E e \in Range(app.include) : e.selector.kind = "none" /\ e.name = CheckName(app, p)
  /\ IncludeRegular(app, p)

------------------------------------------------------------------------------
(* Options.                                                                  *)

\* A file's options; a patch that sets none is left out.
Loaded(file) == Restrict(file, {n \in DOMAIN file : file[n] # <<>>})

\* Level by level; what a level says of a patch replaces all the lower said.
PatchOptions(app) ==
  LET ofFile == IF app.ownOptionsFile THEN Loaded(app.optionsFile) @@ Loaded(app.globalOptions)
                ELSE Loaded(app.globalOptions)
  IN  Loaded(app.optionsRaw) @@ ofFile

\* A false, zero or empty value is dropped; an environment reference is
\* replaced by the variable if it is set.
FormatOption(key, value) ==
  CASE value.kind = "falsy" -> <<key>>
    [] value.kind = "env" /\ value.text \in DOMAIN Env -> <<key, Env[value.text]>>
    [] OTHER -> <<key, value.text>>

\* The option of the patch that a loaded option names, by key or by title.
OptionOf(p, o) == SelectSeq(p.options, LAMBDA po : o.key \in {po.key, po.title})

------------------------------------------------------------------------------
(* The parser's lists.  An item is [arg, value]: the argument key whose      *)
(* flags come first and the name or option that follows.                     *)

NoPatches(app) ==
  [patches |-> <<>>, groups |-> [b \in Range(app.bundles) |-> <<>>], options |-> PatchOptions(app)]

Enable(name) == [arg |-> "ENABLED", value |-> <<name>>]
Disable(name) == [arg |-> "DISABLED", value |-> <<name>>]

\* Put in front, its options behind it, the last given first.  A loaded option
\* given by its title is rewritten to the key of this copy of the patch.
Include(st, p) ==
  LET given   == IF p.name \in DOMAIN st.options THEN st.options[p.name] ELSE <<>>
      Keyed(o) == [o EXCEPT !.key = OptionOf(p, o)[1].key]
      Known(o) == OptionOf(p, o) # <<>>
      keyed   == [i \in DOMAIN given |-> IF Known(given[i]) THEN Keyed(given[i]) ELSE given[i]]
      used    == SelectSeq(given, Known)
      Pair(o) == [arg |-> "OPTIONS", value |-> FormatOption(Keyed(o).key, o.value)]
      block   == <<Enable(p.name)>> \o Reverse([i \in DOMAIN used |-> Pair(used[i])])
  IN  [patches |-> block \o st.patches,
       groups  |-> [st.groups EXCEPT ![p.bundle] = block \o @],
       options |-> IF given = <<>> THEN st.options ELSE [st.options EXCEPT ![p.name] = keyed]]

\* Put at the end.
Exclude(st, p) ==
  [st EXCEPT !.patches = Append(@, Disable(p.name)), !.groups[p.bundle] = Append(@, Disable(p.name))]

IncludeExcludePatch(app, patches, universal) ==
  LET regular == FoldLeft(LAMBDA st, p : IF IncludeRegular(app, p) THEN Include(st, p) ELSE Exclude(st, p),
                          NoPatches(app), patches)
  IN  FoldLeft(LAMBDA st, p : IF IncludeUniversal(app, p) THEN Include(st, p) ELSE st, regular, universal)

\* CI: only the first enabled patch, without options, in the bundles that
\* enable it; nothing changes if none is enabled.
ExclusiveMode(st) ==
  LET enabled == SelectSeq(st.patches, LAMBDA it : it.arg = "ENABLED")
      first   == enabled[1]
  IN  IF enabled = <<>> THEN st
      ELSE [st EXCEPT !.patches = <<first>>,
                      !.groups  = [b \in DOMAIN @ |-> IF first \in Range(@[b]) THEN <<first>> ELSE <<>>]]

------------------------------------------------------------------------------
(* The command line.                                                         *)

\* Enable, disable and option flags are not matched with values as the other
\* arguments are: all flags, then the value.
EmitPatches(args, items) ==
  FlattenSeq([i \in DOMAIN items |->
    [j \in DOMAIN args[items[i].arg] |-> [text |-> args[items[i].arg][j], value |-> <<>>]]
    \o <<[text |-> Template("positional", items[i].arg), value |-> items[i].value]>>])

PatchBundle(args, b) == CliArgument(args["PATCHES"], <<<<b>>>>) \o CliArgument(args["PATCHES_POST"], <<>>)

\* With several bundles each bundle's patches follow its own argument.
PatchArguments(app, st) ==
  LET args == app.args
      Group(b) == PatchBundle(args, b) \o EmitPatches(args, st.groups[b])
  IN  IF Len(app.bundles) > 1
      THEN FlattenSeq([i \in DOMAIN app.bundles |-> Group(app.bundles[i])])
      ELSE FlattenSeq([i \in DOMAIN app.bundles |-> PatchBundle(args, app.bundles[i])])
           \o EmitPatches(args, st.patches)

\* Keep the wanted architectures or rip the others, whichever the profile has.
ArchitectureArgs(app) ==
  LET excluded == AllArchs \ Range(app.archs)
  IN  IF excluded = {} THEN <<>>
      ELSE IF IsArgEnabled(app.args["STRIPLIBS"]) THEN CliArgument(app.args["STRIPLIBS"], <<app.archs>>)
      ELSE IF IsArgEnabled(app.args["RIP_LIB"])
      THEN LET each == SetToSeq(excluded)
           IN  CliArgument(app.args["RIP_LIB"], [i \in DOMAIN each |-> <<each[i]>>])
      ELSE <<>>

\* The arguments of java for one app, ciTest in a test run.
PatchCommand(app, st, ciTest) ==
  LET Args(key, values) == CliArgument(app.args[key], values)
      kept == IF ciTest THEN ExclusiveMode(st) ELSE st
  IN  Args("CMD", <<>>) \o Args("APK", <<<<"input">>>>)
      \o PatchArguments(app, kept)
      \o Args("OUTPUT", <<<<"output">>>>) \o Args("KEYSTORE", <<<<"keystore">>>>) \o Args("FORCE", <<>>)
      \o (IF app.oldKey THEN Args("KEYSTORE_OLD", <<>>) ELSE <<>>)
      \o ArchitectureArgs(app)
      \o Args("TEMPORARY_FILES_PATH", <<<<"temporary">>>>)
      \o Args("PURGE", <<>>) \o Args("CONTINUE_ON_ERROR", <<>>) \o Args("BYTECODE_MODE", <<>>)

\* From the listings to the command.
Command(app, listed, ciTest) ==
  PatchCommand(app, IncludeExcludePatch(app, AppPatches(app, listed), UniversalPatches(app, listed)), ciTest)
==============================================================================
