------------------------------ MODULE Algorithms ------------------------------
(***************************************************************************)
(* Every case of the pure parts, one state per input: a case is chosen and *)
(* the properties compare what the code computes for it with what it is    *)
(* meant to compute.                                                       *)
(***************************************************************************)
EXTENDS SelectionPromises, PatchListing, ApkSources

VARIABLE case
vars == <<case>>

------------------------------------------------------------------------------
(* Inputs: argument overrides.                                               *)

Kinds == {"flag", "positional", "placeholder", "assign", "blank"}
Templates == UNION {{[i \in 1 .. n |-> Template(k[i], i)] : k \in [1 .. n -> Kinds]} : n \in 0 .. 3}
Assignments ==
  {[malformed |-> m, key |-> k, templates |-> <<Template("flag", x)>>] :
     m \in BOOLEAN, k \in {"FORCE", "PURGE", "NOKEY"}, x \in {"first", "second"}}
Overrides == {<<>>} \union {<<a>> : a \in Assignments} \union {<<a, b>> : a, b \in Assignments}
ValueSeqs == {<<>>, <<<<"v1">>>>, <<<<"v1">>, <<"v2">>>>, <<<<"v1">>, <<"v2">>, <<"v3">>>>}

ChooseOverrides ==
  \E global \in Overrides, app \in {<<>>} \union {<<a>> : a \in Assignments}, appProfile \in {"", "morphe"} :
     case' = [of |-> "overrides", global |-> global, app |-> app, appProfile |-> appProfile]

ChooseTemplates ==
  \E t \in Templates, v \in ValueSeqs : case' = [of |-> "templates", templates |-> t, values |-> v]

------------------------------------------------------------------------------
(* Inputs: patch selection.                                                  *)

Sel(kind, neg, lo, hi) == [kind |-> kind, neg |-> neg, lo |-> lo, hi |-> hi]
Selectors == {Sel("none", FALSE, 0, 0), Sel("star", FALSE, 0, 0), Sel("star", TRUE, 0, 0), Sel("range", FALSE, 2, 2),
              Sel("range", TRUE, 2, 2), Sel("range", FALSE, 1, 2), Sel("bad", FALSE, 0, 0)}
Entry(except, s, name) == [except |-> except, selector |-> s, name |-> name]

\* Requests of at most two entries, the first with or without EXCEPT.
Requests ==
  LET entries == {Entry(FALSE, s, n) : s \in Selectors, n \in {"hide-ads", "universal"}}
      Firsts(e) == {[e EXCEPT !.except = x] : x \in BOOLEAN}
  IN  {<<>>} \union UNION {{<<f>> : f \in Firsts(e)} : e \in entries}
      \union UNION {{<<f, e2>> : f \in Firsts(e1)} : e1, e2 \in entries}

Package(name, versions) == [name |-> name, versions |-> versions]
Opt(key, title) == [key |-> key, title |-> title]
Patch(name, packages, options) == [name |-> name, packages |-> packages, options |-> options]

ColourKey == <<Opt("colour", "Colour"), Opt("size", "Size")>>
Ours1 == <<Package("pkg", {1, 3}), Package("other", {2})>>

\* Two bundles that share patches, two whose copies differ in spelling or in the
\* keys of their options, and a single bundle.
Listings ==
  [same   |-> [b1 |-> <<Patch("hide-ads", Ours1, ColourKey), Patch("universal", <<>>, <<>>)>>,
               b2 |-> <<Patch("hide-ads", Ours1, ColourKey), Patch("theme", Ours1, <<>>),
                        Patch("elsewhere", <<Package("other", {2})>>, <<>>), Patch("universal", <<>>, <<>>)>>],
   spelt  |-> [b1 |-> <<Patch("Hide ads", <<Package("pkg", {})>>, ColourKey)>>,
               b2 |-> <<Patch("hide-ads", Ours1, <<Opt("tint", "Colour")>>), Patch("universal", <<>>, <<>>)>>],
   keyed  |-> [b1 |-> <<Patch("hide-ads", Ours1, ColourKey)>>,
               b2 |-> <<Patch("hide-ads", Ours1, <<Opt("tint", "Colour"), Opt("size", "Size")>>)>>],
   single |-> [b1 |-> <<Patch("theme", Ours1, ColourKey), Patch("hide-ads", <<Package("pkg", {2})>>, ColourKey),
                        Patch("universal", <<>>, ColourKey)>>]]

Value(kind, text) == [kind |-> kind, text |-> text]
Given(key, value) == [key |-> key, value |-> value]
NoOptions == [n \in {} |-> <<>>]
SomeOptions ==
  {NoOptions,
   [n \in {"hide-ads", "theme"} |->
      <<Given("Colour", Value("literal", "red")), Given("size", Value("env", "SIZE")), Given("unknown", Value("env", "UNSET"))>>],
   [n \in {"hide-ads", "universal"} |->
      IF n = "universal" THEN <<>> ELSE <<Given("size", Value("falsy", ""))>>]}

\* What the user configures, without the argument map.
Configured(l, normalize, exclude, include, version, global, own, raw, archs) ==
  [package |-> "pkg", bundles |-> IF l = "single" THEN <<"b1">> ELSE <<"b1", "b2">>,
   normalize |-> normalize, exclude |-> exclude, include |-> include, version |-> version,
   globalOptions |-> global, optionsFile |-> own, ownOptionsFile |-> own # NoOptions, optionsRaw |-> raw,
   archs |-> archs, oldKey |-> ~normalize]

PatchArgs(profile, ripLib) ==
  MergeCliArgs("patch", profile, "", IF ripLib THEN <<[malformed |-> FALSE, key |-> "RIP_LIB",
                                                       templates |-> <<Template("flag", "RIP_LIB")>>]>> ELSE <<>>, <<>>)

\* Requests vary with few options, options with few requests.
FewRequests == {<<>>, <<Entry(FALSE, Sel("range", FALSE, 2, 2), "hide-ads")>>}
Includes == {<<>>, <<Entry(FALSE, Sel("none", FALSE, 0, 0), "universal")>>,
             <<Entry(FALSE, Sel("range", FALSE, 2, 2), "universal")>>}
WithArgs(app, args) == app @@ [args |-> args]
Case(app, l, args, ci) == [of |-> "selection", app |-> WithArgs(app, args), listing |-> l, ci |-> ci]

ChooseRequests ==
  \E l \in DOMAIN Listings, normalize \in BOOLEAN, exclude \in Requests, include \in Includes, ci \in BOOLEAN :
     case' = Case(Configured(l, normalize, exclude, include, NoVersion, NoOptions, NoOptions, NoOptions, <<"arm64">>),
                  l, PatchArgs("morphe", FALSE), ci)

ChooseOptions ==
  \E l \in DOMAIN Listings, exclude \in FewRequests, include \in Includes, version \in {NoVersion, Latest, 1, 3},
     global, own, raw \in SomeOptions, archs \in {<<"arm64">>, <<"x86", "arm64">>}, ripLib \in BOOLEAN :
     case' = Case(Configured(l, TRUE, exclude, include, version, global, own, raw, archs),
                  l, PatchArgs("revanced", ripLib), FALSE)

------------------------------------------------------------------------------
(* Inputs: listings of up to two patches, after a line of noise.             *)

Text == <<"some", "words">>
PrintedOption(key, values) ==
  [name |-> <<<<"Custom", "icon">>>>, key |-> IF key THEN <<<<"customIcon">>>> ELSE <<<<"Custom", "icon">>>>,
   description |-> <<Text, <<>>, <<"Name", "it">>>>, required |-> ~key, default |-> <<<<"none">>>>, type |-> <<<<"String">>>>,
   values |-> values]
PrintedPatches(name, key) ==
  {[name |-> name, description |-> d, use |-> u, packages |-> p, options |-> o] :
     d \in {<<>>, <<Text>>, <<Text, <<>>, Text>>}, u \in BOOLEAN,
     p \in {<<>>, <<[name |-> <<"pkg">>, versions |-> <<"1", "2">>]>>,
            <<[name |-> <<"pkg">>, versions |-> <<>>], [name |-> <<"other">>, versions |-> <<"3">>]>>},
     o \in {<<>>, <<PrintedOption(key, <<>>)>>, <<PrintedOption(key, <<<<"a">>, <<"b">>>>), PrintedOption(key, <<>>)>>}}

ChooseListing ==
  \E dialect \in {"revanced", "morphe"} :
    \E first \in PrintedPatches(<<"Zebra">>, dialect = "morphe"), second \in PrintedPatches(<<"Apple", "pie">>, dialect = "morphe") :
      \E patches \in {<<first>>, <<first, second>>} :
        case' = [of |-> "listing", dialect |-> dialect, patches |-> patches]

------------------------------------------------------------------------------
(* Inputs: sites.                                                            *)

Word(kind, value) == [kind |-> kind, value |-> value]
Page(status, token, xapk, download, file) ==
  [status |-> status, button |-> TRUE, token |-> token, xapk |-> xapk, downloadVersion |-> download, file |-> file,
   transfer |-> "ok"]
Transfers == {"ok", "404", "error"}
Pages(file) ==
  {Page("404", FALSE, FALSE, FALSE, <<>>), Page("ok", FALSE, TRUE, TRUE, file)}
  \union {[Page("ok", TRUE, TRUE, TRUE, file) EXCEPT !.transfer = t] : t \in Transfers}
Variant(archs, span, url, file) == [archs |-> archs, span |-> span, url |-> url, file |-> file]
Rows ==
  {<<Word("arch", "x86"), Word("arch", "x86_64"), Word("anydpi", "nodpi")>>,
   <<Word("arch", "arm64-v8a"), Word("dpi", 480)>>,
   <<Word("arch", "arm64-v8a"), Word("arch", "armeabi-v7a"), Word("range", <<160, 640>>)>>,
   <<Word("arch", "universal"), Word("anydpi", "nodpi")>>}
NoArch == <<Word("arch", "noarch")>>
OfRow(row, file) == Variant(ParseArchs(row), Span(row), TRUE, file)
VariantsOf(v) == {OfRow(a, <<v, a>>) : a \in Rows}
Files(status, variants, transfer) == [status |-> status, variants |-> variants, transfer |-> transfer]
FilesOf(v) ==
  {Files("404", <<>>, "ok"), Files("error", <<>>, "ok")}
  \union {Files("ok", <<x, y>>, "ok") : x, y \in VariantsOf(v)}
  \union {Files("ok", <<OfRow(NoArch, <<v, NoArch>>)>>, t) : t \in Transfers}
  \union {Files("ok", <<[OfRow(NoArch, <<v, NoArch>>) EXCEPT !.url = FALSE]>>, "ok")}
ItemsOf(v) ==
  {[version |-> v, keyed |-> k, id |-> i, files |-> f, page |-> p, variantPage |-> q] :
     k, i \in BOOLEAN, f \in FilesOf(v), p \in Pages(<<v, <<Word("other", "page")>>>>), q \in Pages(<<v, <<Word("other", "-x")>>>>)}
Plain(v) == [version |-> v, keyed |-> TRUE, id |-> FALSE, files |-> Files("404", <<>>, "ok"),
             page |-> Page("ok", TRUE, FALSE, FALSE, <<v, <<Word("other", "page")>>>>), variantPage |-> Page("404", FALSE, FALSE, FALSE, <<>>)]

LatestOf(item) ==
  LET p == item.page
  IN  [status |-> p.status, button |-> p.button, token |-> p.token, xapk |-> p.xapk, downloadVersion |-> p.downloadVersion,
       file |-> p.file, transfer |-> p.transfer, files |-> item.files, variantPage |-> item.variantPage]

\* The asked version, 2, on the first or the second page, or nowhere.
ChooseUptoDown ==
  \E item \in ItemsOf(2), named \in BOOLEAN :
    \E pages \in {<<<<Plain(3), item>>>>, <<<<Plain(3)>>, <<item, Plain(1)>>>>, <<<<Plain(3)>>>>} :
      case' = [of |-> "uptodown", site |-> [name |-> named, pages |-> pages, latest |-> LatestOf(item)]]

Release(status, rows) == [status |-> status, rows |-> rows, transfer |-> "ok"]
MirrorRow(bundle, row, file) ==
  [archs |-> ParseArchs(row), span |-> Span(row), bundle |-> bundle, file |-> file]
ApksOf(v) == {MirrorRow(FALSE, a, <<v, a>>) : a \in Rows}
BundlesOf(v) == {MirrorRow(TRUE, a, <<v, a>>) : a \in Rows}
WithoutRows == {Release("404", <<>>), Release("error", <<>>), Release("no table", <<>>), Release("ok", <<>>)}
ReleasesOf(v) ==
  WithoutRows
  \union {Release("ok", rows) : rows \in (ApksOf(v) \union BundlesOf(v)) \X ApksOf(v)}
  \union {[Release("ok", <<x>>) EXCEPT !.transfer = t] : x \in BundlesOf(v), t \in Transfers}
Titled(title, address, beta, release) == [title |-> title, address |-> address, beta |-> beta, release |-> release]
Some(v) == Release("ok", <<MirrorRow(FALSE, NoArch, <<v, NoArch>>)>>)

\* Version 2 is asked for, or the ripped 2 made of it; 3, 2 and a beta of 4 are
\* listed, or 2 and 1, or the beta alone.
ChooseApkMirror ==
  \E release \in ReleasesOf(<<2>>), guess \in {Release("404", <<>>), Release("error", <<>>), Release("no table", <<>>), Some(<<2>>)} :
    \E rows \in {<<Titled(<<4>>, 4, TRUE, Some(<<4>>)), Titled(<<3>>, 3, FALSE, Some(<<3>>)), Titled(<<2>>, 2, FALSE, release)>>,
                  <<Titled(<<2>>, 2, FALSE, release), Titled(<<1>>, 1, FALSE, Some(<<1>>))>>,
                  <<Titled(<<4>>, 4, TRUE, Some(<<4>>))>>} :
      \E status \in {"ok", "missing"}, ripped \in BOOLEAN :
        case' = [of |-> "apkmirror", asked |-> [release |-> <<2>>, ripped |-> ripped],
                 site |-> [guess |-> guess, listing |-> [status |-> status, rows |-> rows]]]

NamedDensities == {"", "hdpi"}
BundleOf(splits) ==
  {[base |-> TRUE, modifier |-> ""], [base |-> FALSE, modifier |-> "en"]}
  \union {[base |-> FALSE, modifier |-> m] : m \in splits}

\* Bundles of a base, a language and up to three other splits.
ChooseBundle ==
  \E splits \in SUBSET (Archs \union {"hdpi", "xhdpi", "xxhdpi", "nodpi"}), archs \in {{}, {"arm64_v8a"}, {"arm64_v8a", "x86"}},
     dpi \in {0, 200, 420, 280}, density \in NamedDensities :
    /\ Cardinality(splits) <= 3
    /\ case' = [of |-> "bundle", device |-> [archs |-> archs, dpi |-> dpi, density |-> density],
                files |-> BundleOf(splits)]

------------------------------------------------------------------------------
Init == case = [of |-> "none"]
Next == /\ case.of = "none"
        /\ \/ ChooseOverrides \/ ChooseTemplates \/ ChooseRequests \/ ChooseOptions
           \/ ChooseListing \/ ChooseUptoDown \/ ChooseApkMirror \/ ChooseBundle
Spec == Init /\ [][Next]_vars

\* A command line gives every value once and in order, each with the template
\* it is meant for: the next one that takes a value, or the last for all that
\* is left.  A template takes it in its own token, a plain flag in the next.
ValuesInPlace(templates, values, out) ==
  LET last    == Len(templates)
      takers  == SelectSeq([i \in 1 .. last |-> i], LAMBDA i : i < last /\ Consumes(templates[i]))
      Meant(i) == templates[IF i <= Len(takers) THEN takers[i] ELSE last]
      carried == SelectSeq([p \in DOMAIN out |-> p], LAMBDA p : out[p].value # <<>>)
  IN  /\ [i \in DOMAIN carried |-> out[carried[i]].value] = values
      /\ \A i \in DOMAIN carried :
           LET p == carried[i]
               t == Meant(i)
           IN  IF Consumes(t) THEN out[p].text = t
               ELSE p > 1 /\ out[p].text = Template("positional", t.of) /\ <<out[p - 1]>> = Bare(t)

\* Every argument value reaches the command line with the template it is meant
\* for, among the others in their order, and no flag is lost; a key blanked out
\* by an override emits nothing, and the app's override beats the global one,
\* which beats the profile (cli_args.py 209-316).
ArgumentsAgree ==
  /\ case.of = "templates" =>
       LET out == CliArgument(case.templates, case.values)
           enabled == SelectSeq(case.templates, LAMBDA t : t.kind # "blank")
       IN  IF enabled = <<>> THEN out = <<>>
           ELSE /\ ValuesInPlace(enabled, case.values, out)
                /\ \A p \in 1 .. Len(out) - 1 : out[p].text.of <= out[p + 1].text.of
                /\ \A t \in Range(enabled) : t.kind = "flag" => \E p \in DOMAIN out : out[p].text = t
  /\ case.of = "overrides" =>
       LET args == MergeCliArgs("patch", "revanced", case.appProfile, case.global, case.app)
           Says(o, k) == {i \in DOMAIN o : ~o[i].malformed /\ o[i].key = k}
           Writer(k) == IF Says(case.app, k) # {} THEN case.app[Max(Says(case.app, k))].templates
                        ELSE IF Says(case.global, k) # {} THEN case.global[Max(Says(case.global, k))].templates
                        ELSE CliProfiles[IF case.appProfile = "" THEN "revanced" ELSE case.appProfile].patch[k]
       IN  args = [k \in PatchKeys |-> Writer(k)]

\* The command patches exactly the copies the requests select, in their
\* bundles, with the options of the highest level that says something of the
\* patch and the architectures asked for; a test run patches one name.  Include
\* requests count if they name no bundle.  Unless the configuration names a
\* version it is one that some patch of the app supports, and never
\* experimental.
SelectionAgrees ==
  case.of = "selection" =>
    LET listed == Listings[case.listing]
        app == case.app
        tokens == Command(app, listed, case.ci)
        patches == AppPatches(app, listed)
        compatible == CompatibleVersions(app, listed)
    IN  /\ IF case.ci THEN TestCommandAsPromised(AsRead(app), listed, tokens)
           ELSE CommandAsPromised(AsRead(app), listed, tokens)
        /\ app.version = NoVersion =>
             /\ ~Experimental(app, patches)
             /\ AppVersion(app, patches) \in IF compatible = {} THEN {Latest} ELSE compatible

\* The same without AsRead, as documented: selectors in include requests
\* (customize-patches.md 434-438) and options merged per key (326).  The code
\* keeps neither promise, and no run checks this.
SelectionAsDocumented ==
  case.of = "selection" /\ ~case.ci =>
    LET listed == Listings[case.listing]
    IN  CommandAsPromised(case.app, listed, Command(case.app, listed, FALSE))

\* What a CLI prints of its patches is read back as those patches, whatever
\* the dialect, the noise before and the lines that continue a field, as long
\* as none of these begins with a label.
ListingRoundTrips ==
  case.of = "listing" =>
    LET noise == <<Line("", TRUE, <<"Loading">>)>>
        read == ParseListing(noise \o PrintListing(case.dialect, case.patches))
    IN  /\ Range(read) = Range(case.patches)
        /\ \A i \in 1 .. Len(read) - 1 : NameRank[read[i].name] < NameRank[read[i + 1].name]

\* Whichever way the file is found it is of the version asked for; it is
\* reported as not found, for the fallback to step down, only if it is not
\* listed or is gone.
FoundVersion(r, version, listed, gone) ==
  /\ r.outcome = "downloaded" => r.file[1] = version
  /\ r.outcome = "not found" => ~listed \/ gone
  /\ ~listed => r.outcome # "downloaded"

\* No file on offer is for a preferred architecture where the chosen one is
\* not, or for more densities with as good an architecture.
Arm(row) == \E i \in DOMAIN row : row[i].kind = "arch" /\ row[i].value \in Preferred
NoneBetter(chosen, rows) ==
  ~\E row \in rows : /\ Arm(chosen) => Arm(row)
                     /\ (Arm(row) /\ ~Arm(chosen)) \/ Span(row) > Span(chosen)

\* The file is one of those offered, and its row the best of theirs.
BestOf(file, offered) ==
  /\ file \in {v.file : v \in offered}
  /\ NoneBetter(file[2], {v.file[2] : v \in offered})

\* UptoDown: the file is behind a page of the version or the best of its files.
\* The version is gone if a page of it, or the file behind one, answers 404.
Gone(p) == p.status = "404" \/ (p.status = "ok" /\ p.transfer = "404")
UptoDownAgrees(site, version) ==
  LET all  == UNION {Range(site.pages[i]) : i \in DOMAIN site.pages}
      its  == {x \in all : x.version = version}
      gone == \E x \in its : Gone(x.page) \/ Gone(x.variantPage)
      r    == UptoDownVersion(site, version)
  IN  /\ site.name => FoundVersion(r, version, its # {}, gone)
      /\ r.outcome = "downloaded" => \E x \in its :
           \/ \E p \in {x.page, x.variantPage} : p.status = "ok" /\ r.file = p.file
           \/ BestOf(r.file, Range(x.files.variants))
      /\ UptoDownLatest(site).outcome # "not found"

\* APKMirror: the best single APK, or bundle, of the guessed release or of one
\* whose title is the version; the latest has no title above its own.  A
\* version is listed if the first page has it or its guessed address shows a
\* release, whatever error that address ends in otherwise; it is gone if the
\* release page answers 404, not if the download after it does.
ApkMirrorAgrees(site, asked) ==
  LET rows == Range(site.listing.rows)
      its  == {x \in rows : x.title = asked.release}
      gone == \E x \in its : x.release.status = "404"
      r    == ApkMirrorVersion(site, asked)
      last == ApkMirrorLatest(site)
  IN  /\ FoundVersion(r, asked.release, its # {} \/ site.guess.status = "ok", gone)
      /\ r.outcome = "downloaded" => \E release \in {site.guess} \union {x.release : x \in its} :
           LET all  == Range(release.rows)
               apks == {v \in all : ~v.bundle}
           IN  BestOf(r.file, IF apks = {} THEN all ELSE apks)
      /\ last.outcome = "downloaded" =>
           \A x \in rows : ~x.beta => \A i \in 1 .. Len(x.title) : x.title[i] <= last.file[1][i]

\* A split for an architecture is kept if the device has it, one for a density
\* if it is the device's or nearer to it than every other, the lower of two as
\* near; a device that names no architecture gets everything.
Nearer(d, e, n) ==
  \/ Distance(d, n) < Distance(e, n)
  \/ Distance(d, n) = Distance(e, n) /\ DpiOf[d] < DpiOf[e]
Fits(f, device) ==
  \/ f.base \/ device.archs = {}
  \/ /\ f.modifier \in Archs => f.modifier \in device.archs
     /\ f.modifier \in DOMAIN DpiOf =>
          \/ f.modifier = device.density
          \/ device.dpi > 0 /\ \A d \in DOMAIN DpiOf \ {f.modifier} : Nearer(f.modifier, d, device.dpi)

BundleAgrees(files, device) == Repacked(files, device) = {f \in files : Fits(f, device)}

\* Whichever way a file is found it is of the version asked for, the best there
\* is for the preferred architectures, and of a bundle just what the device
\* needs (uptodown.py, apkmirror.py, variant_sorter.py, repack.py).
DownloadChoice ==
  /\ case.of = "uptodown" => UptoDownAgrees(case.site, 2)
  /\ case.of = "apkmirror" => ApkMirrorAgrees(case.site, case.asked)
  /\ case.of = "bundle" => BundleAgrees(case.files, case.device)
==============================================================================
