------------------------------ MODULE ApkSources ------------------------------
(***************************************************************************)
(* Finding the APK of a version on UptoDown and APKMirror, choosing one of *)
(* its variants (src/src/apks/variant_sorter.py), and keeping of a bundle  *)
(* of split APKs what a device needs (src/src/apks/repack.py).             *)
(*                                                                         *)
(* Data.  A page is a record of what the code looks for on it, its status  *)
(* and its transfer: how the request for the page ends, and the one for    *)
(* the file behind it ("ok", "404" or "error").  A search ends in a record *)
(* [outcome, file]: "downloaded" with the file, "not found" for the        *)
(* exception that makes the version fallback step down, "failed" for any   *)
(* other.                                                                  *)
(***************************************************************************)
EXTENDS Integers, FiniteSets, SequencesExt

Downloaded(file) == [outcome |-> "downloaded", file |-> file]
NotFound == [outcome |-> "not found", file |-> <<>>]
Failed == [outcome |-> "failed", file |-> <<>>]

------------------------------------------------------------------------------
(* Variants.  A row's words are [kind, value]: architectures, densities      *)
(* (nodpi and anydpi, a DPI or its name, a range) and others.                *)

Preferred == {"arm64-v8a", "noarch", "universal"}
Infinity == 10000

\* The architectures named, by their places in the row.
ParseArchs(row) == [i \in {i \in DOMAIN row : row[i].kind = "arch"} |-> row[i].value]

\* The width of the first density named; that of a single DPI is the DPI
\* itself, that of none at all is 0.
Span(row) ==
  LET densities == {i \in DOMAIN row : row[i].kind \in {"anydpi", "dpi", "range"}}
      d == row[Min(densities)]
  IN  IF densities = {} THEN 0
      ELSE CASE d.kind = "anydpi" -> Infinity
             [] d.kind = "dpi"    -> d.value
             [] d.kind = "range"  -> d.value[2] - d.value[1]

SortingKey(v) ==
  <<IF \E i \in DOMAIN v.archs : v.archs[i] \in Preferred THEN 1 ELSE 0, v.span, Cardinality(DOMAIN v.archs)>>

KeyAbove(k, l) ==
  \E i \in 1 .. 3 : k[i] > l[i] /\ \A j \in 1 .. i - 1 : k[j] = l[j]

\* Mutant: the wrong end of the list.
FirstBestWorst(variants, S) ==
  Min({i \in S : \A j \in S : ~KeyAbove(SortingKey(variants[i]), SortingKey(variants[j]))})

\* Of the variants at places S the first of a stable sort, best first.
FirstBest(variants, S) ==
  Min({i \in S : \A j \in S : ~KeyAbove(SortingKey(variants[j]), SortingKey(variants[i]))})

------------------------------------------------------------------------------
(* UptoDown: uptodown.py.                                                    *)

\* extract_download_link.  A generic page that only leads to the store app is
\* left for the variant page, and a variant page leads no further.  A 404 is
\* one whether the page answers it or the file.
ExtractDownloadLink(page, variantPage) ==
  LET Leads(p)  == p.status = "ok" /\ p.button /\ p.token
      Direct(p) == CASE p.status = "404"                     -> NotFound
                     [] Leads(p) /\ p.transfer = "404"       -> NotFound
                     [] Leads(p) /\ p.transfer = "ok"        -> Downloaded(p.file)
                     [] OTHER                                -> Failed
  IN  IF page.status = "ok" /\ page.button /\ ~page.token /\ page.xapk /\ page.downloadVersion
      THEN Direct(variantPage)
      ELSE Direct(page)

\* _select_best_variant: <<>> if the files interface knows of none.  No error
\* of this download is taken for a version that is not there.
SelectBestVariant(files) ==
  LET best == files.variants[FirstBest(files.variants, DOMAIN files.variants)]
  IN  CASE files.status = "404"   -> <<>>
        [] files.status = "error" -> <<Failed>>
        [] files.status = "ok" ->
             IF files.variants = <<>> \/ ~best.url THEN <<>>
             ELSE IF files.transfer = "ok" THEN <<Downloaded(best.file)>> ELSE <<Failed>>

\* What is done with the entry of the version.
UptoDownItem(item) ==
  LET variant == IF item.keyed /\ item.id THEN SelectBestVariant(item.files) ELSE <<>>
  IN  IF variant # <<>> THEN variant[1]
      ELSE IF item.keyed THEN ExtractDownloadLink(item.page, item.variantPage)
      ELSE ExtractDownloadLink(item.variantPage, item.variantPage)

\* specific_version: page after page until the version or a page without data.
UptoDownVersion(site, version) ==
  LET Has(i) == \E j \in DOMAIN site.pages[i] : site.pages[i][j].version = version
      pages  == {i \in DOMAIN site.pages : Has(i)}
      page   == site.pages[Min(pages)]
      item   == page[Min({j \in DOMAIN page : page[j].version = version})]
  IN  IF ~site.name THEN Failed
      ELSE IF pages = {} THEN NotFound
      ELSE UptoDownItem(item)

\* latest_version.
UptoDownLatest(site) ==
  LET page == site.latest
      variant == IF site.name /\ page.button /\ page.downloadVersion THEN SelectBestVariant(page.files) ELSE <<>>
      direct == ExtractDownloadLink(page, page.variantPage)
  IN  IF page.status # "ok" THEN Failed
      ELSE IF variant # <<>> THEN variant[1]
      ELSE IF direct = NotFound THEN Failed ELSE direct

------------------------------------------------------------------------------
(* APKMirror: apkmirror.py.  A title is a sequence of numbers, which stand    *)
(* for its characters; a version is [release, ripped], the number 0 in a     *)
(* title standing for the suffix "-ripped" of the versions that have it.     *)

Suffix == <<0>>

\* _version_matches_title: the version, or its upstream's, is part of the title.
InTitle(version, title) ==
  LET Part(v) == \E i \in 1 .. Len(title) : i + Len(v) - 1 <= Len(title) /\ SubSeq(title, i, i + Len(v) - 1) = v
  IN  Part(version.release) \/ (version.ripped /\ Part(version.release \o Suffix))

\* get_download_page, single APKs before bundles, and extract_download_link_for_app:
\* after the release page not even a 404 makes the fallback step down.
DownloadPage(release) ==
  LET Of(bundle) == {i \in DOMAIN release.rows : release.rows[i].bundle = bundle}
      BestOf(bundle) == Downloaded(release.rows[FirstBest(release.rows, Of(bundle))].file)
  IN  CASE release.status = "404"   -> NotFound
        [] release.status = "error" -> Failed
        [] release.status = "no table" -> Failed
        [] release.status = "ok" ->
             IF release.transfer # "ok" THEN Failed
             ELSE IF Of(FALSE) # {} THEN BestOf(FALSE)
             ELSE IF Of(TRUE) # {} THEN BestOf(TRUE)
             ELSE Failed

\* _find_specific_version_page and specific_version: the guessed address if it
\* leads to a table of variants, or else the first row with such a title.
ApkMirrorVersion(site, version) ==
  LET rows == site.listing.rows
      found == {i \in DOMAIN rows : InTitle(version, rows[i].title)}
  IN  IF site.guess.status = "ok" THEN DownloadPage(site.guess)
      ELSE IF site.listing.status # "ok" THEN Failed
      ELSE IF found = {} THEN NotFound
      ELSE DownloadPage(rows[Min(found)].release)

\* latest_version: the stable row with the greatest address.
ApkMirrorLatest(site) ==
  LET stable == {i \in DOMAIN site.listing.rows : ~site.listing.rows[i].beta}
      chosen == site.listing.rows[CHOOSE i \in stable : \A j \in stable : site.listing.rows[i].address >= site.listing.rows[j].address]
  IN  IF site.listing.status # "ok" \/ stable = {} THEN Failed
      ELSE DownloadPage(chosen.release)

------------------------------------------------------------------------------
(* Repacking.  A file of a bundle is [base, modifier], modifier "" if its    *)
(* name shows none; a device [archs, density], density "" if not given.      *)

Archs == {"armeabi", "armeabi_v7a", "arm64_v8a", "x86", "x86_64", "mips", "mips64"}
Densities == {"ldpi", "mdpi", "tvdpi", "hdpi", "xhdpi", "xxhdpi", "xxxhdpi", "anydpi", "nodpi"}
DpiOf == [ldpi |-> 120, mdpi |-> 160, tvdpi |-> 213, hdpi |-> 240, xhdpi |-> 320, xxhdpi |-> 480, xxxhdpi |-> 640]

Distance(d, n) == IF DpiOf[d] > n THEN DpiOf[d] - n ELSE n - DpiOf[d]

\* The nearest density, the lower of two as near.
DpiModifier(n) ==
  LET nearest == {d \in DOMAIN DpiOf : \A e \in DOMAIN DpiOf : Distance(d, n) <= Distance(e, n)}
  IN  CHOOSE d \in nearest : \A e \in nearest : DpiOf[d] <= DpiOf[e]

AllowedDensities(device) ==
  {"nodpi", "anydpi"}
  \union (IF device.dpi > 0 THEN {DpiModifier(device.dpi)} ELSE {})
  \union ({device.density} \intersect Densities)

ShouldKeep(modifier, archs, densities) ==
  CASE modifier \in Archs -> modifier \in archs
    [] modifier \in Densities -> modifier \in densities
    [] OTHER -> TRUE

\* The files kept; all of them if the device names no architecture.
Repacked(files, device) ==
  IF device.archs = {} THEN files
  ELSE {f \in files : f.base \/ f.modifier = "" \/ ShouldKeep(f.modifier, device.archs, AllowedDensities(device))}
==============================================================================
