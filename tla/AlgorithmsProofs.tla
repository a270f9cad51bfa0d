--------------------------- MODULE AlgorithmsProofs ---------------------------
(***************************************************************************)
(* That the APKs found are the ones asked for, whatever the sites offer.   *)
(***************************************************************************)
EXTENDS Algorithms, FiniteSetTheorems, SequenceTheorems, WellFoundedInduction, TLAPS

------------------------------------------------------------------------------
(* Least and greatest.                                                       *)

\* A set of numbers that has 0 and, with a number, the next one has them all.
LEMMA Induct ==
  ASSUME NEW S, 0 \in S, \A n \in Nat : n \in S => n + 1 \in S
  PROVE  Nat \subseteq S
<1> SUFFICES ASSUME Nat \ S # {}  PROVE FALSE
  OBVIOUS
<1> DEFINE R == {p \in Nat \X Nat : p[1] < p[2]}
<1>1. IsWellFoundedOn(R, Nat)
  BY NatLessThanWellFounded DEF OpToRel
<1>2. PICK x \in Nat \ S : \A y \in Nat \ S : <<y, x>> \notin R
  <2> HIDE DEF R
  <2>. QED BY <1>1, WFMin
<1>3. x # 0
  OBVIOUS
<1>4. x - 1 \in Nat \ S
  BY <1>3
<1>5. <<x - 1, x>> \in R
  BY <1>3
<1>. QED BY <1>2, <1>4, <1>5

\* Of finitely many places one has the greatest number.
LEMMA Greatest ==
  ASSUME NEW n \in Nat, NEW S \in SUBSET (1 .. n), S # {}, NEW f, \A i \in S : f[i] \in Int
  PROVE  \E i \in S : \A j \in S : f[j] <= f[i]
<1> DEFINE Has(T) == \E i \in T : \A j \in T : f[j] <= f[i]
           Good == {m \in Nat : \A T \in SUBSET S : T # {} /\ T \subseteq 1 .. m => Has(T)}
<1>1. 0 \in Good
  <2>1. \A T : T \subseteq 1 .. 0 => T = {}
    OBVIOUS
  <2>. QED BY <2>1
<1>2. ASSUME NEW m \in Nat, m \in Good  PROVE m + 1 \in Good
  <2> SUFFICES ASSUME NEW T \in SUBSET S, T # {}, T \subseteq 1 .. m + 1  PROVE Has(T)
    OBVIOUS
  <2>1. CASE T \subseteq 1 .. m
    BY <1>2, <2>1
  <2>2. CASE T = {m + 1}
    BY <2>2
  <2>3. CASE m + 1 \in T /\ T \ {m + 1} # {}
    <3> DEFINE U == T \ {m + 1}
    <3>1. U # {} /\ U \subseteq 1 .. m /\ U \in SUBSET S
      BY <2>3
    <3>2. Has(U)
      BY <1>2, <3>1
    <3>3. PICK i \in U : \A j \in U : f[j] <= f[i]
      BY <3>2
    <3>4. CASE f[m + 1] <= f[i]
      BY <3>3, <3>4
    <3>5. CASE f[i] <= f[m + 1]
      <4>1. \A j \in T : f[j] <= f[m + 1]
        BY <3>3, <3>5, <2>3
      <4>. QED BY <4>1, <2>3
    <3>. QED BY <3>4, <3>5, <2>3
  <2>. QED BY <2>1, <2>2, <2>3
<1>3. n \in Good
  <2> HIDE DEF Good
  <2>. QED BY <1>1, <1>2, Induct
<1>. QED BY <1>3

\* The first of some places is one of them, and none of them is before it.
LEMMA First ==
  ASSUME NEW n \in Nat, NEW S \in SUBSET (1 .. n), S # {}
  PROVE  Min(S) \in S /\ \A i \in S : Min(S) <= i
<1> DEFINE f == [i \in S |-> -i]
<1>1. \E i \in S : \A j \in S : f[j] <= f[i]
  <2>1. \A i \in S : f[i] \in Int
    OBVIOUS
  <2> HIDE DEF f
  <2>. QED BY <2>1, Greatest
<1>2. \E i \in S : \A j \in S : i =< j
  BY <1>1
<1>. QED BY <1>2 DEF Min
------------------------------------------------------------------------------
(* Variants.                                                                 *)

\* The words of a row: a density is a number, or a range two of them.
IsRow(row) ==
  /\ Len(row) \in Nat /\ DOMAIN row = 1 .. Len(row)
  /\ \A i \in DOMAIN row : /\ row[i].kind = "dpi" => row[i].value \in Int
                           /\ row[i].kind = "range" => row[i].value[1] \in Int /\ row[i].value[2] \in Int

\* A variant says of its file what the file's row does.
ReadFromRow(v) ==
  LET row == v.file[2] IN IsRow(row) /\ v.archs = ParseArchs(row) /\ v.span = Span(row)

\* Finitely many variants.
AreVariants(variants) ==
  /\ Len(variants) \in Nat /\ variants = [i \in 1 .. Len(variants) |-> variants[i]]
  /\ \A i \in DOMAIN variants : ReadFromRow(variants[i])

LEMMA SpanIsInt ==
  ASSUME NEW row, IsRow(row)
  PROVE  Span(row) \in Int
<1> DEFINE densities == {i \in DOMAIN row : row[i].kind \in {"anydpi", "dpi", "range"}}
<1>1. CASE densities = {}
  BY <1>1 DEF Span
<1>2. CASE densities # {}
  <2>1. Min(densities) \in densities
    BY <1>2, First DEF IsRow
  <2> DEFINE d == row[Min(densities)]
  <2>2. /\ d.kind \in {"anydpi", "dpi", "range"}
        /\ d.kind = "dpi" => d.value \in Int
        /\ d.kind = "range" => d.value[1] \in Int /\ d.value[2] \in Int
    BY <2>1 DEF IsRow
  <2>3. Span(row) = CASE d.kind = "anydpi" -> Infinity
                      [] d.kind = "dpi"    -> d.value
                      [] d.kind = "range"  -> d.value[2] - d.value[1]
    BY <1>2 DEF Span
  <2> HIDE DEF d
  <2>. QED BY <2>2, <2>3 DEF Infinity
<1>. QED BY <1>1, <1>2

LEMMA KeyOfRow ==
  ASSUME NEW v, ReadFromRow(v)
  PROVE  /\ Cardinality(DOMAIN v.archs) \in Nat
         /\ SortingKey(v) = <<IF Arm(v.file[2]) THEN 1 ELSE 0, Span(v.file[2]), Cardinality(DOMAIN v.archs)>>
<1> DEFINE row == v.file[2]
           named == {i \in DOMAIN row : row[i].kind = "arch"}
<1>1. v.archs = [i \in named |-> row[i].value]
  BY DEF ReadFromRow, ParseArchs
<1>2. Cardinality(DOMAIN v.archs) \in Nat
  <2>1. named \subseteq 1 .. Len(row) /\ Len(row) \in Nat
    BY DEF ReadFromRow, IsRow
  <2>2. \A n \in Nat : IsFiniteSet(1 .. n)
    BY FS_Interval
  <2> HIDE DEF row, named
  <2>3. IsFiniteSet(named)
    BY <2>1, <2>2, FS_Subset, Zenon
  <2>. QED BY <1>1, <2>3, FS_CardinalityType
<1>3. (\E i \in DOMAIN v.archs : v.archs[i] \in Preferred) <=> Arm(row)
  BY <1>1 DEF Arm
<1>. QED BY <1>2, <1>3 DEF SortingKey, ReadFromRow

\* Keys are compared from the left.
LEMMA KeyAboveIs ==
  ASSUME NEW a, NEW b, NEW c, NEW x, NEW y, NEW z, a \in Int, b \in Int, c \in Int, x \in Int, y \in Int, z \in Int
  PROVE  KeyAbove(<<a, b, c>>, <<x, y, z>>) <=> (a > x \/ (a = x /\ (b > y \/ (b = y /\ c > z))))
<1>1. 1 .. 3 = {1, 2, 3} /\ 1 .. 1 - 1 = {} /\ 1 .. 2 - 1 = {1} /\ 1 .. 3 - 1 = {1, 2}
  OBVIOUS
<1>. QED BY <1>1 DEF KeyAbove

\* Some variant has no key above its own.
LEMMA BestExists ==
  ASSUME NEW variants, AreVariants(variants), NEW S \in SUBSET DOMAIN variants, S # {}
  PROVE  \E i \in S : \A j \in S : ~KeyAbove(SortingKey(variants[j]), SortingKey(variants[i]))
<1> DEFINE n == Len(variants)
           Arms == [i \in S |-> IF Arm(variants[i].file[2]) THEN 1 ELSE 0]
           Spans == [i \in S |-> Span(variants[i].file[2])]
           Counts == [i \in S |-> Cardinality(DOMAIN variants[i].archs)]
<1>1. n \in Nat /\ S \in SUBSET (1 .. n) /\ \A i \in S : ReadFromRow(variants[i])
  BY DEF AreVariants
<1>2. \A i \in S : /\ Arms[i] \in Int /\ Spans[i] \in Int /\ Counts[i] \in Int
                   /\ SortingKey(variants[i]) = <<Arms[i], Spans[i], Counts[i]>>
  <2> SUFFICES ASSUME NEW i \in S
               PROVE  /\ Arms[i] \in Int /\ Spans[i] \in Int /\ Counts[i] \in Int
                      /\ SortingKey(variants[i]) = <<Arms[i], Spans[i], Counts[i]>>
    OBVIOUS
  <2>1. ReadFromRow(variants[i])
    BY <1>1
  <2>2. Span(variants[i].file[2]) \in Int
    BY <2>1, SpanIsInt DEF ReadFromRow
  <2>. QED BY <2>1, <2>2, KeyOfRow
<1> HIDE DEF n, Arms, Spans, Counts
<1>3. PICK a \in S : \A j \in S : Arms[j] <= Arms[a]
  BY <1>1, <1>2, Greatest
<1> DEFINE S1 == {i \in S : Arms[i] = Arms[a]}
<1>4. S1 # {} /\ S1 \in SUBSET (1 .. n) /\ \A i \in S1 : Spans[i] \in Int
  BY <1>1, <1>2
<1>5. PICK b \in S1 : \A j \in S1 : Spans[j] <= Spans[b]
  <2> HIDE DEF S1
  <2>. QED BY <1>1, <1>4, Greatest
<1> DEFINE S2 == {i \in S1 : Spans[i] = Spans[b]}
<1>6. S2 # {} /\ S2 \in SUBSET (1 .. n) /\ \A i \in S2 : Counts[i] \in Int
  BY <1>2, <1>4
<1>7. PICK c \in S2 : \A j \in S2 : Counts[j] <= Counts[c]
  <2> HIDE DEF S2
  <2>. QED BY <1>1, <1>6, Greatest
<1>8. c \in S
  OBVIOUS
<1>9. ASSUME NEW j \in S  PROVE ~KeyAbove(SortingKey(variants[j]), SortingKey(variants[c]))
  <2>1. /\ Arms[c] = Arms[a] /\ Spans[c] = Spans[b] /\ Arms[j] <= Arms[c]
        /\ Arms[j] = Arms[c] => Spans[j] <= Spans[c]
        /\ Arms[j] = Arms[c] /\ Spans[j] = Spans[c] => Counts[j] <= Counts[c]
    BY <1>3, <1>5, <1>7
  <2>2. /\ Arms[j] \in Int /\ Spans[j] \in Int /\ Counts[j] \in Int
        /\ Arms[c] \in Int /\ Spans[c] \in Int /\ Counts[c] \in Int
    BY <1>2, <1>8
  <2>3. ~KeyAbove(<<Arms[j], Spans[j], Counts[j]>>, <<Arms[c], Spans[c], Counts[c]>>)
    BY <2>1, <2>2, KeyAboveIs
  <2>. QED BY <2>3, <1>2, <1>8
<1>. QED BY <1>8, <1>9

\* The variant chosen is one of those given, and no other is better.
LEMMA BestIsBest ==
  ASSUME NEW variants, AreVariants(variants), NEW S \in SUBSET DOMAIN variants, S # {}
  PROVE  LET best == FirstBest(variants, S)
         IN  best \in S /\ NoneBetter(variants[best].file[2], {variants[i].file[2] : i \in S})
<1> DEFINE tops == {i \in S : \A j \in S : ~KeyAbove(SortingKey(variants[j]), SortingKey(variants[i]))}
           best == FirstBest(variants, S)
<1>1. best \in tops
  <2>1. tops # {} /\ tops \in SUBSET (1 .. Len(variants)) /\ Len(variants) \in Nat
    BY BestExists DEF AreVariants
  <2>2. best = Min(tops)
    BY DEF FirstBest
  <2> HIDE DEF tops, best
  <2>. QED BY <2>1, <2>2, First
<1>2. best \in S
  BY <1>1
<1> HIDE DEF best
<1>3. ASSUME NEW j \in S
      PROVE  LET chosen == variants[best].file[2]
                 row == variants[j].file[2]
             IN  ~(/\ Arm(chosen) => Arm(row)
                   /\ (Arm(row) /\ ~Arm(chosen)) \/ Span(row) > Span(chosen))
  <2>1. ~KeyAbove(SortingKey(variants[j]), SortingKey(variants[best]))
    BY <1>1
  <2>2. ReadFromRow(variants[j]) /\ ReadFromRow(variants[best])
    BY <1>2 DEF AreVariants
  <2>3. Span(variants[j].file[2]) \in Int /\ Span(variants[best].file[2]) \in Int
    BY <2>2, SpanIsInt DEF ReadFromRow
  <2>4. /\ Cardinality(DOMAIN variants[j].archs) \in Nat
        /\ Cardinality(DOMAIN variants[best].archs) \in Nat
        /\ SortingKey(variants[j]) = <<IF Arm(variants[j].file[2]) THEN 1 ELSE 0, Span(variants[j].file[2]), Cardinality(DOMAIN variants[j].archs)>>
        /\ SortingKey(variants[best]) = <<IF Arm(variants[best].file[2]) THEN 1 ELSE 0, Span(variants[best].file[2]), Cardinality(DOMAIN variants[best].archs)>>
    BY <2>2, KeyOfRow
  <2> DEFINE aj == IF Arm(variants[j].file[2]) THEN 1 ELSE 0
             ab == IF Arm(variants[best].file[2]) THEN 1 ELSE 0
  <2>5. ~(aj > ab \/ (aj = ab /\ Span(variants[j].file[2]) > Span(variants[best].file[2])))
    BY <2>1, <2>3, <2>4, KeyAboveIs
  <2>. QED BY <2>5
<1>4. NoneBetter(variants[best].file[2], {variants[i].file[2] : i \in S})
  BY <1>3 DEF NoneBetter
<1>. QED BY <1>2, <1>4 DEF best

------------------------------------------------------------------------------
(* UptoDown.                                                                 *)

Statuses == {"404", "error", "ok"}

\* What a page leads to, and what the files interface lists, is of version v.
IsPage(p, v) == p.status \in Statuses /\ (p.status = "ok" => p.file[1] = v)
AreFiles(files, v) ==
  /\ files.status \in Statuses /\ AreVariants(files.variants)
  /\ \A i \in DOMAIN files.variants : files.variants[i].file[1] = v

\* A site that keeps under an entry what belongs to the version of the entry.
IsItem(x) == IsPage(x.page, x.version) /\ IsPage(x.variantPage, x.version) /\ AreFiles(x.files, x.version)
IsUptoDown(site) ==
  /\ Len(site.pages) \in Nat /\ DOMAIN site.pages = 1 .. Len(site.pages)
  /\ \A i \in DOMAIN site.pages :
       /\ Len(site.pages[i]) \in Nat /\ DOMAIN site.pages[i] = 1 .. Len(site.pages[i])
       /\ \A j \in DOMAIN site.pages[i] : IsItem(site.pages[i][j])
  /\ \E v : AreFiles(site.latest.files, v)

LEMMA Outcomes ==
  /\ Failed.outcome = "failed" /\ NotFound.outcome = "not found"
  /\ \A f : Downloaded(f).outcome = "downloaded" /\ Downloaded(f).file = f
BY DEF Failed, NotFound, Downloaded

\* Downloaded, if at all, the file of that version; the exception that makes
\* the fallback step down comes of a page, or a file behind one, that is gone.
LEMMA ExtractGives ==
  ASSUME NEW p, NEW q, NEW v, IsPage(p, v), IsPage(q, v)
  PROVE  LET r == ExtractDownloadLink(p, q)
         IN  \/ r = Failed
             \/ r = NotFound /\ (Gone(p) \/ Gone(q))
             \/ \E w \in {p, q} : w.status = "ok" /\ r = Downloaded(w.file)
<1> DEFINE Leads(w)  == w.status = "ok" /\ w.button /\ w.token
           Direct(w) == CASE w.status = "404"                     -> NotFound
                          [] Leads(w) /\ w.transfer = "404"       -> NotFound
                          [] Leads(w) /\ w.transfer = "ok"        -> Downloaded(w.file)
                          [] OTHER                                -> Failed
<1>1. ASSUME NEW w
      PROVE  \/ Direct(w) = Failed
             \/ Direct(w) = NotFound /\ Gone(w)
             \/ w.status = "ok" /\ Direct(w) = Downloaded(w.file)
  BY DEF Gone
<1>2. ExtractDownloadLink(p, q) \in {Direct(p), Direct(q)}
  BY DEF ExtractDownloadLink
<1> HIDE DEF Direct
<1>. QED BY <1>1, <1>2 DEF IsPage

LEMMA SelectGives ==
  ASSUME NEW files, NEW v, AreFiles(files, v), SelectBestVariant(files) # <<>>
  PROVE  LET r == SelectBestVariant(files)[1]
         IN  \/ r = Failed
             \/ \E f : r = Downloaded(f) /\ f[1] = v /\ BestOf(f, Range(files.variants))
<1> DEFINE variants == files.variants
           b == FirstBest(variants, DOMAIN variants)
<1>1. CASE files.status = "error"
  BY <1>1 DEF SelectBestVariant
<1>2. CASE files.status = "ok" /\ variants # <<>> /\ files.transfer = "ok"
  <2>1. AreVariants(variants) /\ \A i \in DOMAIN variants : variants[i].file[1] = v
    BY DEF AreFiles
  <2>2. DOMAIN variants # {}
    BY <2>1, <1>2 DEF AreVariants
  <2>3. b \in DOMAIN variants /\ NoneBetter(variants[b].file[2], {variants[i].file[2] : i \in DOMAIN variants})
    BY <2>1, <2>2, BestIsBest
  <2> HIDE DEF b
  <2>4. {x.file[2] : x \in Range(variants)} = {variants[i].file[2] : i \in DOMAIN variants}
    BY DEF Range
  <2>5. variants[b].file \in {x.file : x \in Range(variants)}
    BY <2>3 DEF Range
  <2>6. SelectBestVariant(files)[1] = Downloaded(variants[b].file)
    BY <1>2 DEF SelectBestVariant, b
  <2>7. BestOf(variants[b].file, Range(variants))
    BY <2>3, <2>4, <2>5 DEF BestOf
  <2>. QED BY <2>1, <2>3, <2>6, <2>7
<1>3. CASE files.status = "404" \/ (files.status = "ok" /\ variants = <<>>)
  BY <1>3 DEF SelectBestVariant
<1>4. CASE files.status = "ok" /\ variants # <<>> /\ files.transfer # "ok"
  <2>1. SelectBestVariant(files) = <<Failed>>
    BY <1>4 DEF SelectBestVariant
  <2>. QED BY <2>1
<1>. QED BY <1>1, <1>2, <1>3, <1>4 DEF AreFiles, Statuses

LEMMA ItemGives ==
  ASSUME NEW x, IsItem(x)
  PROVE  LET r == UptoDownItem(x)
         IN  \/ r = Failed
             \/ r = NotFound /\ (Gone(x.page) \/ Gone(x.variantPage))
             \/ \E f : /\ r = Downloaded(f) /\ f[1] = x.version
                      /\ \/ \E p \in {x.page, x.variantPage} : p.status = "ok" /\ f = p.file
                         \/ BestOf(f, Range(x.files.variants))
<1> DEFINE s == SelectBestVariant(x.files)
<1>1. \/ s # <<>> /\ UptoDownItem(x) = s[1]
      \/ UptoDownItem(x) = ExtractDownloadLink(x.page, x.variantPage)
      \/ UptoDownItem(x) = ExtractDownloadLink(x.variantPage, x.variantPage)
  BY DEF UptoDownItem
<1>2. AreFiles(x.files, x.version) /\ IsPage(x.page, x.version) /\ IsPage(x.variantPage, x.version)
  BY DEF IsItem
<1>3. CASE s # <<>> /\ UptoDownItem(x) = s[1]
  BY <1>2, <1>3, SelectGives
<1>4. CASE UptoDownItem(x) = ExtractDownloadLink(x.page, x.variantPage)
  BY <1>2, <1>4, ExtractGives DEF IsPage
<1>5. CASE UptoDownItem(x) = ExtractDownloadLink(x.variantPage, x.variantPage)
  BY <1>2, <1>5, ExtractGives DEF IsPage
<1>. QED BY <1>1, <1>3, <1>4, <1>5

\* A version is found on the first page that lists it, at its first entry.
LEMMA VersionGives ==
  ASSUME NEW site, NEW version, IsUptoDown(site),
         \E i \in DOMAIN site.pages : \E j \in DOMAIN site.pages[i] : site.pages[i][j].version = version,
         site.name
  PROVE  \E i \in DOMAIN site.pages : \E j \in DOMAIN site.pages[i] :
           /\ site.pages[i][j].version = version
           /\ UptoDownVersion(site, version) = UptoDownItem(site.pages[i][j])
<1> DEFINE pages == {i \in DOMAIN site.pages : \E j \in DOMAIN site.pages[i] : site.pages[i][j].version = version}
           i == Min(pages)
           items == {j \in DOMAIN site.pages[i] : site.pages[i][j].version = version}
           j == Min(items)
<1>1. i \in pages
  <2>1. pages # {} /\ pages \in SUBSET (1 .. Len(site.pages)) /\ Len(site.pages) \in Nat
    BY DEF IsUptoDown
  <2> HIDE DEF pages
  <2>. QED BY <2>1, First
<1>2. j \in items
  <2>1. items # {} /\ items \in SUBSET (1 .. Len(site.pages[i])) /\ Len(site.pages[i]) \in Nat
    BY <1>1 DEF IsUptoDown
  <2> HIDE DEF items
  <2>. QED BY <2>1, First
<1>3. UptoDownVersion(site, version) = UptoDownItem(site.pages[i][j])
  <2>1. pages # {}
    BY <1>1
  <2>. QED BY <2>1 DEF UptoDownVersion
<1> HIDE DEF i, j
<1>. QED BY <1>1, <1>2, <1>3

\* The version asked of UptoDown, whatever the site offers (uptodown.py).
THEOREM UptoDownFindsTheVersion ==
  ASSUME NEW site, NEW version, IsUptoDown(site)
  PROVE  UptoDownAgrees(site, version)
<1> DEFINE all == UNION {Range(site.pages[i]) : i \in DOMAIN site.pages}
           its == {x \in all : x.version = version}
           gone == \E x \in its : Gone(x.page) \/ Gone(x.variantPage)
           r == UptoDownVersion(site, version)
           known == \E x \in its :
                      \/ \E p \in {x.page, x.variantPage} : p.status = "ok" /\ r.file = p.file
                      \/ BestOf(r.file, Range(x.files.variants))
<1>1. /\ site.name => FoundVersion(r, version, its # {}, gone)
      /\ r.outcome = "downloaded" => known
  <2>1. CASE ~site.name
    <3>1. r = Failed
      BY <2>1 DEF UptoDownVersion
    <3> HIDE DEF r
    <3>. QED BY <2>1, <3>1, Outcomes
  <2>2. CASE site.name /\ its = {}
    <3>1. \A i \in DOMAIN site.pages : \A j \in DOMAIN site.pages[i] : site.pages[i][j].version # version
      BY <2>2 DEF Range
    <3>2. r = NotFound
      BY <2>2, <3>1 DEF UptoDownVersion
    <3> HIDE DEF r
    <3>. QED BY <2>2, <3>2, Outcomes DEF FoundVersion
  <2>3. CASE site.name /\ its # {}
    <3>1. \E i \in DOMAIN site.pages : \E j \in DOMAIN site.pages[i] : site.pages[i][j].version = version
      BY <2>3 DEF Range
    <3>2. PICK x \in its : r = UptoDownItem(x)
      BY <2>3, <3>1, VersionGives DEF Range
    <3>3. IsItem(x)
      BY <3>2 DEF IsUptoDown, Range
    <3>4. x.version = version
      BY <3>2
    <3>5. ASSUME NEW f, r = Downloaded(f)
          PROVE  r.outcome = "downloaded" /\ r.file = f
      <4> HIDE DEF r
      <4>. QED BY <3>5, Outcomes
    <3>6. \/ r = Failed
          \/ r = NotFound /\ (Gone(x.page) \/ Gone(x.variantPage))
          \/ \E f : /\ r = Downloaded(f) /\ f[1] = x.version
                   /\ \/ \E p \in {x.page, x.variantPage} : p.status = "ok" /\ f = p.file
                      \/ BestOf(f, Range(x.files.variants))
      BY <3>2, <3>3, ItemGives
    <3> HIDE DEF r
    <3>7. CASE r = Failed
      BY <3>7, Outcomes DEF FoundVersion
    <3>8. CASE r = NotFound /\ (Gone(x.page) \/ Gone(x.variantPage))
      <4>1. gone
        BY <3>2, <3>8
      <4>. QED BY <4>1, <3>8, Outcomes DEF FoundVersion
    <3>9. ASSUME NEW f, r = Downloaded(f), f[1] = x.version,
                 \/ \E p \in {x.page, x.variantPage} : p.status = "ok" /\ f = p.file
                 \/ BestOf(f, Range(x.files.variants))
          PROVE  FoundVersion(r, version, its # {}, gone) /\ known
      <4>1. known
        BY <3>2, <3>5, <3>9
      <4>. QED BY <4>1, <2>3, <3>4, <3>5, <3>9 DEF FoundVersion
    <3>. QED BY <3>6, <3>7, <3>8, <3>9
  <2>. QED BY <2>1, <2>2, <2>3
<1>2. UptoDownLatest(site).outcome # "not found"
  <2> DEFINE page == site.latest
             s == SelectBestVariant(page.files)
             direct == ExtractDownloadLink(page, page.variantPage)
  <2>1. \/ UptoDownLatest(site) = Failed
        \/ s # <<>> /\ UptoDownLatest(site) = s[1]
        \/ direct # NotFound /\ UptoDownLatest(site) = direct
    BY DEF UptoDownLatest
  <2>2. s # <<>> => s[1].outcome # "not found"
    <3>1. PICK v : AreFiles(page.files, v)
      BY DEF IsUptoDown
    <3>2. ASSUME s # <<>>  PROVE s[1] = Failed \/ \E f : s[1] = Downloaded(f)
      BY <3>1, <3>2, SelectGives
    <3> HIDE DEF s
    <3>. QED BY <3>2, Outcomes
  <2>3. direct # NotFound => direct.outcome # "not found"
    <3>1. direct \in {NotFound, Failed} \/ \E f : direct = Downloaded(f)
      BY DEF ExtractDownloadLink
    <3> HIDE DEF direct
    <3>. QED BY <3>1, Outcomes
  <2> HIDE DEF s, direct
  <2>. QED BY <2>1, <2>2, <2>3, Outcomes
<1>. QED BY <1>1, <1>2 DEF UptoDownAgrees

------------------------------------------------------------------------------
(* APKMirror.                                                                *)

\* A release page that offers files of version v.
IsRelease(release, v) ==
  /\ release.status \in Statuses \union {"no table"} /\ AreVariants(release.rows)
  /\ \A i \in DOMAIN release.rows : release.rows[i].bundle \in BOOLEAN /\ release.rows[i].file[1] = v

\* A site where the asked version is part of no other version's title, and
\* whose addresses are in the order of the titles.
IsMirror(site, asked) ==
  LET rows == site.listing.rows IN
  /\ IsRelease(site.guess, asked.release)
  /\ Len(rows) \in Nat /\ DOMAIN rows = 1 .. Len(rows)
  /\ \A i \in DOMAIN rows :
       /\ IsRelease(rows[i].release, rows[i].title) /\ rows[i].address \in Int
       /\ InTitle(asked, rows[i].title) <=> rows[i].title = asked.release
  /\ \A i, j \in DOMAIN rows :
       ~rows[i].beta /\ ~rows[j].beta /\ rows[i].address <= rows[j].address
         => \A k \in 1 .. Len(rows[i].title) : rows[i].title[k] <= rows[j].title[k]

\* Single APKs before bundles.
Offered(release) ==
  LET all  == Range(release.rows)
      apks == {v \in all : ~v.bundle}
  IN  IF apks = {} THEN all ELSE apks

LEMMA BestOfPlaces ==
  ASSUME NEW rows, AreVariants(rows), NEW S \in SUBSET DOMAIN rows, S # {}
  PROVE  LET file == rows[FirstBest(rows, S)].file
         IN  file \in {rows[i].file : i \in S} /\ BestOf(file, {rows[i] : i \in S})
<1> DEFINE b == FirstBest(rows, S)
           offered == {rows[i] : i \in S}
<1>1. b \in S /\ NoneBetter(rows[b].file[2], {rows[i].file[2] : i \in S})
  BY BestIsBest
<1> HIDE DEF b
<1>2. {v.file[2] : v \in offered} = {rows[i].file[2] : i \in S}
  OBVIOUS
<1>3. rows[b].file \in {v.file : v \in offered}
  BY <1>1
<1>4. BestOf(rows[b].file, offered)
  BY <1>1, <1>2, <1>3 DEF BestOf
<1>. QED BY <1>1, <1>4 DEF b

LEMMA PageGives ==
  ASSUME NEW release, NEW v, IsRelease(release, v)
  PROVE  LET r == DownloadPage(release)
         IN  \/ r = Failed
             \/ r = NotFound /\ release.status = "404"
             \/ release.status = "ok" /\ \E f : r = Downloaded(f) /\ f[1] = v /\ BestOf(f, Offered(release))
<1> DEFINE rows == release.rows
           Of(bundle) == {i \in DOMAIN rows : rows[i].bundle = bundle}
           Best(S) == Downloaded(rows[FirstBest(rows, S)].file)
<1>1. /\ AreVariants(rows) /\ release.status \in {"404", "error", "ok", "no table"}
      /\ \A i \in DOMAIN rows : rows[i].bundle \in BOOLEAN /\ rows[i].file[1] = v
  BY DEF IsRelease, Statuses
<1>2. ASSUME NEW S \in SUBSET DOMAIN rows, S # {}, Offered(release) = {rows[i] : i \in S}
      PROVE  \E f : Best(S) = Downloaded(f) /\ f[1] = v /\ BestOf(f, Offered(release))
  <2> DEFINE file == rows[FirstBest(rows, S)].file
  <2>1. file \in {rows[i].file : i \in S} /\ BestOf(file, {rows[i] : i \in S})
    BY <1>1, <1>2, BestOfPlaces
  <2>2. Best(S) = Downloaded(file)
    OBVIOUS
  <2> HIDE DEF file, Best
  <2>. QED BY <1>1, <1>2, <2>1, <2>2
<1>3. CASE release.status = "404"
  BY <1>3 DEF DownloadPage
<1>4. CASE release.status \in {"error", "no table"}
  BY <1>4 DEF DownloadPage
<1>5. CASE release.status = "ok" /\ release.transfer = "ok" /\ Of(FALSE) # {}
  <2>1. DownloadPage(release) = Best(Of(FALSE))
    BY <1>5 DEF DownloadPage
  <2>2. Offered(release) = {rows[i] : i \in Of(FALSE)}
    <3>1. {x \in Range(rows) : ~x.bundle} = {rows[i] : i \in Of(FALSE)}
      BY <1>1 DEF Range
    <3>. QED BY <1>5, <3>1 DEF Offered
  <2> HIDE DEF Best
  <2>. QED BY <1>2, <1>5, <2>1, <2>2
<1>6. CASE release.status = "ok" /\ release.transfer = "ok" /\ Of(FALSE) = {} /\ Of(TRUE) # {}
  <2>1. DownloadPage(release) = Best(Of(TRUE))
    BY <1>6 DEF DownloadPage
  <2>2. Offered(release) = {rows[i] : i \in Of(TRUE)}
    <3>1. {x \in Range(rows) : ~x.bundle} = {} /\ Range(rows) = {rows[i] : i \in Of(TRUE)}
      BY <1>1, <1>6 DEF Range
    <3>. QED BY <3>1 DEF Offered
  <2> HIDE DEF Best
  <2>. QED BY <1>2, <1>6, <2>1, <2>2
<1>7. CASE release.status = "ok" /\ Of(FALSE) = {} /\ Of(TRUE) = {}
  BY <1>7 DEF DownloadPage
<1>8. CASE release.status = "ok" /\ release.transfer # "ok"
  BY <1>8 DEF DownloadPage
<1> HIDE DEF Of
<1>. QED BY <1>1, <1>3, <1>4, <1>5, <1>6, <1>7, <1>8

\* The release looked at is the guessed one or one whose title is the version.
LEMMA MirrorGives ==
  ASSUME NEW site, NEW asked, IsMirror(site, asked)
  PROVE  LET r   == ApkMirrorVersion(site, asked)
             its == {x \in Range(site.listing.rows) : x.title = asked.release}
         IN  \/ site.guess.status = "ok" /\ r = DownloadPage(site.guess)
             \/ r = Failed
             \/ site.guess.status # "ok" /\ its = {} /\ r = NotFound
             \/ \E x \in its : r = DownloadPage(x.release)
<1> DEFINE rows == site.listing.rows
           found == {i \in DOMAIN rows : InTitle(asked, rows[i].title)}
           its == {x \in Range(rows) : x.title = asked.release}
           r == ApkMirrorVersion(site, asked)
<1>1. found = {i \in DOMAIN rows : rows[i].title = asked.release}
  BY DEF IsMirror
<1>2. CASE found = {}
  <2>1. its = {}
    BY <1>1, <1>2 DEF Range
  <2>. QED BY <1>2, <2>1 DEF ApkMirrorVersion
<1>3. CASE found # {}
  <2>1. found \in SUBSET (1 .. Len(rows)) /\ Len(rows) \in Nat
    BY DEF IsMirror
  <2>2. Min(found) \in found
    <3> HIDE DEF found
    <3>. QED BY <1>3, <2>1, First
  <2>3. rows[Min(found)] \in its
    BY <1>1, <2>2 DEF Range
  <2>4. \/ site.guess.status = "ok" /\ r = DownloadPage(site.guess)
        \/ r = Failed
        \/ r = DownloadPage(rows[Min(found)].release)
    BY <1>3 DEF ApkMirrorVersion
  <2>. QED BY <2>3, <2>4
<1>. QED BY <1>2, <1>3

\* The version asked of APKMirror, whatever the site offers (apkmirror.py).
THEOREM ApkMirrorFindsTheVersion ==
  ASSUME NEW site, NEW asked, IsMirror(site, asked)
  PROVE  ApkMirrorAgrees(site, asked)
<1> DEFINE rows == site.listing.rows
           its  == {x \in Range(rows) : x.title = asked.release}
           gone == \E x \in its : x.release.status = "404"
           r    == ApkMirrorVersion(site, asked)
           last == ApkMirrorLatest(site)
           listed == its # {} \/ site.guess.status = "ok"
           known == \E release \in {site.guess} \union {x.release : x \in its} : BestOf(r.file, Offered(release))
<1>1. /\ FoundVersion(r, asked.release, listed, gone)
      /\ r.outcome = "downloaded" => known
  <2>1. \/ site.guess.status = "ok" /\ r = DownloadPage(site.guess)
        \/ r = Failed
        \/ site.guess.status # "ok" /\ its = {} /\ r = NotFound
        \/ \E x \in its : r = DownloadPage(x.release)
    BY MirrorGives
  <2>2. \A x \in its : IsRelease(x.release, asked.release)
    BY DEF IsMirror, Range
  <2>3. ASSUME NEW release \in {site.guess} \union {x.release : x \in its}, r = DownloadPage(release), listed,
               release.status = "404" => gone
        PROVE  FoundVersion(r, asked.release, listed, gone) /\ (r.outcome = "downloaded" => known)
    <3>1. IsRelease(release, asked.release)
      BY <2>2 DEF IsMirror
    <3>2. \/ r = Failed
          \/ r = NotFound /\ release.status = "404"
          \/ release.status = "ok" /\ \E f : r = Downloaded(f) /\ f[1] = asked.release /\ BestOf(f, Offered(release))
      BY <2>3, <3>1, PageGives
    <3> HIDE DEF r
    <3>3. CASE r = Failed
      BY <2>3, <3>3, Outcomes DEF FoundVersion
    <3>4. CASE r = NotFound /\ release.status = "404"
      BY <2>3, <3>4, Outcomes DEF FoundVersion
    <3>5. ASSUME NEW f, r = Downloaded(f), f[1] = asked.release, BestOf(f, Offered(release))
          PROVE  FoundVersion(r, asked.release, listed, gone) /\ known
      <4>1. r.outcome = "downloaded" /\ r.file = f
        BY <3>5, Outcomes
      <4>. QED BY <2>3, <3>5, <4>1 DEF FoundVersion
    <3>. QED BY <3>2, <3>3, <3>4, <3>5
  <2>4. CASE site.guess.status = "ok" /\ r = DownloadPage(site.guess)
    BY <2>3, <2>4
  <2>5. CASE r = Failed
    <3> HIDE DEF r
    <3>. QED BY <2>5, Outcomes DEF FoundVersion
  <2>6. CASE site.guess.status # "ok" /\ its = {} /\ r = NotFound
    <3> HIDE DEF r
    <3>. QED BY <2>6, Outcomes DEF FoundVersion
  <2>7. ASSUME NEW x \in its, r = DownloadPage(x.release)
        PROVE  FoundVersion(r, asked.release, listed, gone) /\ (r.outcome = "downloaded" => known)
    BY <2>3, <2>7
  <2>. QED BY <2>1, <2>4, <2>5, <2>6, <2>7
<1>2. last.outcome = "downloaded" =>
        \A x \in Range(rows) : ~x.beta => \A k \in 1 .. Len(x.title) : x.title[k] <= last.file[1][k]
  <2> DEFINE stable == {i \in DOMAIN rows : ~rows[i].beta}
             Top(i) == \A j \in stable : rows[i].address >= rows[j].address
             c == CHOOSE i \in stable : Top(i)
  <2>1. CASE site.listing.status # "ok" \/ stable = {}
    <3>1. last = Failed
      BY <2>1 DEF ApkMirrorLatest
    <3> HIDE DEF last
    <3>. QED BY <3>1, Outcomes
  <2>2. CASE site.listing.status = "ok" /\ stable # {}
    <3>1. \E i \in stable : Top(i)
      <4> DEFINE f == [i \in stable |-> rows[i].address]
      <4>1. stable \in SUBSET (1 .. Len(rows)) /\ Len(rows) \in Nat /\ \A i \in stable : f[i] \in Int
        BY DEF IsMirror
      <4>2. \E i \in stable : \A j \in stable : f[j] <= f[i]
        <5> HIDE DEF stable, f
        <5>. QED BY <2>2, <4>1, Greatest
      <4>. QED BY <4>1, <4>2
    <3>2. c \in stable /\ Top(c)
      <4> HIDE DEF Top, stable
      <4>. QED BY <3>1
    <3>3. last = DownloadPage(rows[c].release)
      BY <2>2 DEF ApkMirrorLatest
    <3> HIDE DEF c
    <3>4. last.outcome = "downloaded" => last.file[1] = rows[c].title
      <4>1. IsRelease(rows[c].release, rows[c].title)
        BY <3>2 DEF IsMirror
      <4>2. \/ last = Failed \/ last = NotFound
            \/ \E f : last = Downloaded(f) /\ f[1] = rows[c].title
        <5> HIDE DEF last
        <5>. QED BY <3>3, <4>1, PageGives
      <4> HIDE DEF last
      <4>. QED BY <4>2, Outcomes
    <3> HIDE DEF last
    <3>5. ASSUME NEW i \in stable
          PROVE  \A k \in 1 .. Len(rows[i].title) : rows[i].title[k] <= rows[c].title[k]
      <4>1. rows[i].address <= rows[c].address
        BY <3>2 DEF IsMirror
      <4>. QED BY <3>2, <4>1 DEF IsMirror
    <3>6. ASSUME NEW x \in Range(rows), ~x.beta
          PROVE  \A k \in 1 .. Len(x.title) : x.title[k] <= rows[c].title[k]
      <4>1. PICK i \in DOMAIN rows : x = rows[i]
        BY DEF Range
      <4>. QED BY <3>5, <3>6, <4>1
    <3>. QED BY <3>4, <3>6
  <2>. QED BY <2>1, <2>2
<1>. QED BY <1>1, <1>2 DEF ApkMirrorAgrees, Offered

------------------------------------------------------------------------------
(* Repacking.                                                                *)

\* One density is nearer than every other.
LEMMA Nearest ==
  ASSUME NEW n \in Int
  PROVE  \E d \in DOMAIN DpiOf : \A e \in DOMAIN DpiOf \ {d} : Nearer(d, e, n)
<1> DEFINE names == <<"ldpi", "mdpi", "tvdpi", "hdpi", "xhdpi", "xxhdpi", "xxxhdpi">>
           f == [i \in 1 .. 7 |-> -(1000 * Distance(names[i], n) + DpiOf[names[i]])]
<1>1. /\ DOMAIN DpiOf = {names[i] : i \in 1 .. 7}
      /\ \A i \in 1 .. 7 : DpiOf[names[i]] \in Int /\ 0 <= DpiOf[names[i]] /\ DpiOf[names[i]] <= 999
      /\ \A i, j \in 1 .. 7 : DpiOf[names[i]] = DpiOf[names[j]] => names[i] = names[j]
  BY 1 .. 7 = {1, 2, 3, 4, 5, 6, 7} DEF DpiOf
<1> HIDE DEF names
<1>2. ASSUME NEW i \in 1 .. 7  PROVE Distance(names[i], n) \in Int
  BY <1>1 DEF Distance
<1>3. \A i \in 1 .. 7 : f[i] \in Int
  BY <1>1, <1>2
<1>4. PICK i \in 1 .. 7 : \A j \in 1 .. 7 : f[j] <= f[i]
  <2> HIDE DEF f
  <2>. QED BY <1>3, Greatest, 1 .. 7 # {}
<1>5. ASSUME NEW j \in 1 .. 7, names[j] # names[i]  PROVE Nearer(names[i], names[j], n)
  <2>1. f[j] <= f[i] /\ f[i] \in Int /\ f[j] \in Int
    BY <1>3, <1>4
  <2>2. 1000 * Distance(names[i], n) + DpiOf[names[i]] <= 1000 * Distance(names[j], n) + DpiOf[names[j]]
    BY <1>1, <1>2, <2>1
  <2>. QED BY <1>1, <1>2, <1>5, <2>2 DEF Nearer
<1>. QED BY <1>1, <1>5

\* The modifier looked for is that density.
LEMMA ModifierIsNearest ==
  ASSUME NEW n \in Int, NEW d \in DOMAIN DpiOf
  PROVE  d = DpiModifier(n) <=> \A e \in DOMAIN DpiOf \ {d} : Nearer(d, e, n)
<1>1. \A e \in DOMAIN DpiOf : DpiOf[e] \in Int /\ Distance(e, n) \in Int
  BY DEF DpiOf, Distance
<1> DEFINE nearest == {x \in DOMAIN DpiOf : \A e \in DOMAIN DpiOf : Distance(x, n) <= Distance(e, n)}
           Lowest(x) == \A e \in nearest : DpiOf[x] <= DpiOf[e]
<1>2. PICK best \in DOMAIN DpiOf : \A e \in DOMAIN DpiOf \ {best} : Nearer(best, e, n)
  BY Nearest
<1>3. ASSUME NEW x \in DOMAIN DpiOf  PROVE (x \in nearest /\ Lowest(x)) <=> x = best
  BY <1>1, <1>2 DEF Nearer
<1>4. DpiModifier(n) = best
  <2>1. DpiModifier(n) = CHOOSE x \in nearest : Lowest(x)
    BY DEF DpiModifier
  <2>2. nearest \subseteq DOMAIN DpiOf
    OBVIOUS
  <2> HIDE DEF nearest, Lowest
  <2>. QED BY <1>3, <2>1, <2>2
<1>. QED BY <1>1, <1>2, <1>4 DEF Nearer

\* A bundle is cut down to what the device needs (repack.py).
THEOREM BundleKeepsWhatFits ==
  ASSUME NEW files, NEW device, device.dpi \in Int
  PROVE  BundleAgrees(files, device)
<1>1. CASE device.archs = {}
  BY <1>1 DEF BundleAgrees, Repacked, Fits
<1>2. CASE device.archs # {}
  <2> DEFINE Kept(f) == f.base \/ f.modifier = "" \/ ShouldKeep(f.modifier, device.archs, AllowedDensities(device))
  <2>1. ASSUME NEW f  PROVE Kept(f) <=> Fits(f, device)
    <3>1. /\ "" \notin Archs /\ "" \notin DOMAIN DpiOf
          /\ Densities = DOMAIN DpiOf \union {"nodpi", "anydpi"}
          /\ Archs \intersect Densities = {}
          /\ "nodpi" \notin DOMAIN DpiOf /\ "anydpi" \notin DOMAIN DpiOf
      BY DEF Archs, Densities, DpiOf
    <3>2. CASE f.modifier \in Archs
      BY <1>2, <3>1, <3>2 DEF ShouldKeep, Fits
    <3>3. CASE f.modifier \in DOMAIN DpiOf
      <4>1. f.modifier \in AllowedDensities(device) <=>
              \/ f.modifier = device.density
              \/ device.dpi > 0 /\ f.modifier = DpiModifier(device.dpi)
        BY <3>1, <3>3 DEF AllowedDensities
      <4>2. ShouldKeep(f.modifier, device.archs, AllowedDensities(device)) <=> f.modifier \in AllowedDensities(device)
        BY <3>1, <3>3 DEF ShouldKeep
      <4>3. f.modifier \notin Archs /\ f.modifier # ""
        BY <3>1, <3>3
      <4>. QED BY <1>2, <3>3, <4>1, <4>2, <4>3, ModifierIsNearest DEF Fits
    <3>4. CASE f.modifier \in {"nodpi", "anydpi"}
      BY <1>2, <3>1, <3>4 DEF ShouldKeep, AllowedDensities, Fits
    <3>5. CASE f.modifier \notin Archs \union Densities
      BY <1>2, <3>1, <3>5 DEF ShouldKeep, Fits
    <3>. QED BY <3>1, <3>2, <3>3, <3>4, <3>5
  <2>2. Repacked(files, device) = {f \in files : Kept(f)}
    BY <1>2 DEF Repacked
  <2> HIDE DEF Kept
  <2>. QED BY <2>1, <2>2 DEF BundleAgrees
<1>. QED BY <1>1, <1>2

------------------------------------------------------------------------------
(* Requests.                                                                 *)

\* Entries whose selectors parse to one of four kinds, a star or a range
\* negated or not; EXCEPT stands in front of the first entry, if anywhere.
AreRequests(requests) ==
  /\ Len(requests) \in Nat /\ requests = [j \in 1 .. Len(requests) |-> requests[j]]
  /\ \A j \in DOMAIN requests :
       LET s == requests[j].selector
       IN  /\ s.kind \in {"none", "star", "range", "bad"} /\ s.neg \in BOOLEAN /\ s.lo \in Int /\ s.hi \in Int
           /\ s.neg => s.kind \in {"star", "range"}
           /\ requests[j].except => j = 1

\* A selector matches a position if it stands for it.
LEMMA SelectorStandsFor ==
  ASSUME NEW e, NEW name, NEW n \in Nat, NEW i \in 1 .. n,
         e.selector.kind \in {"none", "star", "range", "bad"}, e.selector.neg \in BOOLEAN,
         e.selector.lo \in Int, e.selector.hi \in Int, e.selector.neg => e.selector.kind \in {"star", "range"}
  PROVE  EntryMatches(e, name, i) <=> e.name = name /\ i \in Positions(e.selector, n)
<1> DEFINE s == e.selector
<1>1. CASE s.kind = "none"
  BY <1>1 DEF EntryMatches, Positions
<1>2. CASE s.kind = "star"
  BY <1>2 DEF EntryMatches, SelectorMatches, Positions
<1>3. CASE s.kind = "range"
  <2>1. SelectorMatches(s, i) <=> s.neg # (s.lo <= i /\ i <= s.hi)
    BY <1>3 DEF SelectorMatches
  <2>2. i \in (s.lo .. s.hi) \intersect (1 .. n) <=> s.lo <= i /\ i <= s.hi
    OBVIOUS
  <2>3. Positions(s, n) = IF s.neg THEN (1 .. n) \ ((s.lo .. s.hi) \intersect (1 .. n)) ELSE (s.lo .. s.hi) \intersect (1 .. n)
    BY <1>3 DEF Positions
  <2>4. SelectorMatches(s, i) <=> i \in Positions(s, n)
    BY <2>1, <2>2, <2>3
  <2>. QED BY <1>3, <2>4 DEF EntryMatches
<1>4. CASE s.kind = "bad"
  BY <1>4 DEF EntryMatches, SelectorMatches, Positions
<1>. QED BY <1>1, <1>2, <1>3, <1>4

\* The exclude requests decide of a patch in a bundle what the documentation
\* promises, however many they are and whatever they name
\* (_bundle_selector.py, parser.py check_exclude_request).
THEOREM RequestsDecide ==
  ASSUME NEW requests, NEW name, NEW n \in Nat, NEW i \in 1 .. n, AreRequests(requests)
  PROVE  CheckExcludeRequest(requests, name, i) <=> i \in Allowed(requests, name, n)
<1> DEFINE matched == \E e \in Range(requests) : EntryMatches(e, name, i)
<1>1. \A e \in Range(requests) : EntryMatches(e, name, i) <=> e.name = name /\ i \in Positions(e.selector, n)
  <2> SUFFICES ASSUME NEW j \in DOMAIN requests
               PROVE  EntryMatches(requests[j], name, i)
                        <=> requests[j].name = name /\ i \in Positions(requests[j].selector, n)
    BY DEF Range
  <2>. QED BY SelectorStandsFor DEF AreRequests
<1>2. matched <=> i \in Named(requests, name, n)
  BY <1>1 DEF Named
<1>3. (\E e \in Range(requests) : e.except) <=> requests # <<>> /\ requests[1].except
  <2>1. DOMAIN requests = 1 .. Len(requests)
    BY DEF AreRequests
  <2>2. requests # <<>> => 1 \in DOMAIN requests
    BY DEF AreRequests
  <2>3. requests = <<>> => DOMAIN requests = {}
    OBVIOUS
  <2>4. \A j \in DOMAIN requests : requests[j].except => j = 1
    BY DEF AreRequests
  <2>. QED BY <2>2, <2>3, <2>4 DEF Range
<1>. QED BY <1>2, <1>3 DEF CheckExcludeRequest, Allowed

------------------------------------------------------------------------------
(* The cases of the specification.                                           *)

\* The sites and devices of the cases are such as the theorems are about.
InputsOk ==
  /\ case.of = "uptodown" => IsUptoDown(case.site)
  /\ case.of = "apkmirror" => IsMirror(case.site, case.asked)
  /\ case.of = "bundle" => case.device.dpi \in Int

LEMMA RowsAreRows == \A row \in Rows \union {NoArch} : IsRow(row)
<1>1. 1 .. 1 = {1} /\ 1 .. 2 = {1, 2} /\ 1 .. 3 = {1, 2, 3}
  OBVIOUS
<1>2. \A w \in {Word("arch", x) : x \in {"x86", "x86_64", "arm64-v8a", "armeabi-v7a", "universal", "noarch"}}
             \union {Word("anydpi", "nodpi"), Word("dpi", 480), Word("range", <<160, 640>>)} :
        /\ w.kind = "dpi" => w.value \in Int
        /\ w.kind = "range" => w.value[1] \in Int /\ w.value[2] \in Int
  BY DEF Word
<1>3. \A row \in Rows \union {NoArch} :
        /\ Len(row) \in Nat /\ DOMAIN row = 1 .. Len(row)
        /\ \A i \in DOMAIN row :
             row[i] \in {Word("arch", x) : x \in {"x86", "x86_64", "arm64-v8a", "armeabi-v7a", "universal", "noarch"}}
                       \union {Word("anydpi", "nodpi"), Word("dpi", 480), Word("range", <<160, 640>>)}
  <2> HIDE DEF Word
  <2>. QED BY <1>1 DEF Rows, NoArch
<1>. QED BY <1>2, <1>3 DEF IsRow

LEMMA OfRowIsRead ==
  ASSUME NEW row \in Rows \union {NoArch}, NEW v
  PROVE  LET x == OfRow(row, <<v, row>>)
         IN  /\ ReadFromRow(x) /\ x.file[1] = v
             /\ ReadFromRow([x EXCEPT !.url = FALSE]) /\ [x EXCEPT !.url = FALSE].file[1] = v
BY RowsAreRows DEF ReadFromRow, OfRow, Variant

LEMMA MirrorRowIsRead ==
  ASSUME NEW row \in Rows \union {NoArch}, NEW v
  PROVE  /\ LET x == MirrorRow(FALSE, row, <<v, row>>)
            IN  ReadFromRow(x) /\ x.file[1] = v /\ x.bundle = FALSE
         /\ LET x == MirrorRow(TRUE, row, <<v, row>>)
            IN  ReadFromRow(x) /\ x.file[1] = v /\ x.bundle = TRUE
BY RowsAreRows DEF ReadFromRow, MirrorRow

LEMMA FewVariants ==
  /\ AreVariants(<<>>) /\ DOMAIN <<>> = {}
  /\ \A a : ReadFromRow(a) => AreVariants(<<a>>)
  /\ \A a, b : ReadFromRow(a) /\ ReadFromRow(b) => AreVariants(<<a, b>>)
<1>1. 1 .. 0 = {} /\ 1 .. 1 = {1} /\ 1 .. 2 = {1, 2}
  OBVIOUS
<1>. QED BY <1>1 DEF AreVariants

LEMMA FilesAreFiles ==
  ASSUME NEW v, NEW files \in FilesOf(v)
  PROVE  AreFiles(files, v)
<1>0. \A s, variants, t : Files(s, variants, t).status = s /\ Files(s, variants, t).variants = variants
  BY DEF Files
<1>1. CASE files \in {Files("404", <<>>, "ok"), Files("error", <<>>, "ok")}
  BY <1>0, <1>1, FewVariants DEF AreFiles, Statuses
<1>2. ASSUME NEW x \in VariantsOf(v), NEW y \in VariantsOf(v), files = Files("ok", <<x, y>>, "ok")
      PROVE  AreFiles(files, v)
  <2>1. ASSUME NEW w \in VariantsOf(v)  PROVE ReadFromRow(w) /\ w.file[1] = v
    <3>1. PICK a \in Rows : w = OfRow(a, <<v, a>>)
      BY DEF VariantsOf
    <3>. QED BY <3>1, OfRowIsRead
  <2>. QED BY <1>0, <1>2, <2>1, FewVariants DEF AreFiles, Statuses
<1> DEFINE y == OfRow(NoArch, <<v, NoArch>>)
           z == [OfRow(NoArch, <<v, NoArch>>) EXCEPT !.url = FALSE]
<1>3. ASSUME NEW x, x = y \/ x = z, NEW t, files = Files("ok", <<x>>, t)
      PROVE  AreFiles(files, v)
  <2>1. ReadFromRow(y) /\ y.file[1] = v /\ ReadFromRow(z) /\ z.file[1] = v
    BY OfRowIsRead
  <2> HIDE DEF y, z
  <2>2. ReadFromRow(x) /\ x.file[1] = v
    BY <1>3, <2>1
  <2>3. AreVariants(<<x>>) /\ DOMAIN <<x>> = {1} /\ <<x>>[1] = x
    BY <2>2, FewVariants
  <2>. QED BY <1>0, <1>3, <2>2, <2>3 DEF AreFiles, Statuses
<1> DEFINE Missing == {Files("404", <<>>, "ok"), Files("error", <<>>, "ok")}
           Twos == {Files("ok", <<a, b>>, "ok") : a, b \in VariantsOf(v)}
           Ones == {Files("ok", <<y>>, t) : t \in Transfers} \union {Files("ok", <<z>>, "ok")}
<1>4. files \in Missing \union Twos \union Ones
  <2>1. FilesOf(v) = Missing \union Twos \union Ones
    BY DEF FilesOf
  <2> HIDE DEF Missing, Twos, Ones
  <2>. QED BY <2>1
<1>5. CASE files \in Missing
  BY <1>1, <1>5
<1>6. CASE files \in Twos
  <2>1. PICK a \in VariantsOf(v), b \in VariantsOf(v) : files = Files("ok", <<a, b>>, "ok")
    BY <1>6
  <2>. QED BY <1>2, <2>1
<1>7. CASE files \in Ones
  <2>1. \E x, t : (x = y \/ x = z) /\ files = Files("ok", <<x>>, t)
    <3> HIDE DEF y, z
    <3>. QED BY <1>7
  <2> HIDE DEF y, z
  <2>. QED BY <1>3, <2>1
<1> HIDE DEF Missing, Twos, Ones
<1>. QED BY <1>4, <1>5, <1>6, <1>7

LEMMA ItemsAreItems ==
  ASSUME NEW v
  PROVE  (\A x \in ItemsOf(v) : IsItem(x)) /\ IsItem(Plain(v))
<1>1. \A file : file[1] = v => \A p \in Pages(file) : IsPage(p, v)
  BY DEF Pages, Page, IsPage, Statuses
<1>2. ASSUME NEW x \in ItemsOf(v)  PROVE IsItem(x)
  <2>1. x.version = v /\ x.files \in FilesOf(v)
    BY DEF ItemsOf
  <2>2. \E f, g : f[1] = v /\ g[1] = v /\ x.page \in Pages(f) /\ x.variantPage \in Pages(g)
    BY DEF ItemsOf
  <2>. QED BY <1>1, <2>1, <2>2, FilesAreFiles DEF IsItem
<1>3. IsItem(Plain(v))
  <2>1. AreFiles(Files("404", <<>>, "ok"), v)
    BY FewVariants DEF AreFiles, Statuses, Files
  <2>2. /\ IsPage(Page("ok", TRUE, FALSE, FALSE, <<v, <<Word("other", "page")>>>>), v)
        /\ IsPage(Page("404", FALSE, FALSE, FALSE, <<>>), v)
    BY DEF IsPage, Page, Statuses
  <2>. QED BY <2>1, <2>2 DEF Plain, IsItem
<1>. QED BY <1>2, <1>3

LEMMA CasesUptoDown == ChooseUptoDown => InputsOk'
<1> SUFFICES ASSUME NEW item \in ItemsOf(2), NEW named \in BOOLEAN,
                    NEW pages \in {<<<<Plain(3), item>>>>, <<<<Plain(3)>>, <<item, Plain(1)>>>>, <<<<Plain(3)>>>>},
                    case' = [of |-> "uptodown", site |-> [name |-> named, pages |-> pages, latest |-> LatestOf(item)]]
             PROVE  InputsOk'
  BY DEF ChooseUptoDown
<1> DEFINE site == [name |-> named, pages |-> pages, latest |-> LatestOf(item)]
<1>1. IsItem(item) /\ IsItem(Plain(3)) /\ IsItem(Plain(1))
  BY ItemsAreItems
<1>2. /\ Len(pages) \in Nat /\ DOMAIN pages = 1 .. Len(pages)
      /\ \A i \in DOMAIN pages :
           /\ Len(pages[i]) \in Nat /\ DOMAIN pages[i] = 1 .. Len(pages[i])
           /\ \A j \in DOMAIN pages[i] : IsItem(pages[i][j])
  <2>1. 1 .. 1 = {1} /\ 1 .. 2 = {1, 2}
    OBVIOUS
  <2>. QED BY <1>1, <2>1
<1>3. AreFiles(site.latest.files, item.version)
  BY <1>1 DEF IsItem, LatestOf
<1>4. IsUptoDown(site)
  BY <1>2, <1>3 DEF IsUptoDown
<1>5. case'.of = "uptodown" /\ case'.site = site
  OBVIOUS
<1> HIDE DEF site
<1>. QED BY <1>4, <1>5 DEF InputsOk

LEMMA ReleasesAreReleases ==
  ASSUME NEW v
  PROVE  (\A release \in ReleasesOf(v) : IsRelease(release, v)) /\ IsRelease(Some(v), v)
<1> DEFINE Good(x) == ReadFromRow(x) /\ x.file[1] = v /\ x.bundle \in BOOLEAN
           n == MirrorRow(FALSE, NoArch, <<v, NoArch>>)
<1>1. (\A x \in ApksOf(v) \union BundlesOf(v) : Good(x)) /\ Good(n)
  <2>1. ASSUME NEW a \in Rows \union {NoArch}
        PROVE  Good(MirrorRow(FALSE, a, <<v, a>>)) /\ Good(MirrorRow(TRUE, a, <<v, a>>))
    BY MirrorRowIsRead
  <2> HIDE DEF Good
  <2>2. ASSUME NEW x \in ApksOf(v)  PROVE Good(x)
    <3>1. PICK a \in Rows : x = MirrorRow(FALSE, a, <<v, a>>)
      BY DEF ApksOf
    <3>. QED BY <2>1, <3>1
  <2>3. ASSUME NEW x \in BundlesOf(v)  PROVE Good(x)
    <3>1. PICK a \in Rows : x = MirrorRow(TRUE, a, <<v, a>>)
      BY DEF BundlesOf
    <3>. QED BY <2>1, <3>1
  <2>. QED BY <2>1, <2>2, <2>3
<1>2. ASSUME NEW r \in WithoutRows  PROVE IsRelease(r, v)
  <2>1. ASSUME NEW s  PROVE Release(s, <<>>).status = s /\ Release(s, <<>>).rows = <<>>
    BY Zenon DEF Release
  <2>2. r.rows = <<>>
    BY <2>1 DEF WithoutRows
  <2>3. r.status \in {"404", "error", "no table", "ok"}
    BY <2>1, Zenon DEF WithoutRows
  <2>. QED BY <2>2, <2>3, FewVariants DEF IsRelease, Statuses
<1>3. ASSUME NEW x, NEW y, Good(x), Good(y)  PROVE IsRelease(Release("ok", <<x, y>>), v)
  BY <1>3, FewVariants DEF Release, IsRelease, Statuses
<1>4. ASSUME NEW x, Good(x)
      PROVE  /\ IsRelease(Release("ok", <<x>>), v)
             /\ \A t : IsRelease([Release("ok", <<x>>) EXCEPT !.transfer = t], v)
  BY <1>4, FewVariants DEF Release, IsRelease, Statuses
<1> HIDE DEF Good
<1>5. \A release \in ReleasesOf(v) : IsRelease(release, v)
  <2> SUFFICES ASSUME NEW release \in ReleasesOf(v)  PROVE IsRelease(release, v)
    OBVIOUS
  <2>1. \/ release \in WithoutRows
        \/ \E rows \in (ApksOf(v) \union BundlesOf(v)) \X ApksOf(v) : release = Release("ok", rows)
        \/ \E x \in BundlesOf(v), t \in Transfers : release = [Release("ok", <<x>>) EXCEPT !.transfer = t]
    BY DEF ReleasesOf
  <2>2. ASSUME NEW rows \in (ApksOf(v) \union BundlesOf(v)) \X ApksOf(v)  PROVE IsRelease(Release("ok", rows), v)
    <3>1. rows = <<rows[1], rows[2]>> /\ Good(rows[1]) /\ Good(rows[2])
      BY <1>1
    <3>2. IsRelease(Release("ok", <<rows[1], rows[2]>>), v)
      BY <1>3, <3>1
    <3>. QED BY <3>1, <3>2, Zenon
  <2>. QED BY <1>1, <1>2, <1>4, <2>1, <2>2
<1>6. IsRelease(Some(v), v)
  BY <1>1, <1>4 DEF Some
<1>. QED BY <1>5, <1>6

\* A title of one number has the version in it that is that number.
LEMMA ShortTitles ==
  ASSUME NEW a \in Int, NEW b \in Int, NEW ripped \in BOOLEAN
  PROVE  InTitle([release |-> <<b>>, ripped |-> ripped], <<a>>) <=> a = b
<1> DEFINE Part(v, title) == \E i \in 1 .. Len(title) : i + Len(v) - 1 <= Len(title) /\ SubSeq(title, i, i + Len(v) - 1) = v
<1>1. Part(<<b>>, <<a>>) <=> a = b
  <2>1. 1 .. Len(<<a>>) = {1} /\ Len(<<a>>) = 1 /\ Len(<<b>>) = 1
    OBVIOUS
  <2>2. SubSeq(<<a>>, 1, 1) = <<a>>
    <3> DEFINE s == SubSeq(<<a>>, 1, 1)
    <3>1. <<a>> \in Seq(Int) /\ Len(<<a>>) = 1 /\ <<a>>[1] = a /\ 1 .. 1 = {1}
      OBVIOUS
    <3>2. Len(s) = 1 /\ s \in Seq(Int) /\ s[1] = a
      BY <3>1, SubSeqProperties
    <3> HIDE DEF s
    <3>3. \A i \in 1 .. Len(s) : s[i] = <<a>>[i]
      BY <3>1, <3>2
    <3>4. s = <<a>>
      BY <3>1, <3>2, <3>3, SeqEqual
    <3>. QED BY <3>4 DEF s
  <2>. QED BY <2>1, <2>2
<1>2. ~Part(<<b>> \o Suffix, <<a>>)
  <2>1. Len(<<b>> \o Suffix) = 2 /\ Len(<<a>>) = 1
    BY DEF Suffix
  <2>. QED BY <2>1
<1>. QED BY <1>1, <1>2 DEF InTitle

\* Rows titled and placed by one number.
LEMMA NumberedMirror ==
  ASSUME NEW site, NEW ripped \in BOOLEAN, IsRelease(site.guess, << 2 >>),
         Len(site.listing.rows) \in Nat, DOMAIN site.listing.rows = 1 .. Len(site.listing.rows),
         \A i \in DOMAIN site.listing.rows : \E n \in 1 .. 4 :
           LET x == site.listing.rows[i] IN x.title = <<n>> /\ x.address = n /\ IsRelease(x.release, <<n>>)
  PROVE  IsMirror(site, [release |-> << 2 >>, ripped |-> ripped])
<1> DEFINE rows == site.listing.rows
           asked == [release |-> << 2 >>, ripped |-> ripped]
<1>1. ASSUME NEW i \in DOMAIN rows
      PROVE  /\ IsRelease(rows[i].release, rows[i].title) /\ rows[i].address \in Int
             /\ InTitle(asked, rows[i].title) <=> rows[i].title = << 2 >>
  <2>1. PICK n \in 1 .. 4 : rows[i].title = <<n>> /\ rows[i].address = n /\ IsRelease(rows[i].release, <<n>>)
    OBVIOUS
  <2>2. InTitle(asked, <<n>>) <=> n = 2
    BY ShortTitles
  <2> HIDE DEF asked
  <2>. QED BY <2>1, <2>2
<1>2. ASSUME NEW i \in DOMAIN rows, NEW j \in DOMAIN rows, rows[i].address <= rows[j].address,
             NEW k \in 1 .. Len(rows[i].title)
      PROVE  rows[i].title[k] <= rows[j].title[k]
  <2>1. PICK n \in 1 .. 4 : rows[i].title = <<n>> /\ rows[i].address = n
    OBVIOUS
  <2>2. PICK m \in 1 .. 4 : rows[j].title = <<m>> /\ rows[j].address = m
    OBVIOUS
  <2>3. k = 1 /\ n <= m
    BY <1>2, <2>1, <2>2
  <2>. QED BY <2>1, <2>2, <2>3
<1>3. asked.release = << 2 >>
  OBVIOUS
<1> HIDE DEF asked
<1>. QED BY <1>1, <1>2, <1>3 DEF IsMirror, asked

LEMMA CasesApkMirror == ChooseApkMirror => InputsOk'
<1>1. SUFFICES ASSUME NEW release, NEW guess, NEW rows, NEW status, NEW ripped, release \in ReleasesOf(<< 2 >>),
                      guess \in {Release("404", <<>>), Release("error", <<>>), Release("no table", <<>>), Some(<< 2 >>)},
                      rows \in {<<Titled(<< 4 >>, 4, TRUE, Some(<< 4 >>)), Titled(<< 3 >>, 3, FALSE, Some(<< 3 >>)), Titled(<< 2 >>, 2, FALSE, release)>>,
                                <<Titled(<< 2 >>, 2, FALSE, release), Titled(<< 1 >>, 1, FALSE, Some(<< 1 >>))>>,
                                <<Titled(<< 4 >>, 4, TRUE, Some(<< 4 >>))>>},
                      ripped \in BOOLEAN,
                      case' = [of |-> "apkmirror", asked |-> [release |-> << 2 >>, ripped |-> ripped],
                               site |-> [guess |-> guess, listing |-> [status |-> status, rows |-> rows]]]
               PROVE  InputsOk'
  BY DEF ChooseApkMirror
<1> DEFINE site == [guess |-> guess, listing |-> [status |-> status, rows |-> rows]]
           Right(x) == \E n \in 1 .. 4 : x.title = <<n>> /\ x.address = n /\ IsRelease(x.release, <<n>>)
           a == Titled(<< 4 >>, 4, TRUE, Some(<< 4 >>))
           b == Titled(<< 3 >>, 3, FALSE, Some(<< 3 >>))
           c == Titled(<< 2 >>, 2, FALSE, release)
           d == Titled(<< 1 >>, 1, FALSE, Some(<< 1 >>))
<1>2. Right(a) /\ Right(b) /\ Right(c) /\ Right(d)
  <2>1. IsRelease(Some(<< 4 >>), << 4 >>) /\ IsRelease(Some(<< 3 >>), << 3 >>) /\ IsRelease(Some(<< 1 >>), << 1 >>)
    BY ReleasesAreReleases
  <2>2. IsRelease(release, << 2 >>)
    BY <1>1, ReleasesAreReleases
  <2>. QED BY <2>1, <2>2 DEF Titled
<1>3. rows \in {<<a, b, c>>, <<c, d>>, <<a>>}
  BY <1>1
<1>4. IsRelease(guess, << 2 >>)
  <2>1. /\ IsRelease(Release("404", <<>>), << 2 >>) /\ IsRelease(Release("error", <<>>), << 2 >>)
        /\ IsRelease(Release("no table", <<>>), << 2 >>)
    BY FewVariants DEF Release, IsRelease, Statuses
  <2>. QED BY <1>1, <2>1, ReleasesAreReleases
<1>5. case'.of = "apkmirror" /\ case'.site = site /\ case'.asked = [release |-> << 2 >>, ripped |-> ripped]
  BY <1>1
<1>6. site.guess = guess /\ site.listing.rows = rows
  OBVIOUS
<1> HIDE DEF Right, a, b, c, d, site
<1>7. /\ Len(rows) \in Nat /\ DOMAIN rows = 1 .. Len(rows)
      /\ \A i \in DOMAIN rows : Right(rows[i])
  <2>1. 1 .. 1 = {1} /\ 1 .. 2 = {1, 2} /\ 1 .. 3 = {1, 2, 3}
    OBVIOUS
  <2>. QED BY <1>2, <1>3, <2>1
<1>8. ripped \in BOOLEAN
  BY <1>1
<1>9. IsMirror(site, [release |-> << 2 >>, ripped |-> ripped])
  BY <1>4, <1>6, <1>7, <1>8, NumberedMirror DEF Right
<1>. QED BY <1>5, <1>9 DEF InputsOk

LEMMA CasesBundle == ChooseBundle => InputsOk'
<1>1. SUFFICES ASSUME NEW splits, NEW archs, NEW dpi \in {0, 200, 420, 280}, NEW density, NEW files,
                      case' = [of |-> "bundle", device |-> [archs |-> archs, dpi |-> dpi, density |-> density], files |-> files]
               PROVE  InputsOk'
  BY DEF ChooseBundle
<1>. QED BY <1>1 DEF InputsOk

LEMMA CasesOther ==
  ChooseOverrides \/ ChooseTemplates \/ ChooseRequests \/ ChooseOptions \/ ChooseListing => InputsOk'
<1>1. ChooseOverrides => case'.of = "overrides"
  <2>1. SUFFICES ASSUME NEW g, NEW a, NEW p, case' = [of |-> "overrides", global |-> g, app |-> a, appProfile |-> p]
                 PROVE  case'.of = "overrides"
    BY Zenon DEF ChooseOverrides
  <2>. QED BY <2>1
<1>2. ChooseTemplates => case'.of = "templates"
  BY DEF ChooseTemplates
<1>3. ChooseRequests \/ ChooseOptions => case'.of = "selection"
  <2>1. ChooseRequests \/ ChooseOptions => \E a, l, x, ci : case' = Case(a, l, x, ci)
    BY Zenon DEF ChooseRequests, ChooseOptions
  <2>2. \A a, l, x, ci : Case(a, l, x, ci).of = "selection"
    BY DEF Case
  <2>. QED BY <2>1, <2>2, Zenon
<1>4. ChooseListing => case'.of = "listing"
  BY DEF ChooseListing
<1>. QED BY <1>1, <1>2, <1>3, <1>4 DEF InputsOk

LEMMA InputsAlwaysOk == Spec => []InputsOk
<1>1. Init => InputsOk
  BY DEF Init, InputsOk
<1>2. InputsOk /\ [Next]_vars => InputsOk'
  BY CasesUptoDown, CasesApkMirror, CasesBundle, CasesOther DEF Next, vars, InputsOk
<1>. QED BY <1>1, <1>2, PTL DEF Spec

\* Of every case: the file is of the version asked for, the best there is for
\* the preferred architectures, and of a bundle just what the device needs.
THEOREM DownloadIsChosenRight == Spec => []DownloadChoice
<1>1. InputsOk => DownloadChoice
  BY UptoDownFindsTheVersion, ApkMirrorFindsTheVersion, BundleKeepsWhatFits DEF InputsOk, DownloadChoice
<1>. QED BY <1>1, InputsAlwaysOk, PTL
=============================================================================
