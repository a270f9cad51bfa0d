---------------------------- MODULE RebuildProofs ----------------------------
(***************************************************************************)
(* What a check decides and how revisions grow, for every number of runs,  *)
(* apps, bundles and releases.                                             *)
(*                                                                         *)
(* A list of files is Resolved for a configuration if it holds, in some    *)
(* order, a published release of each configured bundle.  Releases are     *)
(* only added to, so what is resolved stays resolved and keeps its hashes. *)
(* RebuildInv says that every entry and every check is resolved, and that  *)
(* what a build recorded has grown from what the run had loaded.           *)
(*                                                                         *)
(* Whatever the order, the same files sort to the same hashes: the k-th    *)
(* smallest key is settled by counting the keys below it, and other names  *)
(* that compare alike sort alike.  A check that compares tags in the order *)
(* of the files cannot miss a newer release either: tags that are equal    *)
(* place by place, and never smaller for the same bundle, are equal bundle *)
(* by bundle, by the pigeonhole principle.                                 *)
(***************************************************************************)
EXTENDS Rebuild, FiniteSetTheorems, FunctionTheorems, TLAPS

------------------------------------------------------------------------------
(* Sorting by key.                                                           *)

Injective(f) == \A i, j \in DOMAIN f : f[i] = f[j] => i = j

InOrder(key, order) ==
  \A i, j \in DOMAIN key : i < j =>
    \/ key[order[i]] < key[order[j]]
    \/ key[order[i]] = key[order[j]] /\ order[i] < order[j]

\* A function on 1 .. n that repeats no value takes every value.
LEMMA Onto ==
  ASSUME NEW n \in Nat, NEW f \in [1 .. n -> 1 .. n], Injective(f), NEW k \in 1 .. n
  PROVE  \E i \in 1 .. n : f[i] = k
<1> SUFFICES ASSUME \A i \in 1 .. n : f[i] # k  PROVE FALSE
  OBVIOUS
<1>1. IsFiniteSet(1 .. n) /\ Cardinality(1 .. n) = n
  BY FS_Interval
<1>2. IsFiniteSet((1 .. n) \ {k}) /\ Cardinality((1 .. n) \ {k}) = n - 1
  BY <1>1, FS_RemoveElement
<1>3. f \in [1 .. n -> (1 .. n) \ {k}]
  OBVIOUS
<1>4. Cardinality((1 .. n) \ {k}) < Cardinality(1 .. n)
  BY <1>1, <1>2
<1>5. \E x, y \in 1 .. n : x # y /\ f[x] = f[y]
  BY <1>1, <1>2, <1>3, <1>4, FS_PigeonHole
<1> QED
  BY <1>5 DEF Injective

\* The indices can be put in order: each goes to the place that counts what
\* does not come after it.
LEMMA OrderExists ==
  ASSUME NEW n \in Nat, NEW key \in [1 .. n -> Int]
  PROVE  \E order \in [1 .. n -> 1 .. n] : InOrder(key, order)
<1> DEFINE Before(i, j) == key[i] < key[j] \/ (key[i] = key[j] /\ i < j)
           UpTo(i)      == {j \in 1 .. n : Before(j, i) \/ j = i}
           place        == [i \in 1 .. n |-> Cardinality(UpTo(i))]
           order        == [k \in 1 .. n |-> CHOOSE i \in 1 .. n : place[i] = k]
<1>1. IsFiniteSet(1 .. n) /\ Cardinality(1 .. n) = n
  BY FS_Interval
<1>2. ASSUME NEW i \in 1 .. n  PROVE IsFiniteSet(UpTo(i)) /\ place[i] \in 1 .. n
  <2>1. UpTo(i) \in SUBSET (1 .. n) /\ i \in UpTo(i)
    OBVIOUS
  <2>2. IsFiniteSet(UpTo(i)) /\ Cardinality(UpTo(i)) <= n
    BY <1>1, <2>1, FS_Subset
  <2>3. Cardinality(UpTo(i)) \in Nat /\ Cardinality(UpTo(i)) # 0
    BY <2>1, <2>2, FS_CardinalityType, FS_EmptySet
  <2> QED
    BY <2>2, <2>3
<1>3. ASSUME NEW i \in 1 .. n, NEW j \in 1 .. n, Before(i, j)  PROVE place[i] < place[j]
  <2>1. key[i] \in Int /\ key[j] \in Int /\ \A m \in 1 .. n : key[m] \in Int
    OBVIOUS
  <2>2. UpTo(i) \in SUBSET UpTo(j) /\ j \in UpTo(j) /\ j \notin UpTo(i)
    BY <2>1, <1>3
  <2>3. Cardinality(UpTo(i)) <= Cardinality(UpTo(j)) /\ Cardinality(UpTo(i)) # Cardinality(UpTo(j))
    BY <1>2, <2>2, FS_Subset
  <2>4. place[i] = Cardinality(UpTo(i)) /\ place[j] = Cardinality(UpTo(j))
    OBVIOUS
  <2>5. Cardinality(UpTo(i)) \in Int /\ Cardinality(UpTo(j)) \in Int
    BY <1>2, FS_CardinalityType
  <2> HIDE DEF UpTo, place
  <2> QED
    BY <2>3, <2>4, <2>5
<1>4. \A i, j \in 1 .. n : i # j => Before(i, j) \/ Before(j, i)
  OBVIOUS
<1>5. place \in [1 .. n -> 1 .. n]
  BY <1>2
<1> HIDE DEF place, Before
<1>6. \A i, j \in 1 .. n : Before(i, j) => place[i] < place[j]
  BY <1>3
<1>7. Injective(place)
  <2> SUFFICES ASSUME NEW i \in 1 .. n, NEW j \in 1 .. n, place[i] = place[j], i # j  PROVE FALSE
    BY <1>5 DEF Injective
  <2>1. place[i] \in Int /\ ~(place[i] < place[j]) /\ ~(place[j] < place[i])
    BY <1>5
  <2> QED
    BY <1>4, <1>6, <2>1
<1>8. ASSUME NEW k \in 1 .. n  PROVE order[k] \in 1 .. n /\ place[order[k]] = k
  BY <1>5, <1>7, Onto
<1> HIDE DEF order
<1>9. ASSUME NEW i \in 1 .. n, NEW j \in 1 .. n, i < j  PROVE Before(order[i], order[j])
  <2>1. order[i] \in 1 .. n /\ order[j] \in 1 .. n /\ place[order[i]] = i /\ place[order[j]] = j
    BY <1>8
  <2>2. ~Before(order[j], order[i]) /\ order[i] # order[j]
    BY <1>6, <1>9, <2>1
  <2> QED
    BY <1>4, <2>1, <2>2
<1>10. InOrder(key, order)
  BY <1>9 DEF InOrder, Before
<1>11. order \in [1 .. n -> 1 .. n]
  BY <1>8 DEF order
<1> QED
  BY <1>10, <1>11

\* What SortedBy returns: each index once, in the order of the keys.
LEMMA SortedByFacts ==
  ASSUME NEW n \in Nat, NEW key \in [1 .. n -> Int]
  PROVE  /\ SortedBy(key) \in [1 .. n -> 1 .. n] /\ InOrder(key, SortedBy(key))
         /\ Injective(SortedBy(key))
         /\ \A k \in 1 .. n : \E i \in 1 .. n : SortedBy(key)[i] = k
<1>1. DOMAIN key = 1 .. n /\ \E order \in [1 .. n -> 1 .. n] : InOrder(key, order)
  BY OrderExists
<1>2. SortedBy(key) = CHOOSE order \in [1 .. n -> 1 .. n] : InOrder(key, order)
  BY <1>1 DEF SortedBy, InOrder
<1>3. SortedBy(key) \in [1 .. n -> 1 .. n] /\ InOrder(key, SortedBy(key))
  BY <1>1, <1>2
<1>4. Injective(SortedBy(key))
  <2> SUFFICES ASSUME NEW i \in 1 .. n, NEW j \in 1 .. n, SortedBy(key)[i] = SortedBy(key)[j], i < j
               PROVE  FALSE
    BY <1>3 DEF Injective
  <2>1. SortedBy(key)[i] \in 1 .. n /\ key[SortedBy(key)[i]] \in Int
    BY <1>3
  <2>2. DOMAIN key = 1 .. n /\ InOrder(key, SortedBy(key))
    BY <1>3
  <2>3. key[SortedBy(key)[i]] < key[SortedBy(key)[j]] \/ SortedBy(key)[i] < SortedBy(key)[j]
    BY <2>2 DEF InOrder
  <2> QED
    BY <2>1, <2>3
<1> QED
  BY <1>3, <1>4, Onto

Less(key, x)   == {i \in DOMAIN key : key[i] < x}
AtMost(key, x) == {i \in DOMAIN key : key[i] <= x}

\* The k-th key in order: less than k keys are smaller, at least k are no greater.
LEMMA Counting ==
  ASSUME NEW n \in Nat, NEW key \in [1 .. n -> Int], NEW k \in 1 .. n
  PROVE  LET x == key[SortedBy(key)[k]]
         IN  /\ x \in Int
             /\ IsFiniteSet(Less(key, x)) /\ Cardinality(Less(key, x)) < k
             /\ IsFiniteSet(AtMost(key, x)) /\ k <= Cardinality(AtMost(key, x))
<1> DEFINE order == SortedBy(key)
           x     == key[order[k]]
<1>1. /\ order \in [1 .. n -> 1 .. n] /\ InOrder(key, order) /\ Injective(order)
      /\ \A m \in 1 .. n : \E i \in 1 .. n : order[i] = m
  BY SortedByFacts
<1> HIDE DEF order
<1>2. DOMAIN key = 1 .. n /\ x \in Int /\ \A i \in 1 .. n : key[order[i]] \in Int
  BY <1>1
<1>3. ASSUME NEW i \in 1 .. n, NEW j \in 1 .. n, i < j  PROVE key[order[i]] <= key[order[j]]
  <2>1. key[order[i]] < key[order[j]] \/ key[order[i]] = key[order[j]]
    BY <1>1, <1>2, <1>3 DEF InOrder
  <2> QED
    BY <1>2, <2>1
<1>4. IsFiniteSet(1 .. n) /\ IsFiniteSet(Less(key, x)) /\ IsFiniteSet(AtMost(key, x))
  <2>1. Less(key, x) \in SUBSET (1 .. n) /\ AtMost(key, x) \in SUBSET (1 .. n)
    BY <1>2 DEF Less, AtMost
  <2> QED
    BY <2>1, FS_Interval, FS_Subset
<1>5. Cardinality(Less(key, x)) < k
  <2> DEFINE before == [m \in 1 .. k - 1 |-> order[m]]
             T      == {order[m] : m \in 1 .. k - 1}
  <2>1. before \in [1 .. k - 1 -> T] /\ \A t \in T : \E m \in 1 .. k - 1 : before[m] = t
    OBVIOUS
  <2>2. before \in Surjection(1 .. k - 1, T)
    BY <2>1, Fun_IsSurj
  <2>3. IsFiniteSet(1 .. k - 1) /\ Cardinality(1 .. k - 1) = k - 1
    BY FS_Interval
  <2>4. IsFiniteSet(T) /\ Cardinality(T) <= k - 1
    BY <2>2, <2>3, FS_Surjection
  <2>5. Less(key, x) \in SUBSET T
    <3> SUFFICES ASSUME NEW i \in 1 .. n, key[i] < x  PROVE i \in T
      BY <1>2 DEF Less
    <3>1. PICK m \in 1 .. n : order[m] = i
      BY <1>1
    <3>2. key[order[m]] < key[order[k]] /\ key[order[m]] \in Int /\ key[order[k]] \in Int
      BY <1>2, <3>1
    <3>3. ~(k < m) /\ m # k
      BY <1>3, <3>2
    <3> QED
      BY <3>1, <3>3
  <2>6. Cardinality(Less(key, x)) <= Cardinality(T)
    BY <2>4, <2>5, FS_Subset
  <2> QED
    BY <1>4, <2>4, <2>6, FS_CardinalityType
<1>6. k <= Cardinality(AtMost(key, x))
  <2> DEFINE upto == [m \in 1 .. k |-> order[m]]
  <2>1. upto \in [1 .. k -> AtMost(key, x)]
    <3> SUFFICES ASSUME NEW m \in 1 .. k  PROVE order[m] \in AtMost(key, x)
      OBVIOUS
    <3>1. m \in 1 .. n /\ order[m] \in 1 .. n
      BY <1>1
    <3>2. key[order[m]] <= x
      BY <1>2, <1>3, <3>1
    <3> QED
      BY <1>2, <3>1, <3>2 DEF AtMost
  <2>2. \A a, b \in 1 .. k : upto[a] = upto[b] => a = b
    <3> SUFFICES ASSUME NEW a \in 1 .. k, NEW b \in 1 .. k, order[a] = order[b]  PROVE a = b
      OBVIOUS
    <3>1. a \in DOMAIN order /\ b \in DOMAIN order
      BY <1>1
    <3> QED
      BY <1>1, <3>1 DEF Injective
  <2>3. upto \in Injection(1 .. k, AtMost(key, x))
    BY <2>1, <2>2, Fun_IsInj
  <2>4. Cardinality(1 .. k) = k
    BY FS_Interval
  <2> QED
    BY <1>4, <2>3, <2>4, FS_Injection
<1> QED
  BY <1>2, <1>4, <1>5, <1>6 DEF order

\* If every key of one list is a key of the other, at a place of its own, then
\* the other's k-th key is no greater.
LEMMA OrderedKeysCompare ==
  ASSUME NEW n \in Nat, NEW key1 \in [1 .. n -> Int], NEW key2 \in [1 .. n -> Int],
         NEW s \in [1 .. n -> 1 .. n], Injective(s), \A i \in 1 .. n : key2[s[i]] = key1[i],
         NEW k \in 1 .. n
  PROVE  key2[SortedBy(key2)[k]] <= key1[SortedBy(key1)[k]]
<1> DEFINE x == key1[SortedBy(key1)[k]]
           y == key2[SortedBy(key2)[k]]
<1>1. x \in Int /\ IsFiniteSet(AtMost(key1, x)) /\ k <= Cardinality(AtMost(key1, x))
  BY Counting
<1>2. y \in Int /\ IsFiniteSet(Less(key2, y)) /\ Cardinality(Less(key2, y)) < k
  BY Counting
<1> HIDE DEF x, y
<1> SUFFICES y <= x
  BY DEF x, y
<1> SUFFICES ASSUME x < y  PROVE FALSE
  BY <1>1, <1>2
<1> DEFINE f == [i \in AtMost(key1, x) |-> s[i]]
<1>3. f \in [AtMost(key1, x) -> Less(key2, y)]
  BY <1>1, <1>2 DEF AtMost, Less
<1>4. \A a, b \in AtMost(key1, x) : f[a] = f[b] => a = b
  BY DEF AtMost, Injective
<1>5. f \in Injection(AtMost(key1, x), Less(key2, y))
  BY <1>3, <1>4, Fun_IsInj
<1>6. Cardinality(AtMost(key1, x)) <= Cardinality(Less(key2, y))
  BY <1>2, <1>5, FS_Injection
<1> QED
  BY <1>1, <1>2, <1>6, FS_CardinalityType

\* Lists with the same keys have them in the same order once sorted.
LEMMA OrderedKeysAgree ==
  ASSUME NEW n \in Nat, NEW key1 \in [1 .. n -> Int], NEW key2 \in [1 .. n -> Int],
         NEW s \in [1 .. n -> 1 .. n], Injective(s), \A i \in 1 .. n : key2[s[i]] = key1[i],
         NEW k \in 1 .. n
  PROVE  key2[SortedBy(key2)[k]] = key1[SortedBy(key1)[k]]
<1> DEFINE t == [j \in 1 .. n |-> CHOOSE i \in 1 .. n : s[i] = j]
<1>1. \A j \in 1 .. n : t[j] \in 1 .. n /\ s[t[j]] = j
  BY Onto
<1>2. t \in [1 .. n -> 1 .. n] /\ Injective(t)
  BY <1>1, ZenonT(60) DEF Injective
<1>3. \A j \in 1 .. n : key1[t[j]] = key2[j]
  BY <1>1
<1> HIDE DEF t
<1> DEFINE x == key1[SortedBy(key1)[k]]
           y == key2[SortedBy(key2)[k]]
<1>4. y <= x
  BY OrderedKeysCompare
<1>5. x <= y
  BY <1>2, <1>3, OrderedKeysCompare
<1>6. x \in Int /\ y \in Int
  BY SortedByFacts, ZenonT(60)
<1> HIDE DEF x, y
<1>7. x = y
  BY <1>4, <1>5, <1>6
<1> QED
  BY <1>7 DEF x, y

------------------------------------------------------------------------------
(* The inductive invariant.                                                  *)

Files   == [bundle : Bundles, tag : Tags]
Entries == [files : Seq(Files), sources : Seq(Bundles), version : AppVersions \cup {0}, revision : Nat]

WorldType ==
  /\ changes \in 0 .. MaxChanges
  /\ releases \in [Bundles -> Seq(Nat)] /\ \A b \in Bundles : Len(releases[b]) \in 1 .. changes + 1
  /\ config \in [Apps -> Seq(Bundles)] /\ offered \in [Apps -> AppVersions]

RunType ==
  /\ at \in [Runs -> {"idle", "versions", "sources", "resources", "hashes", "bundles", "load", "build"}]
  /\ todo \in [Runs -> Seq(Apps)] /\ needed \in [Runs -> Seq(Apps)]
  /\ files \in [Runs -> Seq(Files)] /\ cache \in [Runs -> [Bundles -> Nat]]
  /\ \A r \in Runs : \A b \in Bundles : cache[r][b] <= Len(releases[b])
  /\ built \in [Runs -> BOOLEAN]

\* The files are those of the bundles of conf, in some order, a published
\* release of each.
Resolved(fs, conf, rs) ==
  /\ fs \in Seq(Files) /\ Len(fs) = Len(conf)
  /\ \E p \in [1 .. Len(conf) -> 1 .. Len(conf)] :
       Injective(p) /\ \A k \in 1 .. Len(conf) : fs[k].bundle = conf[p[k]]
  /\ \A i, j \in 1 .. Len(fs) : fs[i].bundle = fs[j].bundle => fs[i].tag = fs[j].tag
  /\ \A i \in 1 .. Len(fs) : fs[i].tag <= Len(rs[fs[i].bundle])

Recorded(e)     == Resolved(e.files, e.sources, releases)
RecordedEntries == {e \in Entries : Recorded(e)}

EntryInv ==
  /\ record \in [Apps -> RecordedEntries]
  /\ older \in [Runs -> [Apps -> RecordedEntries]] /\ info \in [Runs -> [Apps -> RecordedEntries]]

\* A check has an app, and once past its resources their files.
CheckOf(r) ==
  /\ at[r] \in {"versions", "sources", "resources", "hashes", "bundles"} => todo[r] # <<>>
  /\ at[r] \in {"hashes", "bundles"} => Resolved(files[r], config[Head(todo[r])], releases)
CheckInv == \A r \in Runs : CheckOf(r)

\* What get_build_revision promises of an entry e built where p was recorded.
Grown(p, e) ==
  \/ e = p
  \/ p.version = e.version =>
       e.revision = IF BuildHash(p) = BuildHash(e) THEN p.revision ELSE p.revision + 1

Growths   == {g \in RecordedEntries \X RecordedEntries : Grown(g[1], g[2])}
GrowthInv == \A r \in Runs : at[r] = "build" => \A a \in Apps : <<older[r][a], info[r][a]>> \in Growths

RebuildInv == WorldType /\ RunType /\ EntryInv /\ CheckInv /\ GrowthInv

------------------------------------------------------------------------------
(* Releases are only added, so hashes of what is recorded stay.              *)

LEMMA AppendFacts ==
  ASSUME NEW S, NEW q \in Seq(S), NEW x \in S
  PROVE  /\ Append(q, x) \in Seq(S) /\ Len(Append(q, x)) = Len(q) + 1
         /\ \A i \in 1 .. Len(q) : Append(q, x)[i] = q[i]
OBVIOUS

LEMMA ReleasesGrow ==
  ASSUME WorldType, [Next]_vars
  PROVE  /\ WorldType'
         /\ \A b \in Bundles : /\ Len(releases[b]) <= Len(releases'[b])
                             /\ \A t \in 1 .. Len(releases[b]) : releases'[b][t] = releases[b][t]
<1> DEFINE Kept == /\ \A b \in Bundles : Len(releases[b]) <= Len(releases'[b])
                   /\ \A b \in Bundles : \A t \in 1 .. Len(releases[b]) : releases'[b][t] = releases[b][t]
<1> SUFFICES WorldType' /\ Kept
  OBVIOUS
<1>0. \A b \in Bundles : Len(releases[b]) \in Nat
  BY DEF WorldType
<1>1. CASE UNCHANGED world
  BY <1>0, <1>1 DEF WorldType, world
<1>2. ASSUME NEW b \in Bundles, Publish(b)  PROVE WorldType' /\ Kept
  <2>1. PICK c \in {0, 1} : releases' = [releases EXCEPT ![b] = Append(@, Last(@) + c)]
    BY <1>2 DEF Publish
  <2>2. releases[b] \in Seq(Nat) /\ Len(releases[b]) \in 1 .. changes + 1 /\ changes \in Nat
    BY RebuildAssumption DEF WorldType
  <2>3. Last(releases[b]) \in Nat
    BY <2>2 DEF Last
  <2>4. /\ Append(releases[b], Last(releases[b]) + c) \in Seq(Nat)
        /\ Len(Append(releases[b], Last(releases[b]) + c)) = Len(releases[b]) + 1
        /\ \A t \in 1 .. Len(releases[b]) : Append(releases[b], Last(releases[b]) + c)[t] = releases[b][t]
    BY <2>2, <2>3, AppendFacts
  <2>5. /\ releases' \in [Bundles -> Seq(Nat)] /\ Len(releases'[b]) = Len(releases[b]) + 1
        /\ \A d \in Bundles \ {b} : releases'[d] = releases[d]
        /\ \A t \in 1 .. Len(releases[b]) : releases'[b][t] = releases[b][t]
    BY <2>1, <2>4 DEF WorldType
  <2>6. changes' = changes + 1 /\ changes' \in 0 .. MaxChanges /\ UNCHANGED <<config, offered>>
    BY <1>2, <2>2, RebuildAssumption DEF Publish
  <2>7. ASSUME NEW d \in Bundles  PROVE Len(releases'[d]) \in 1 .. changes' + 1
    <3>1. Len(releases[d]) \in 1 .. changes + 1
      BY DEF WorldType
    <3>2. Len(releases'[d]) \in {Len(releases[d]), Len(releases[d]) + 1}
      BY <2>5
    <3> QED
      BY <2>2, <2>6, <3>1, <3>2
  <2>8. WorldType'
    BY <2>5, <2>6, <2>7 DEF WorldType
  <2> QED
    BY <1>0, <2>5, <2>8, SMTT(40)
<1>3. ASSUME NEW a \in Apps, Offer(a) \/ Configure(a)  PROVE WorldType' /\ Kept
  <2>1. changes' = changes + 1 /\ changes < MaxChanges /\ UNCHANGED releases
    BY <1>3 DEF Offer, Configure
  <2>2. changes' \in 0 .. MaxChanges /\ \A b \in Bundles : Len(releases'[b]) \in 1 .. changes' + 1
    BY <2>1, RebuildAssumption DEF WorldType
  <2>3. offered' \in [Apps -> AppVersions]
    BY <1>3 DEF Offer, Configure, WorldType
  <2>4. config' \in [Apps -> Seq(Bundles)]
    <3>1. \A conf \in ToSet(Configs[a]) : conf \in Seq(Bundles)
      BY RebuildAssumption DEF ToSet
    <3> QED
      BY <1>3, <3>1 DEF Offer, Configure, WorldType
  <2> QED
    BY <1>0, <2>1, <2>2, <2>3, <2>4 DEF WorldType
<1>4. ASSUME NEW r \in Runs, Advance(r) \/ CheckFails(r)  PROVE UNCHANGED world
  BY <1>4 DEF Advance, CheckFails, StartRun, Resources, Decide, Load, Build, Push, Fetch
<1>5. CASE UNCHANGED vars
  BY <1>1, <1>5 DEF vars
<1> QED
  BY <1>1, <1>2, <1>3, <1>4, <1>5 DEF Next

\* What is resolved stays resolved.
LEMMA ResolvedKept ==
  ASSUME WorldType, [Next]_vars, NEW fs, NEW conf, Resolved(fs, conf, releases)
  PROVE  Resolved(fs, conf, releases')
<1> SUFFICES \A i \in 1 .. Len(fs) : fs[i].tag <= Len(releases'[fs[i].bundle])
  BY DEF Resolved
<1> TAKE i \in 1 .. Len(fs)
<1>1. fs[i] \in Files /\ fs[i].tag <= Len(releases[fs[i].bundle])
  BY DEF Resolved
<1>2. fs[i].bundle \in Bundles /\ fs[i].tag \in Int
  BY <1>1 DEF Files, Tags
<1>3. Len(releases[fs[i].bundle]) \in Int /\ Len(releases'[fs[i].bundle]) \in Int
  BY <1>2, ReleasesGrow DEF WorldType
<1> QED
  BY <1>1, <1>2, <1>3, ReleasesGrow

LEMMA ContentsKept ==
  ASSUME WorldType, [Next]_vars, NEW fs, NEW conf, Resolved(fs, conf, releases)
  PROVE  NormHashes(fs)' = NormHashes(fs)
<1> SUFFICES ASSUME NEW i \in 1 .. Len(fs)  PROVE Content(fs[i])' = Content(fs[i])
  BY DEF NormHashes
<1>1. fs[i] \in Files /\ fs[i].tag <= Len(releases[fs[i].bundle])
  BY DEF Resolved
<1>2. fs[i].bundle \in Bundles /\ fs[i].tag \in 1 .. Len(releases[fs[i].bundle])
  BY <1>1 DEF Files, Tags, WorldType
<1> QED
  BY <1>2, ReleasesGrow DEF Content

LEMMA HashKept ==
  ASSUME WorldType, [Next]_vars, NEW e, Recorded(e)  PROVE BuildHash(e)' = BuildHash(e)
<1>1. NormHashes(e.files)' = NormHashes(e.files)
  BY ContentsKept DEF Recorded
<1> QED
  BY <1>1 DEF BuildHash, Arranged, ByName, SortedBy

------------------------------------------------------------------------------
(* Resolving the bundles of an app.                                          *)

LEMMA DownloadedTags ==
  ASSUME WorldType, NEW tags \in [Bundles -> Nat], \A b \in Bundles : tags[b] <= Len(releases[b]),
         NEW conf \in Seq(Bundles)
  PROVE  /\ Downloaded(tags, conf) \in [Bundles -> Nat]
         /\ \A b \in Bundles : Downloaded(tags, conf)[b] <= Len(releases[b])
         /\ \A i \in 1 .. Len(conf) : Downloaded(tags, conf)[conf[i]] # 0
<1>1. \A b \in Bundles : Len(releases[b]) \in Nat /\ Len(releases[b]) # 0
  BY DEF WorldType
<1>2. \A i \in 1 .. Len(conf) : conf[i] \in Bundles /\ conf[i] \in ToSet(conf)
  BY DEF ToSet
<1> QED
  BY <1>1, <1>2 DEF Downloaded

LEMMA TaggedResolved ==
  ASSUME WorldType, NEW tags \in [Bundles -> Nat], \A b \in Bundles : tags[b] <= Len(releases[b]),
         NEW conf \in Seq(Bundles), \A i \in 1 .. Len(conf) : tags[conf[i]] # 0, NEW cached
  PROVE  Resolved(Tagged(tags, conf, cached), conf, releases)
<1> DEFINE n     == Len(conf)
           key   == [i \in 1 .. n |-> IF conf[i] \in cached THEN 0 ELSE 1]
           order == SortedBy(key)
           fs    == Tagged(tags, conf, cached)
<1>1. n \in Nat /\ \A i \in 1 .. n : conf[i] \in Bundles
  OBVIOUS
<1>2. key \in [1 .. n -> Int]
  OBVIOUS
<1>3. order \in [1 .. n -> 1 .. n] /\ Injective(order)
  BY <1>1, <1>2, SortedByFacts
<1>4. fs = [k \in 1 .. n |-> [bundle |-> conf[order[k]], tag |-> tags[conf[order[k]]]]]
  BY DEF Tagged
<1> HIDE DEF n, order, fs
<1>5. ASSUME NEW k \in 1 .. n
      PROVE  /\ fs[k] \in Files /\ fs[k].bundle = conf[order[k]] /\ fs[k].tag = tags[fs[k].bundle]
             /\ fs[k].tag <= Len(releases[fs[k].bundle])
  <2>1. order[k] \in 1 .. n /\ conf[order[k]] \in Bundles /\ tags[conf[order[k]]] \in Nat \ {0}
    BY <1>1, <1>3 DEF n
  <2>2. fs[k] = [bundle |-> conf[order[k]], tag |-> tags[conf[order[k]]]]
    BY <1>4
  <2>3. tags[conf[order[k]]] <= Len(releases[conf[order[k]]]) /\ Len(releases[conf[order[k]]]) \in 1 .. changes + 1
        /\ changes \in 0 .. MaxChanges
    BY <2>1 DEF WorldType
  <2>4. tags[conf[order[k]]] \in Tags
    BY <2>1, <2>3, RebuildAssumption, SMTT(40) DEF Tags
  <2> QED
    BY <2>1, <2>2, <2>3, <2>4 DEF Files
<1>6. fs \in Seq(Files) /\ Len(fs) = n
  BY <1>1, <1>4, <1>5
<1> QED
  BY <1>3, <1>5, <1>6 DEF Resolved, n, fs

\* An entry that a build records.
LEMMA EntryRecorded ==
  ASSUME WorldType, NEW a \in Apps, NEW fs, Resolved(fs, config[a], releases), NEW p \in Entries
  PROVE  /\ Entry(a, fs, p) \in RecordedEntries
         /\ Grown(p, Entry(a, fs, p))
<1> DEFINE new == [files |-> fs, sources |-> config[a], version |-> offered[a], revision |-> 0]
           e   == Entry(a, fs, p)
<1>1. e = [files |-> fs, sources |-> config[a], version |-> offered[a], revision |-> Revision(p, new)]
  BY DEF Entry
<1>2. Revision(p, new) \in Nat
  BY DEF Revision, Entries
<1>3. e \in Entries
  BY <1>1, <1>2 DEF Entries, Resolved, WorldType
<1>4. Recorded(e)
  BY <1>1 DEF Recorded
<1>5. e.version = new.version /\ BuildHash(e) = BuildHash(new) /\ e.revision = Revision(p, new)
  BY <1>1 DEF BuildHash
<1>6. Grown(p, e)
  BY <1>5 DEF Grown, Revision
<1> QED
  BY <1>3, <1>4, <1>6 DEF RecordedEntries

------------------------------------------------------------------------------
(* Every step preserves the invariant.                                       *)

LEMMA NothingRecorded == NoRecord \in [Apps -> RecordedEntries]
<1>1. /\ NoEntry.files = <<>> /\ NoEntry.sources = <<>> /\ NoEntry \in Entries
      /\ Len(<<>>) = 0 /\ <<>> \in Seq(Files)
  BY DEF NoEntry, Entries
<1>2. Resolved(<<>>, <<>>, releases)
  <2> DEFINE p == [i \in 1 .. 0 |-> i]
  <2>1. p \in [1 .. 0 -> 1 .. 0] /\ Injective(p)
    BY DEF Injective
  <2>2. \A i \in 1 .. Len(<<>>) : FALSE
    BY <1>1
  <2> HIDE DEF p
  <2>3. \E f \in [1 .. Len(<<>>) -> 1 .. Len(<<>>)] :
          Injective(f) /\ \A k \in 1 .. Len(<<>>) : <<>>[k].bundle = <<>>[f[k]]
    BY <1>1, <2>1, <2>2
  <2> QED
    BY <1>1, <2>2, <2>3 DEF Resolved
<1> QED
  BY <1>1, <1>2 DEF Recorded, RecordedEntries, NoRecord

LEMMA InitInv == Init => RebuildInv
<1> SUFFICES ASSUME Init  PROVE RebuildInv
  OBVIOUS
<1>1. WorldType
  <2>1. releases \in [Bundles -> Seq(Nat)] /\ \A b \in Bundles : Len(releases[b]) = 1
    BY DEF Init
  <2>2. config \in [Apps -> Seq(Bundles)]
    <3>1. \A a \in Apps : Configs[a][1] \in Seq(Bundles)
      BY RebuildAssumption
    <3> QED
      BY <3>1 DEF Init
  <2>3. offered \in [Apps -> AppVersions]
    BY RebuildAssumption DEF Init
  <2>4. changes = 0 /\ changes \in 0 .. MaxChanges
    BY RebuildAssumption DEF Init
  <2> QED
    BY <2>1, <2>2, <2>3, <2>4 DEF WorldType
<1>2. RunType
  BY <1>1 DEF Init, RunType, NoCache, WorldType
<1>3. EntryInv
  BY NothingRecorded DEF Init, EntryInv
<1>4. CheckInv /\ GrowthInv
  BY DEF Init, CheckInv, CheckOf, GrowthInv
<1> QED
  BY <1>1, <1>2, <1>3, <1>4 DEF RebuildInv

LEMMA RunTypeNext == ASSUME RebuildInv, [Next]_vars  PROVE RunType'
<1> USE DEF RebuildInv
<1>1. ASSUME UNCHANGED <<at, todo, needed, cache, files, built>>  PROVE RunType'
  <2>1. ASSUME NEW r \in Runs, NEW b \in Bundles  PROVE cache[r][b] <= Len(releases'[b])
    <3>1. cache[r][b] \in Int /\ Len(releases[b]) \in Int /\ Len(releases'[b]) \in Int
      BY ReleasesGrow DEF RunType, WorldType
    <3>2. cache[r][b] <= Len(releases[b]) /\ Len(releases[b]) <= Len(releases'[b])
      BY ReleasesGrow DEF RunType
    <3> QED
      BY <3>1, <3>2
  <2> QED
    BY <1>1, <2>1 DEF RunType
<1>2. ASSUME NEW r \in Runs, Reset(r), UNCHANGED releases  PROVE RunType'
  BY <1>2 DEF Reset, Goto, RunType, NoCache, WorldType
<1>3. ASSUME NEW r \in Runs, StartRun(r)  PROVE RunType'
  BY <1>3, RebuildAssumption DEF StartRun, Goto, RunType, world
<1>4. ASSUME NEW r \in Runs, NEW f, NEW l, Fetch(r, f, l),
             l \in {"sources", "resources", "bundles"}  PROVE RunType'
  BY <1>4 DEF Fetch, Goto, RunType, world
<1>5. ASSUME NEW r \in Runs, Resources(r) \/ Build(r), todo[r] # <<>>  PROVE RunType'
  <2> DEFINE conf == config[Head(todo[r])]
             tags == Downloaded(cache[r], conf)
  <2>1. Head(todo[r]) \in Apps /\ Tail(todo[r]) \in Seq(Apps)
    BY <1>5 DEF RunType
  <2>2. /\ tags \in [Bundles -> Nat]
        /\ \A b \in Bundles : tags[b] <= Len(releases[b])
    BY <2>1, DownloadedTags DEF RunType, WorldType
  <2>3. /\ cache' = [cache EXCEPT ![r] = tags] /\ UNCHANGED <<releases, needed>>
        /\ UNCHANGED built \/ built' = [built EXCEPT ![r] = TRUE]
    BY <1>5 DEF Resources, Build, world
  <2>4. todo' \in [Runs -> Seq(Apps)]
    BY <1>5, <2>1 DEF Resources, Build, RunType
  <2>5. UNCHANGED at \/ at' = [at EXCEPT ![r] = "hashes"]
    BY <1>5 DEF Resources, Build, Goto
  <2>6. files' \in [Runs -> Seq(Files)]
    <3>1. ASSUME NEW cached  PROVE Tagged(tags, conf, cached) \in Seq(Files)
      <4>1. conf \in Seq(Bundles) /\ cache[r] \in [Bundles -> Nat] /\ \A b \in Bundles : cache[r][b] <= Len(releases[b])
        BY <2>1 DEF RunType, WorldType
      <4>2. \A i \in 1 .. Len(conf) : tags[conf[i]] # 0
        BY <4>1, DownloadedTags
      <4> HIDE DEF tags
      <4>3. Resolved(Tagged(tags, conf, cached), conf, releases)
        BY <2>2, <4>1, <4>2, TaggedResolved
      <4> QED
        BY <4>3 DEF Resolved
    <3> HIDE DEF tags
    <3>2. UNCHANGED files \/ \E cached : files' = [files EXCEPT ![r] = Tagged(tags, conf, cached)]
      BY <1>5 DEF Resources, Build, tags
    <3> QED
      BY <3>1, <3>2, ZenonT(60) DEF RunType
  <2> HIDE DEF tags
  <2> QED
    BY <2>2, <2>3, <2>4, <2>5, <2>6 DEF RunType
<1>6. ASSUME NEW r \in Runs, Decide(r), todo[r] # <<>>  PROVE RunType'
  <2>1. Head(todo[r]) \in Apps /\ Tail(todo[r]) \in Seq(Apps) /\ Append(needed[r], Head(todo[r])) \in Seq(Apps)
    BY <1>6 DEF RunType
  <2>2. UNCHANGED releases
    BY <1>6 DEF Decide, world
  <2>3. CASE Reset(r)
    BY <1>2, <2>2, <2>3
  <2>4. CASE ~Reset(r)
    <3>1. PICK list \in {Append(needed[r], Head(todo[r])), needed[r]} : needed' = [needed EXCEPT ![r] = list]
      BY <1>6, <2>4 DEF Decide
    <3>2. /\ todo' = [todo EXCEPT ![r] = Tail(@)] /\ files' = [files EXCEPT ![r] = <<>>]
          /\ UNCHANGED <<cache, built>>
          /\ at' = [at EXCEPT ![r] = "load"] \/ at' = [at EXCEPT ![r] = "versions"]
      BY <1>6, <2>4 DEF Decide, Goto
    <3>3. todo' \in [Runs -> Seq(Apps)] /\ needed' \in [Runs -> Seq(Apps)]
      BY <2>1, <3>1, <3>2 DEF RunType
    <3>4. files' \in [Runs -> Seq(Files)]
      BY <3>2 DEF RunType
    <3> QED
      BY <2>2, <3>2, <3>3, <3>4 DEF RunType
  <2> QED
    BY <2>3, <2>4
<1>7. ASSUME NEW r \in Runs, Load(r)  PROVE RunType'
  BY <1>7 DEF Load, Goto, RunType, NoCache, WorldType, world
<1>8. ASSUME NEW r \in Runs, Push(r) \/ CheckFails(r)  PROVE RunType'
  BY <1>2, <1>8 DEF Push, CheckFails, world
<1>9. ASSUME NEW r \in Runs, Resources(r) \/ Build(r) \/ Decide(r)  PROVE todo[r] # <<>>
  BY <1>9 DEF Resources, Build, Decide, CheckInv, CheckOf
<1> QED
  BY <1>1, <1>3, <1>4, <1>5, <1>6, <1>7, <1>8, <1>9
     DEF Next, Advance, Publish, Offer, Configure, vars

LEMMA EntryNext == ASSUME RebuildInv, [Next]_vars  PROVE EntryInv'
<1> USE DEF RebuildInv
<1>1. \A x \in RecordedEntries : x \in RecordedEntries'
  BY ResolvedKept DEF RecordedEntries, Recorded
<1>2. /\ record \in [Apps -> RecordedEntries']
      /\ older \in [Runs -> [Apps -> RecordedEntries']] /\ info \in [Runs -> [Apps -> RecordedEntries']]
      /\ NoRecord \in [Apps -> RecordedEntries']
  BY <1>1, NothingRecorded DEF EntryInv
<1>3. CASE UNCHANGED <<record, older, info>>
  BY <1>2, <1>3 DEF EntryInv
<1>4. ASSUME NEW r \in Runs, Reset(r), record' = record \/ record' = info[r]  PROVE EntryInv'
  BY <1>2, <1>4 DEF Reset, EntryInv
<1>5. ASSUME NEW r \in Runs, Load(r)  PROVE EntryInv'
  <2>1. older' \in [Runs -> [Apps -> RecordedEntries']]
    BY <1>2, <1>5 DEF Load
  <2>2. info' = [info EXCEPT ![r] = older'[r]] /\ record' = record
    BY <1>5 DEF Load
  <2> QED
    BY <1>2, <2>1, <2>2 DEF EntryInv
<1>6. ASSUME NEW r \in Runs, Build(r)  PROVE EntryInv'
  <2> DEFINE a    == Head(todo[r])
             tags == Downloaded(cache[r], config[a])
  <2>1. UNCHANGED <<record, older>>
    BY <1>6 DEF Build
  <2>2. CASE UNCHANGED info
    BY <1>2, <2>1, <2>2 DEF EntryInv
  <2>3. ASSUME NEW cached, info' = [info EXCEPT ![r][a] = Entry(a, Tagged(tags, config[a], cached), older[r][a])]
        PROVE  EntryInv'
    <3>1. a \in Apps /\ config[a] \in Seq(Bundles) /\ cache[r] \in [Bundles -> Nat]
          /\ \A b \in Bundles : cache[r][b] <= Len(releases[b])
      BY <1>6 DEF Build, RunType, WorldType
    <3>2. Resolved(Tagged(tags, config[a], cached), config[a], releases)
      BY <3>1, DownloadedTags, TaggedResolved
    <3>3. older[r][a] \in Entries
      BY <3>1 DEF EntryInv, RecordedEntries
    <3>4. Entry(a, Tagged(tags, config[a], cached), older[r][a]) \in RecordedEntries'
      BY <1>1, <3>1, <3>2, <3>3, EntryRecorded
    <3> HIDE DEF a, tags
    <3>5. info' \in [Runs -> [Apps -> RecordedEntries']]
      BY <1>2, <2>3, <3>1, <3>4
    <3> QED
      BY <1>2, <2>1, <3>5 DEF EntryInv
  <2> QED
    BY <1>6, <2>2, <2>3 DEF Build
<1>7. ASSUME NEW r \in Runs, Decide(r)  PROVE EntryInv'
  BY <1>3, <1>4, <1>7 DEF Decide
<1>8. ASSUME NEW r \in Runs, Push(r) \/ CheckFails(r)  PROVE EntryInv'
  BY <1>4, <1>8 DEF Push, CheckFails
<1> QED
  BY <1>3, <1>5, <1>6, <1>7, <1>8
     DEF Next, Advance, StartRun, Fetch, Resources, Publish, Offer, Configure, vars

LEMMA CheckNext == ASSUME RebuildInv, [Next]_vars  PROVE CheckInv'
<1> USE DEF RebuildInv
<1> SUFFICES ASSUME NEW q \in Runs  PROVE CheckOf(q)'
  BY DEF CheckInv
<1>0. CheckOf(q) /\ q \in DOMAIN at /\ q \in DOMAIN todo /\ todo[q] \in Seq(Apps)
  BY DEF CheckInv, RunType
<1>1. ASSUME at'[q] = at[q], todo'[q] = todo[q], files'[q] = files[q],
             config' = config \/ at[q] = "idle"
      PROVE  CheckOf(q)'
  <2>1. CASE at[q] = "idle"
    BY <1>1, <2>1 DEF CheckOf
  <2>2. CASE at[q] # "idle"
    <3>1. Resolved(files[q], config[Head(todo[q])], releases) => Resolved(files'[q], config'[Head(todo'[q])], releases')
      BY <1>1, <2>2, ResolvedKept
    <3> QED
      BY <1>0, <1>1, <3>1 DEF CheckOf
  <2> QED
    BY <2>1, <2>2
<1>2. ASSUME NEW r \in Runs, r # q, Advance(r) \/ CheckFails(r)  PROVE CheckOf(q)'
  <2>1. config' = config /\ at'[q] = at[q] /\ todo'[q] = todo[q] /\ files'[q] = files[q]
    BY <1>2 DEF Advance, StartRun, Fetch, Resources, Decide, Load, Build, Push, CheckFails, Reset, Goto,
                world, RunType
  <2> QED
    BY <1>1, <2>1
<1>3. CASE StartRun(q)
  BY <1>0, <1>3, RebuildAssumption DEF StartRun, Goto, CheckOf, RunType
<1>4. CASE Fetch(q, "versions", "sources") \/ Fetch(q, "sources", "resources")
  BY <1>0, <1>4 DEF Fetch, Goto, CheckOf, RunType
<1>5. CASE Fetch(q, "hashes", "bundles")
  <2>1. /\ at[q] = "hashes" /\ at'[q] = "bundles" /\ todo'[q] = todo[q] /\ files'[q] = files[q]
        /\ config' = config /\ releases' = releases
    BY <1>0, <1>5 DEF Fetch, Goto, world
  <2> QED
    BY <1>0, <2>1 DEF CheckOf
<1>6. CASE Resources(q)
  <2> DEFINE conf == config[Head(todo[q])]
             tags == Downloaded(cache[q], conf)
  <2>1. at[q] = "resources" /\ todo[q] # <<>>
    BY <1>0, <1>6 DEF Resources, CheckOf
  <2>2. conf \in Seq(Bundles) /\ cache[q] \in [Bundles -> Nat] /\ \A b \in Bundles : cache[q][b] <= Len(releases[b])
    BY <2>1 DEF WorldType, RunType
  <2>3. Resolved(Tagged(tags, conf, {b \in Bundles : cache[q][b] # 0}), conf, releases)
    BY <2>2, DownloadedTags, TaggedResolved
  <2>4. /\ todo'[q] = todo[q] /\ config' = config /\ releases' = releases
        /\ files'[q] = Tagged(tags, conf, {b \in Bundles : cache[q][b] # 0})
    BY <1>6 DEF Resources, world, RunType
  <2> QED
    BY <2>1, <2>3, <2>4 DEF CheckOf
<1>7. CASE Decide(q)
  <2>1. CASE at'[q] \in {"idle", "load"}
    BY <2>1 DEF CheckOf
  <2>2. CASE at'[q] \notin {"idle", "load"}
    <3>1. todo[q] # <<>> /\ Tail(todo[q]) \in Seq(Apps) /\ Len(todo[q]) \in Nat /\ Len(todo[q]) # 0
      BY <1>0, <1>7 DEF Decide, CheckOf
    <3>2. at'[q] = "versions" /\ Len(todo[q]) # 1 /\ todo'[q] = Tail(todo[q])
      BY <1>0, <1>7, <2>2 DEF Decide, Reset, Goto
    <3>3. Len(Tail(todo[q])) # 0 /\ Len(<<>>) = 0
      BY <3>1, <3>2
    <3>4. todo'[q] # <<>>
      BY <3>2, <3>3
    <3> QED
      BY <3>2, <3>4 DEF CheckOf
  <2> QED
    BY <2>1, <2>2
<1>8. CASE Load(q) \/ Build(q) \/ Push(q) \/ CheckFails(q)
  <2>1. at'[q] \in {"build", "idle"}
    BY <1>0, <1>8 DEF Load, Build, Push, CheckFails, Reset, Goto
  <2> QED
    BY <2>1 DEF CheckOf
<1>9. CASE \/ \E b \in Bundles : Publish(b)
           \/ \E a \in Apps : Offer(a) \/ Configure(a)
  BY <1>1, <1>9 DEF Publish, Offer, Configure
<1>10. CASE UNCHANGED vars
  BY <1>1, <1>10 DEF vars, world
<1> QED
  BY <1>2, <1>3, <1>4, <1>5, <1>6, <1>7, <1>8, <1>9, <1>10 DEF Next, Advance

LEMMA GrowthNext == ASSUME RebuildInv, [Next]_vars  PROVE GrowthInv'
<1> USE DEF RebuildInv
<1>1. ASSUME NEW g \in Growths  PROVE g \in Growths'
  <2>1. g[1] \in RecordedEntries' /\ g[2] \in RecordedEntries' /\ g \in RecordedEntries' \X RecordedEntries'
    BY ResolvedKept DEF Growths, RecordedEntries, Recorded
  <2>2. BuildHash(g[1])' = BuildHash(g[1]) /\ BuildHash(g[2])' = BuildHash(g[2])
    BY HashKept DEF Growths, RecordedEntries
  <2>3. Grown(g[1], g[2])'
    BY <2>2 DEF Growths, Grown
  <2> QED
    BY <2>1, <2>3 DEF Growths
<1>2. ASSUME NEW x \in RecordedEntries'  PROVE <<x, x>> \in Growths'
  BY DEF Growths, Grown
<1>3. EntryInv'
  BY EntryNext
<1> SUFFICES ASSUME NEW q \in Runs, at'[q] = "build", NEW a \in Apps
             PROVE  <<older'[q][a], info'[q][a]>> \in Growths'
  BY DEF GrowthInv
<1>4. ASSUME at'[q] = at[q], older'[q] = older[q], info'[q] = info[q]
      PROVE  <<older'[q][a], info'[q][a]>> \in Growths'
  BY <1>1, <1>4 DEF GrowthInv
<1>5. ASSUME NEW r \in Runs, r # q, Advance(r) \/ CheckFails(r)
      PROVE  at'[q] = at[q] /\ older'[q] = older[q] /\ info'[q] = info[q]
  BY <1>5 DEF Advance, StartRun, Fetch, Resources, Decide, Load, Build, Push, CheckFails, Reset, Goto,
              RunType, EntryInv
<1>6. CASE StartRun(q) \/ Resources(q) \/ Decide(q) \/ Push(q) \/ CheckFails(q)
           \/ Fetch(q, "versions", "sources") \/ Fetch(q, "sources", "resources") \/ Fetch(q, "hashes", "bundles")
  <2>1. at'[q] # "build"
    BY <1>6 DEF StartRun, Resources, Decide, Push, CheckFails, Fetch, Reset, Goto, RunType
  <2> QED
    BY <2>1
<1>7. CASE Load(q)
  <2>1. info'[q] = older'[q]
    BY <1>7 DEF Load, EntryInv
  <2>2. older'[q][a] \in RecordedEntries'
    BY <1>3 DEF EntryInv
  <2> QED
    BY <1>2, <2>1, <2>2
<1>8. CASE Build(q)
  <2> DEFINE b    == Head(todo[q])
             tags == Downloaded(cache[q], config[b])
  <2>1. at'[q] = at[q] /\ older'[q] = older[q]
    BY <1>8 DEF Build
  <2>2. CASE UNCHANGED info
    BY <1>4, <2>1, <2>2
  <2>3. ASSUME NEW cached, info' = [info EXCEPT ![q][b] = Entry(b, Tagged(tags, config[b], cached), older[q][b])]
        PROVE  <<older'[q][a], info'[q][a]>> \in Growths'
    <3>1. b \in Apps /\ config[b] \in Seq(Bundles) /\ cache[q] \in [Bundles -> Nat]
          /\ \A c \in Bundles : cache[q][c] <= Len(releases[c])
      <4>1. todo[q] \in Seq(Apps) /\ todo[q] # <<>>
        BY <1>8 DEF Build, RunType
      <4>2. b \in Apps
        BY <4>1
      <4> HIDE DEF b
      <4> QED
        BY <4>2 DEF RunType, WorldType
    <3>2. Resolved(Tagged(tags, config[b], cached), config[b], releases)
      BY <3>1, DownloadedTags, TaggedResolved
    <3>3. older[q][b] \in RecordedEntries /\ older[q][b] \in Entries
      BY <3>1 DEF EntryInv, RecordedEntries
    <3> DEFINE e == Entry(b, Tagged(tags, config[b], cached), older[q][b])
    <3>4. e \in RecordedEntries /\ Grown(older[q][b], e)
      BY <3>1, <3>2, <3>3, EntryRecorded
    <3> HIDE DEF b, tags, e
    <3>5. <<older[q][b], e>> \in Growths
      BY <3>3, <3>4 DEF Growths
    <3>6. IF a = b THEN info'[q][a] = e ELSE info'[q][a] = info[q][a]
      BY <2>3, <3>1 DEF EntryInv, e
    <3>7. <<older[q][a], info[q][a]>> \in Growths
      BY <2>1 DEF GrowthInv
    <3> QED
      BY <1>1, <2>1, <3>5, <3>6, <3>7
  <2> QED
    BY <1>8, <2>2, <2>3 DEF Build
<1>9. CASE \/ \E b \in Bundles : Publish(b)
           \/ \E b \in Apps : Offer(b) \/ Configure(b)
  BY <1>4, <1>9 DEF Publish, Offer, Configure
<1>10. CASE UNCHANGED vars
  BY <1>4, <1>10 DEF vars
<1> QED
  BY <1>4, <1>5, <1>6, <1>7, <1>8, <1>9, <1>10 DEF Next, Advance

\* Whatever a run checks, builds or pushes, and however runs overlap: what is
\* recorded or held are files of the bundles it was built for, and what a build
\* has recorded anew counts up from what its run loaded.
THEOREM RebuildInvariant == Spec => []RebuildInv
<1>1. RebuildInv /\ [Next]_vars => RebuildInv'
  BY ReleasesGrow, RunTypeNext, EntryNext, CheckNext, GrowthNext DEF RebuildInv
<1> QED
  BY InitInv, <1>1, PTL DEF Spec

\* As long as a run pushes what it loaded, a build that differs from the
\* recorded one of its version gets a greater revision (get_build_revision).
THEOREM RevisionsAlwaysGrow == Spec => RevisionsGrow
<1>1. ASSUME RebuildInv, [Next]_vars, NEW r \in Runs, NEW a \in Apps,
             Push(r), older[r] = record, record[a].version = record'[a].version
      PROVE  /\ record'[a].revision >= record[a].revision
             /\ BuildHash(record[a]) # BuildHash(record'[a]) => record'[a].revision > record[a].revision
  <2>1. record[a] \in Entries /\ record[a].revision \in Nat
    BY <1>1 DEF RebuildInv, EntryInv, RecordedEntries, Entries
  <2>2. CASE record' = record
    BY <2>1, <2>2
  <2>3. CASE record' = info[r]
    <3>1. <<record[a], record'[a]>> \in Growths
      BY <1>1, <2>3 DEF RebuildInv, GrowthInv, Push
    <3>2. Grown(record[a], record'[a])
      BY <3>1 DEF Growths
    <3> QED
      BY <1>1, <2>1, <3>2 DEF Grown
  <2> QED
    BY <1>1, <2>2, <2>3 DEF Push
<1>2. RebuildInv /\ [Next]_vars =>
        [\A r \in Runs : \A a \in Apps :
           Push(r) /\ older[r] = record /\ record[a].version = record'[a].version /\ record[a] # NoEntry =>
             /\ record'[a].revision >= record[a].revision
             /\ BuildHash(record[a]) # BuildHash(record'[a]) => record'[a].revision > record[a].revision]_vars
  BY <1>1
<1> QED
  BY RebuildInvariant, <1>2, PTL DEF Spec, RevisionsGrow

------------------------------------------------------------------------------
(* What a check decides.                                                     *)

\* s finds each of n files in a list of files of the same bundles.
Matches(s, n, fs1, fs2) ==
  s \in [1 .. n -> 1 .. n] /\ Injective(s) /\ \A i \in 1 .. n : fs2[s[i]].bundle = fs1[i].bundle

\* Two lists of the files of one configuration match.
LEMMA Matching ==
  ASSUME NEW conf \in Seq(Bundles), NEW fs1, NEW fs2,
         Resolved(fs1, conf, releases), Resolved(fs2, conf, releases)
  PROVE  \E s : Matches(s, Len(conf), fs1, fs2)
<1> DEFINE n == Len(conf)
<1>0. n \in Nat
  OBVIOUS
<1>1. PICK p \in [1 .. n -> 1 .. n] : Injective(p) /\ \A i \in 1 .. n : fs1[i].bundle = conf[p[i]]
  BY DEF Resolved
<1>2. PICK q \in [1 .. n -> 1 .. n] : Injective(q) /\ \A i \in 1 .. n : fs2[i].bundle = conf[q[i]]
  BY DEF Resolved
<1> HIDE DEF n
<1> DEFINE s == [i \in 1 .. n |-> CHOOSE k \in 1 .. n : q[k] = p[i]]
<1>3. ASSUME NEW i \in 1 .. n  PROVE s[i] \in 1 .. n /\ q[s[i]] = p[i]
  <2>1. p[i] \in 1 .. n
    BY <1>1
  <2>2. \E k \in 1 .. n : q[k] = p[i]
    BY <1>0, <1>2, <2>1, Onto
  <2> QED
    BY <2>2
<1>4. s \in [1 .. n -> 1 .. n]
  BY <1>3
<1> HIDE DEF s
<1>5. Injective(s)
  BY <1>1, <1>3, <1>4 DEF Injective
<1>6. \A i \in 1 .. n : fs2[s[i]].bundle = fs1[i].bundle
  BY <1>1, <1>2, <1>3, SMTT(40)
<1> QED
  BY <1>4, <1>5, <1>6 DEF n, Matches

\* The key of each file is the rank of its name.
Names(fs) == [i \in 1 .. Len(fs) |-> Rank[fs[i].bundle][fs[i].tag]]

\* The recorded hashes by file name: of each file its contents.
LEMMA ArrangedFacts ==
  ASSUME NEW fs \in Seq(Files), NEW n \in Nat, Len(fs) = n
  PROVE  /\ Names(fs) \in [1 .. n -> Int] /\ ByName(fs) = SortedBy(Names(fs))
         /\ ByName(fs) \in [1 .. n -> 1 .. n]
         /\ \A i \in 1 .. n : \E k \in 1 .. n : ByName(fs)[k] = i
         /\ Arranged(NormHashes(fs), fs) = [k \in 1 .. n |-> Content(fs[ByName(fs)[k]])]
<1>1. ASSUME NEW i \in 1 .. n  PROVE fs[i].bundle \in Bundles /\ fs[i].tag \in Tags
  <2>1. fs[i] \in Files
    OBVIOUS
  <2> QED
    BY <2>1 DEF Files
<1>2. Names(fs) \in [1 .. n -> Int]
  BY <1>1, RebuildAssumption DEF Names
<1>3. ByName(fs) = SortedBy(Names(fs))
  BY DEF ByName, Names
<1>4. /\ SortedBy(Names(fs)) \in [1 .. n -> 1 .. n]
      /\ \A i \in 1 .. n : \E k \in 1 .. n : SortedBy(Names(fs))[k] = i
  BY <1>2, SortedByFacts
<1>5. Arranged(NormHashes(fs), fs) = [k \in 1 .. n |-> Content(fs[ByName(fs)[k]])]
  BY <1>3, <1>4 DEF Arranged, NormHashes
<1> QED
  BY <1>2, <1>3, <1>4, <1>5

\* Lists whose keys compare alike are sorted alike.
LEMMA SortedAlike ==
  ASSUME NEW n \in Nat, NEW key1 \in [1 .. n -> Int], NEW key2 \in [1 .. n -> Int],
         \A i, j \in 1 .. n : key1[i] < key1[j] <=> key2[i] < key2[j]
  PROVE  SortedBy(key1) = SortedBy(key2)
<1>1. ASSUME NEW order \in [1 .. n -> 1 .. n]  PROVE InOrder(key1, order) <=> InOrder(key2, order)
  <2>1. DOMAIN key1 = 1 .. n /\ DOMAIN key2 = 1 .. n
    OBVIOUS
  <2> DEFINE Stand(key, i, j) == \/ key[order[i]] < key[order[j]]
                                 \/ key[order[i]] = key[order[j]] /\ order[i] < order[j]
  <2>2. ASSUME NEW i \in 1 .. n, NEW j \in 1 .. n  PROVE Stand(key1, i, j) <=> Stand(key2, i, j)
    <3>1. order[i] \in 1 .. n /\ order[j] \in 1 .. n
      OBVIOUS
    <3>2. /\ key1[order[i]] \in Int /\ key1[order[j]] \in Int /\ key2[order[i]] \in Int /\ key2[order[j]] \in Int
          /\ key1[order[i]] < key1[order[j]] <=> key2[order[i]] < key2[order[j]]
          /\ key1[order[j]] < key1[order[i]] <=> key2[order[j]] < key2[order[i]]
      BY <3>1
    <3> DEFINE a == key1[order[i]]
               b == key1[order[j]]
               c == key2[order[i]]
               d == key2[order[j]]
    <3>3. a \in Int /\ b \in Int /\ c \in Int /\ d \in Int /\ (a < b <=> c < d) /\ (b < a <=> d < c)
      BY <3>2
    <3> HIDE DEF a, b, c, d
    <3>4. a = b <=> c = d
      BY <3>3
    <3>5. key1[order[i]] = key1[order[j]] <=> key2[order[i]] = key2[order[j]]
      BY <3>4 DEF a, b, c, d
    <3> QED
      BY <3>2, <3>5
  <2>3. /\ InOrder(key1, order) <=> \A i, j \in 1 .. n : i < j => Stand(key1, i, j)
        /\ InOrder(key2, order) <=> \A i, j \in 1 .. n : i < j => Stand(key2, i, j)
    BY <2>1 DEF InOrder
  <2> HIDE DEF Stand
  <2> QED
    BY <2>2, <2>3
<1> DEFINE S(key) == {order \in [1 .. n -> 1 .. n] : InOrder(key, order)}
<1>2. S(key1) = S(key2)
  BY <1>1
<1>3. SortedBy(key1) = CHOOSE order : order \in S(key1)
  BY DEF SortedBy, InOrder
<1>4. SortedBy(key2) = CHOOSE order : order \in S(key2)
  BY DEF SortedBy, InOrder
<1> HIDE DEF S
<1> QED
  BY <1>2, <1>3, <1>4

\* Files of the same contents whose bundles stand in the same order of names
\* have the same hashes by file name, in whatever order they came.
LEMMA SameHashes ==
  ASSUME NEW conf \in Seq(Bundles), NEW fs1, NEW fs2,
         Resolved(fs1, conf, releases), Resolved(fs2, conf, releases), SameOrderedContents(fs1, fs2)
  PROVE  Arranged(NormHashes(fs1), fs1) = Arranged(NormHashes(fs2), fs2)
<1>2. PICK s : Matches(s, Len(conf), fs1, fs2)
  BY Matching
<1> DEFINE n  == Len(conf)
           gs == [i \in 1 .. n |-> fs2[s[i]]]
<1>1. /\ n \in Nat /\ Len(fs1) = n /\ Len(fs2) = n /\ fs1 \in Seq(Files) /\ fs2 \in Seq(Files)
      /\ \A i \in 1 .. n : fs1[i] \in Files /\ fs2[i] \in Files
      /\ DOMAIN fs1 = 1 .. n /\ DOMAIN fs2 = 1 .. n
      /\ \A i, j \in 1 .. n : fs1[i].bundle = fs1[j].bundle => fs1[i].tag = fs1[j].tag
      /\ \A i, j \in 1 .. n : fs2[i].bundle = fs2[j].bundle => fs2[i].tag = fs2[j].tag
  BY DEF Resolved
<1>a. /\ s \in [1 .. n -> 1 .. n] /\ Injective(s)
      /\ \A i \in 1 .. n : fs2[s[i]].bundle = fs1[i].bundle
  BY <1>2 DEF Matches
<1> HIDE DEF n
<1>b. ASSUME NEW i \in 1 .. n
      PROVE  /\ fs1[i] = [bundle |-> fs1[i].bundle, tag |-> fs1[i].tag]
             /\ fs2[i] = [bundle |-> fs2[i].bundle, tag |-> fs2[i].tag]
             /\ fs1[i].bundle \in Bundles /\ fs1[i].tag \in Tags
             /\ fs2[i].bundle \in Bundles /\ fs2[i].tag \in Tags
             /\ fs1[i] \in ToSet(fs1) /\ fs2[i] \in ToSet(fs2) /\ s[i] \in 1 .. n
             /\ gs[i] = fs2[s[i]] /\ gs[i] \in Files
  <2>1. fs1[i] \in Files /\ fs2[i] \in Files /\ s[i] \in 1 .. n /\ fs2[s[i]] \in Files
    BY <1>1, <1>a
  <2>2. fs1[i] \in ToSet(fs1) /\ fs2[i] \in ToSet(fs2)
    BY <1>1 DEF ToSet
  <2> QED
    BY <2>1, <2>2 DEF Files
<1>3. gs \in Seq(Files) /\ Len(gs) = n
  BY <1>1, <1>b
<1> HIDE DEF gs
<1>4. /\ Names(fs1) \in [1 .. n -> Int] /\ ByName(fs1) = SortedBy(Names(fs1))
      /\ ByName(fs1) \in [1 .. n -> 1 .. n]
      /\ Arranged(NormHashes(fs1), fs1) = [k \in 1 .. n |-> Content(fs1[ByName(fs1)[k]])]
  BY <1>1, ArrangedFacts
<1>5. /\ Names(fs2) \in [1 .. n -> Int] /\ ByName(fs2) = SortedBy(Names(fs2))
      /\ ByName(fs2) \in [1 .. n -> 1 .. n]
      /\ Arranged(NormHashes(fs2), fs2) = [k \in 1 .. n |-> Content(fs2[ByName(fs2)[k]])]
  BY <1>1, ArrangedFacts
<1>6. Names(gs) \in [1 .. n -> Int]
  BY <1>1, <1>3, ArrangedFacts
<1>c. \A i \in 1 .. n : /\ Names(fs1)[i] = Rank[fs1[i].bundle][fs1[i].tag]
                        /\ Names(fs2)[i] = Rank[fs2[i].bundle][fs2[i].tag]
                        /\ Names(gs)[i] = Rank[gs[i].bundle][gs[i].tag]
  BY <1>1, <1>3 DEF Names
<1>7. ASSUME NEW i \in 1 .. n  PROVE Content(gs[i]) = Content(fs1[i])
  <2>1. Content(fs1[i]) \in Contents(fs2)
    BY <1>b DEF SameOrderedContents, Contents
  <2>2. Contents(fs2) = {Content(fs2[j]) : j \in 1 .. n}
    BY <1>1 DEF Contents, ToSet
  <2>3. PICK j \in 1 .. n : Content(fs2[j]) = Content(fs1[i])
    BY <2>1, <2>2
  <2>4. fs2[j].bundle = fs1[i].bundle
    BY <2>3 DEF Content
  <2>5. s[i] \in 1 .. n /\ fs2[s[i]].bundle = fs2[j].bundle
    BY <1>a, <1>b, <2>4
  <2>6. fs2[s[i]].tag = fs2[j].tag
    BY <1>1, <2>5
  <2>7. fs2[s[i]] = fs2[j]
    BY <1>b, <2>5, <2>6
  <2> QED
    BY <1>b, <2>3, <2>7
<1>8. ASSUME NEW i \in 1 .. n, NEW j \in 1 .. n
      PROVE  Names(fs1)[i] < Names(fs1)[j] <=> Names(gs)[i] < Names(gs)[j]
  <2>1. /\ fs1[i] \in ToSet(fs1) /\ fs1[j] \in ToSet(fs1) /\ gs[i] \in ToSet(fs2) /\ gs[j] \in ToSet(fs2)
        /\ fs1[i].bundle = gs[i].bundle /\ fs1[j].bundle = gs[j].bundle
    BY <1>a, <1>b
  <2>2. Rank[fs1[i].bundle][fs1[i].tag] < Rank[fs1[j].bundle][fs1[j].tag]
          <=> Rank[gs[i].bundle][gs[i].tag] < Rank[gs[j].bundle][gs[j].tag]
    BY <2>1 DEF SameOrderedContents
  <2> QED
    BY <1>c, <2>2
<1>9. SortedBy(Names(fs1)) = SortedBy(Names(gs))
  <2>1. \A i, j \in 1 .. n : Names(fs1)[i] < Names(fs1)[j] <=> Names(gs)[i] < Names(gs)[j]
    BY <1>8
  <2>2. n \in Nat /\ Names(fs1) \in [1 .. n -> Int] /\ Names(gs) \in [1 .. n -> Int]
    BY <1>1, <1>4, <1>6
  <2> QED
    BY <2>1, <2>2, SortedAlike
<1>10. ASSUME NEW i \in 1 .. n  PROVE Names(fs2)[s[i]] = Names(gs)[i]
  <2>1. s[i] \in 1 .. n /\ gs[i] = fs2[s[i]]
    BY <1>b
  <2>2. Names(fs2)[s[i]] = Rank[fs2[s[i]].bundle][fs2[s[i]].tag]
    BY <1>c, <2>1
  <2>3. Names(gs)[i] = Rank[gs[i].bundle][gs[i].tag]
    BY <1>c
  <2> QED
    BY <2>1, <2>2, <2>3
<1>11. \A k \in 1 .. n : Names(fs2)[SortedBy(Names(fs2))[k]] = Names(gs)[SortedBy(Names(gs))[k]]
  BY <1>1, <1>a, <1>5, <1>6, <1>10, OrderedKeysAgree
<1>12. ASSUME NEW i \in 1 .. n, NEW j \in 1 .. n, Names(fs2)[i] = Names(gs)[j]  PROVE fs2[i] = gs[j]
  <2>1. s[j] \in 1 .. n /\ gs[j] = fs2[s[j]]
    BY <1>b
  <2>2. Rank[fs2[i].bundle][fs2[i].tag] = Rank[fs2[s[j]].bundle][fs2[s[j]].tag]
    BY <1>12, <1>c, <2>1
  <2>3. /\ fs2[s[j]].bundle \in Bundles /\ fs2[s[j]].tag \in Tags
        /\ fs2[i].bundle \in Bundles /\ fs2[i].tag \in Tags
    BY <1>b, <2>1
  <2>4. \A b, c \in Bundles : \A u, v \in Tags : Rank[b][u] = Rank[c][v] => b = c /\ u = v
    BY RebuildAssumption
  <2>5. fs2[i].bundle = fs2[s[j]].bundle /\ fs2[i].tag = fs2[s[j]].tag
    BY <2>2, <2>3, <2>4
  <2>6. fs2[i] = fs2[s[j]]
    BY <1>b, <2>1, <2>5
  <2> QED
    BY <2>1, <2>6
<1>13. ASSUME NEW k \in 1 .. n  PROVE Content(fs1[ByName(fs1)[k]]) = Content(fs2[ByName(fs2)[k]])
  <2>1. ByName(fs1)[k] \in 1 .. n /\ ByName(fs2)[k] \in 1 .. n
    BY <1>4, <1>5
  <2>2. Names(fs2)[ByName(fs2)[k]] = Names(gs)[ByName(fs1)[k]]
    BY <1>4, <1>5, <1>9, <1>11
  <2>3. fs2[ByName(fs2)[k]] = gs[ByName(fs1)[k]]
    BY <1>12, <2>1, <2>2
  <2> QED
    BY <1>7, <2>1, <2>3
<1> QED
  BY <1>4, <1>5, <1>13

\* What a check has seen of an entry: the entry is one of the app under check,
\* and its bundles and the app's are resolved.
LEMMA SawFacts ==
  ASSUME RebuildInv, NEW r \in Runs, NEW e \in {record[a] : a \in Apps}, Saw(r, e), e.files # <<>>
  PROVE  LET conf == config[Head(todo[r])]
         IN  /\ e \in Entries /\ Recorded(e)
             /\ conf \in Seq(Bundles) /\ Resolved(files[r], conf, releases)
             /\ seen[r].versions = e /\ seen[r].sources = e
             /\ OldHashes(r) = Arranged(NormHashes(e.files), e.files)
             /\ OldHashes(r) # <<>>
<1>1. e \in Entries /\ Recorded(e)
  BY DEF RebuildInv, EntryInv, RecordedEntries
<1>2. todo[r] \in Seq(Apps) /\ todo[r] # <<>> /\ Resolved(files[r], config[Head(todo[r])], releases)
  BY DEF RebuildInv, RunType, CheckInv, CheckOf, Saw
<1>3. config[Head(todo[r])] \in Seq(Bundles)
  <2>1. Head(todo[r]) \in Apps
    BY <1>2
  <2> QED
    BY <2>1 DEF RebuildInv, WorldType
<1>4. e.files \in Seq(Files) /\ Len(e.files) \in Nat /\ Len(e.files) # 0
  BY <1>1 DEF Recorded, Resolved
<1>5. NormHashes(e.files) # <<>>
  <2>1. Len(NormHashes(e.files)) = Len(e.files)
    BY <1>4 DEF NormHashes
  <2> QED
    BY <1>4, <2>1
<1>6. OldHashes(r) = Arranged(NormHashes(e.files), e.files)
  BY <1>5 DEF OldHashes, Saw
<1>7. Arranged(NormHashes(e.files), e.files) # <<>>
  <2>1. Len(Arranged(NormHashes(e.files), e.files)) = Len(e.files)
    BY <1>4 DEF Arranged
  <2> QED
    BY <1>4, <2>1
<1> QED
  BY <1>1, <1>2, <1>3, <1>6, <1>7 DEF Saw

LEMMA NoSpurious == RebuildInv => NoSpuriousRebuild
<1> SUFFICES ASSUME RebuildInv, NEW r \in Runs, NEW e \in {record[a] : a \in Apps}, Saw(r, e),
                    e.files # <<>>, e.sources = config[Head(todo[r])],
                    SameOrderedContents(e.files, files[r])
             PROVE  ~Decision(r)
  BY DEF NoSpuriousRebuild
<1> DEFINE conf == config[Head(todo[r])]
<1>1. /\ Recorded(e) /\ conf \in Seq(Bundles) /\ Resolved(files[r], conf, releases)
      /\ seen[r].versions = e /\ seen[r].sources = e
      /\ OldHashes(r) = Arranged(NormHashes(e.files), e.files) /\ OldHashes(r) # <<>>
  BY SawFacts
<1>2. Resolved(e.files, conf, releases)
  BY <1>1 DEF Recorded
<1>3. Arranged(NormHashes(e.files), e.files) = Arranged(NormHashes(files[r]), files[r])
  BY <1>1, <1>2, SameHashes
<1>4. HashesMatch(OldHashes(r), Arranged(NormHashes(files[r]), files[r]))
  BY <1>1, <1>3 DEF HashesMatch
<1>5. Len(e.files) = Len(conf) /\ Len(files[r]) = Len(conf) /\ Len(e.files) # 0
  BY <1>1, <1>2 DEF Resolved
<1>6. e.sources # <<>>
  BY <1>1, <1>5
<1> QED
  BY <1>1, <1>4, <1>5, <1>6 DEF Decision, BuildNeeded

\* The hashes of a list by file name are those of its files.
LEMMA HashesAreContents ==
  ASSUME NEW fs \in Seq(Files)  PROVE ToSet(Arranged(NormHashes(fs), fs)) = Contents(fs)
<1> DEFINE n     == Len(fs)
           order == ByName(fs)
           hs    == Arranged(NormHashes(fs), fs)
<1>1. n \in Nat /\ DOMAIN fs = 1 .. n
  OBVIOUS
<1>2. /\ order \in [1 .. n -> 1 .. n] /\ \A i \in 1 .. n : \E k \in 1 .. n : order[k] = i
      /\ hs = [k \in 1 .. n |-> Content(fs[order[k]])]
  BY <1>1, ArrangedFacts
<1> HIDE DEF n, order, hs
<1>3. ToSet(hs) = {Content(fs[order[k]]) : k \in 1 .. n}
  BY <1>2 DEF ToSet
<1>4. Contents(fs) = {Content(fs[i]) : i \in 1 .. n}
  BY <1>1 DEF Contents, ToSet
<1>5. \A k \in 1 .. n : order[k] \in 1 .. n
  BY <1>2
<1>6. ToSet(hs) \in SUBSET Contents(fs)
  BY <1>3, <1>4, <1>5
<1>7. Contents(fs) \in SUBSET ToSet(hs)
  <2> SUFFICES ASSUME NEW i \in 1 .. n  PROVE Content(fs[i]) \in ToSet(hs)
    BY <1>4
  <2>1. PICK k \in 1 .. n : order[k] = i
    BY <1>2
  <2> QED
    BY <1>3, <2>1
<1>8. ToSet(hs) = Contents(fs)
  BY <1>6, <1>7
<1> QED
  BY <1>8 DEF hs

\* If every tag is found again at a place of its own, none of them smaller,
\* then none is greater either.
LEMMA NoneGreater ==
  ASSUME NEW n \in Nat, NEW t \in [1 .. n -> Int], NEW s \in [1 .. n -> 1 .. n], Injective(s),
         \A i \in 1 .. n : t[i] <= t[s[i]],
         NEW m \in 1 .. n
  PROVE  t[s[m]] = t[m]
<1> SUFFICES ASSUME t[m] # t[s[m]]  PROVE FALSE
  OBVIOUS
<1> DEFINE x     == t[s[m]]
           great == {i \in 1 .. n : x <= t[i]}
           rest  == great \ {s[m]}
           f     == [i \in great |-> s[i]]
<1>1. s[m] \in 1 .. n /\ x \in Int /\ t[m] \in Int /\ \A i \in 1 .. n : t[i] \in Int /\ s[i] \in 1 .. n
  OBVIOUS
<1>2. t[m] < x
  BY <1>1
<1>a. great \in SUBSET (1 .. n) /\ s[m] \in great
  BY <1>1
<1>3. IsFiniteSet(1 .. n) /\ great \in SUBSET (1 .. n) /\ s[m] \in great
  BY <1>a, FS_Interval
<1>4. m \notin great
  BY <1>1, <1>2
<1>5. \A i \in great : s[i] \in great /\ s[i] # s[m]
  <2> TAKE i \in great
  <2>1. i \in 1 .. n /\ x <= t[i] /\ t[i] <= t[s[i]] /\ t[i] \in Int /\ t[s[i]] \in Int /\ s[i] \in 1 .. n
    BY <1>1
  <2>2. s[i] \in great
    BY <1>1, <2>1
  <2>3. DOMAIN s = 1 .. n /\ i # m
    BY <1>4
  <2>4. s[i] # s[m]
    BY <2>1, <2>3 DEF Injective
  <2> QED
    BY <2>2, <2>4
<1>6. IsFiniteSet(great) /\ IsFiniteSet(rest) /\ Cardinality(rest) = Cardinality(great) - 1
  <2>1. IsFiniteSet(great)
    BY <1>3, FS_Subset
  <2> HIDE DEF great
  <2> QED
    BY <2>1, <1>3, FS_RemoveElement
<1> HIDE DEF great
<1>7. f \in [great -> rest]
  BY <1>5
<1>8. \A i, j \in great : f[i] = f[j] => i = j
  <2>1. \A i \in great : i \in DOMAIN s
    BY <1>3
  <2> QED
    BY <2>1 DEF Injective
<1>9. f \in Injection(great, rest)
  BY <1>7, <1>8, Fun_IsInj
<1> HIDE DEF rest, f
<1>10. Cardinality(great) <= Cardinality(rest)
  BY <1>6, <1>9, FS_Injection
<1> QED
  BY <1>6, <1>10, FS_CardinalityType

LEMMA NoneMissed == RebuildInv => NothingMissed
<1> SUFFICES ASSUME RebuildInv, NEW r \in Runs, NEW e \in {record[a] : a \in Apps}, Saw(r, e),
                    ~Ahead(e.files, files[r]), ~Decision(r)
             PROVE  Contents(e.files) = Contents(files[r])
  BY DEF NothingMissed
<1> DEFINE conf == config[Head(todo[r])]
           n    == Len(conf)
           new  == files[r]
<1>1. ~BuildNeeded(e, e, OldHashes(r), new, conf)
  BY DEF Decision, Saw
<1>2. /\ e.files # <<>> /\ Len(e.files) = Len(new) /\ Len(e.sources) = Len(conf)
      /\ \/ \A i \in 1 .. Len(new) : e.sources[i] = conf[i] /\ e.files[i].tag = new[i].tag
         \/ HashesMatch(OldHashes(r), Arranged(NormHashes(new), new))
  BY <1>1 DEF BuildNeeded
<1>3. /\ e \in Entries /\ Recorded(e) /\ conf \in Seq(Bundles) /\ Resolved(new, conf, releases)
      /\ OldHashes(r) = Arranged(NormHashes(e.files), e.files)
  BY <1>2, SawFacts
<1>4. /\ e.files \in Seq(Files) /\ new \in Seq(Files) /\ n \in Nat
      /\ Len(e.files) = n /\ Len(new) = n
  BY <1>2, <1>3 DEF Recorded, Resolved
<1>5. CASE HashesMatch(OldHashes(r), Arranged(NormHashes(new), new))
  BY <1>3, <1>4, <1>5, HashesAreContents DEF HashesMatch
<1>6. CASE \A i \in 1 .. Len(new) : e.sources[i] = conf[i] /\ e.files[i].tag = new[i].tag
  <2>1. e.sources = conf
    <3>1. e.sources \in Seq(Bundles)
      BY <1>3 DEF Entries
    <3> QED
      BY <1>2, <1>3, <1>4, <1>6, <3>1, SMTT(40)
  <2>2. Resolved(e.files, conf, releases)
    BY <1>3, <2>1 DEF Recorded
  <2>3. PICK s : Matches(s, n, e.files, new)
    BY <1>3, <2>2, Matching
  <2> HIDE DEF n, new
  <2>4. s \in [1 .. n -> 1 .. n] /\ Injective(s) /\ \A i \in 1 .. n : new[s[i]].bundle = e.files[i].bundle
    BY <2>3 DEF Matches
  <2> DEFINE t == [i \in 1 .. n |-> new[i].tag]
  <2>5. ASSUME NEW i \in 1 .. n
        PROVE  /\ t[i] = new[i].tag /\ t[i] = e.files[i].tag /\ t[i] \in Int /\ s[i] \in 1 .. n
               /\ e.files[i] \in ToSet(e.files) /\ new[i] \in ToSet(new)
               /\ e.files[i] = [bundle |-> e.files[i].bundle, tag |-> e.files[i].tag]
               /\ new[i] = [bundle |-> new[i].bundle, tag |-> new[i].tag]
    <3>1. e.files[i] \in Files /\ new[i] \in Files /\ i \in DOMAIN e.files /\ i \in DOMAIN new
      BY <1>4
    <3>2. new[i].tag \in Int
      BY <3>1 DEF Files, Tags
    <3>3. t[i] = new[i].tag /\ t[i] = e.files[i].tag
      BY <1>4, <1>6
    <3>4. e.files[i] \in ToSet(e.files) /\ new[i] \in ToSet(new)
      BY <3>1 DEF ToSet
    <3> QED
      BY <2>4, <3>1, <3>2, <3>3, <3>4 DEF Files
  <2>6. t \in [1 .. n -> Int]
    BY <2>5
  <2> HIDE DEF t
  <2>7. ASSUME NEW i \in 1 .. n  PROVE t[i] <= t[s[i]]
    <3>1. s[i] \in 1 .. n /\ new[s[i]] \in ToSet(new) /\ e.files[i] \in ToSet(e.files)
      BY <2>5
    <3>2. ~(new[s[i]].tag < e.files[i].tag)
      BY <2>4, <3>1 DEF Ahead, new
    <3>3. t[s[i]] = new[s[i]].tag /\ t[s[i]] \in Int
      BY <2>5, <3>1
    <3>4. t[i] = e.files[i].tag /\ t[i] \in Int
      BY <2>5
    <3> QED
      BY <3>2, <3>3, <3>4
  <2>8. \A i \in 1 .. n : t[s[i]] = t[i]
    BY <1>4, <2>4, <2>6, <2>7, NoneGreater
  <2>9. ASSUME NEW i \in 1 .. n  PROVE s[i] \in 1 .. n /\ new[s[i]] = e.files[i]
    <3>1. s[i] \in 1 .. n
      BY <2>5
    <3>2. new[s[i]].tag = e.files[i].tag
      BY <2>5, <2>8, <3>1
    <3>3. new[s[i]].bundle = e.files[i].bundle
      BY <2>4
    <3>4. new[s[i]] = [bundle |-> new[s[i]].bundle, tag |-> new[s[i]].tag]
      BY <2>5, <3>1
    <3>5. e.files[i] = [bundle |-> e.files[i].bundle, tag |-> e.files[i].tag]
      BY <2>5
    <3> QED
      BY <3>1, <3>2, <3>3, <3>4, <3>5
  <2>10. \A j \in 1 .. n : \E i \in 1 .. n : s[i] = j
    BY <1>4, <2>4, Onto
  <2>11. Contents(e.files) = {Content(e.files[i]) : i \in 1 .. n}
    BY <1>4 DEF Contents, ToSet
  <2>12. Contents(new) = {Content(new[j]) : j \in 1 .. n}
    BY <1>4 DEF Contents, ToSet
  <2>13. Contents(e.files) \in SUBSET Contents(new)
    BY <2>9, <2>11, <2>12
  <2>14. Contents(new) \in SUBSET Contents(e.files)
    <3> SUFFICES ASSUME NEW j \in 1 .. n  PROVE Content(new[j]) \in Contents(e.files)
      BY <2>12
    <3>1. PICK i \in 1 .. n : s[i] = j
      BY <2>10
    <3>2. new[j] = e.files[i]
      BY <2>9, <3>1
    <3> QED
      BY <2>11, <3>2
  <2>15. Contents(e.files) = Contents(new)
    BY <2>13, <2>14
  <2> QED
    BY <2>15 DEF new
<1> QED
  BY <1>2, <1>5, <1>6

\* A check that saw one entry asks for no build of what has been built: of the
\* same files as are recorded, in whatever order the processes met them, or of
\* releases with new metadata only whose names sort as the recorded ones do.
THEOREM ChecksAreNeverSpurious == Spec => []NoSpuriousRebuild
  BY RebuildInvariant, NoSpurious, PTL

\* A check that saw one entry asks for a build whenever the contents of the
\* bundles differ from those recorded and no recorded release is ahead.
THEOREM ChecksMissNothing == Spec => []NothingMissed
  BY RebuildInvariant, NoneMissed, PTL

==============================================================================
