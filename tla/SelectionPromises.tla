--------------------------- MODULE SelectionPromises ---------------------------
(***************************************************************************)
(* What the documentation promises of the patch selection                  *)
(* (auto/docs/customize-patches.md 318-437), stated on sets of bundle      *)
(* positions, and how a patcher reads the command line: a patch belongs to *)
(* the bundle argument before it, an option to the patch before it.        *)
(*                                                                         *)
(* The code does less than is promised in two places: it does not see      *)
(* include requests with a selector, and a patch's options at one level    *)
(* hide all that the lower levels say of it.  AsRead takes both out of     *)
(* what is configured; of the rest the promises are kept.                  *)
(***************************************************************************)
EXTENDS Selection

(* Reading a command. *)

NothingRead ==
  [bundle |-> "", patch |-> "", enabled |-> {}, disabled |-> {}, options |-> {},
   kept |-> AllArchs, ripped |-> {}]

ReadToken(r, t) ==
  IF t.value = <<>> THEN r
  ELSE CASE t.text.of = "PATCHES"   -> [r EXCEPT !.bundle = t.value[1], !.patch = ""]
         [] t.text.of = "ENABLED"   -> [r EXCEPT !.patch = t.value[1], !.enabled = @ \union {<<r.bundle, t.value[1]>>}]
         [] t.text.of = "DISABLED"  -> [r EXCEPT !.patch = "", !.disabled = @ \union {<<r.bundle, t.value[1]>>}]
         [] t.text.of = "OPTIONS"   -> [r EXCEPT !.options = @ \union {<<r.bundle, r.patch, t.value>>}]
         [] t.text.of = "STRIPLIBS" -> [r EXCEPT !.kept = Range(t.value)]
         [] t.text.of = "RIP_LIB"   -> [r EXCEPT !.ripped = @ \union Range(t.value)]
         [] OTHER                   -> r

Reading(tokens) == FoldLeft(ReadToken, NothingRead, tokens)

(* What the documentation says. *)

\* The positions a selector stands for among n bundles.
Positions(s, n) ==
  LET plain == CASE s.kind = "none" -> 1 .. n
                 [] s.kind = "star" -> 1 .. n
                 [] s.kind = "range" -> (s.lo .. s.hi) \intersect (1 .. n)
                 [] OTHER -> {}
  IN  IF s.kind \in {"star", "range"} /\ s.neg THEN (1 .. n) \ plain ELSE plain

\* The positions at which a name is named by the requests, and allowed.
Named(requests, name, n) == UNION {Positions(e.selector, n) : e \in {e \in Range(requests) : e.name = name}}
Allowed(requests, name, n) ==
  IF requests # <<>> /\ requests[1].except THEN Named(requests, name, n)
  ELSE (1 .. n) \ Named(requests, name, n)

\* The patches of bundle b for the app, and those for any app.
Ours(app, listed, b) == {p \in Range(listed[b]) : \E k \in Range(p.packages) : k.name = app.package}
Universal(listed, b) == {p \in Range(listed[b]) : p.packages = <<>>}

\* The selected copies [bundle, patch]: the app's own unless excluded, those
\* for any app where they are included as well, by the same selectors.
Wanted(app, listed) ==
  LET n == Len(app.bundles)
      Copies(S(_), asked(_, _)) ==
        UNION {{[bundle |-> app.bundles[i], patch |-> p] :
                  p \in {p \in S(app.bundles[i]) :
                           asked(p, i) /\ i \in Allowed(app.exclude, CheckName(app, p), n)}} : i \in 1 .. n}
  IN  Copies(LAMBDA b : Ours(app, listed, b), LAMBDA p, i : TRUE)
      \union Copies(LAMBDA b : Universal(listed, b),
                    LAMBDA p, i : i \in Named(app.include, CheckName(app, p), n))

Unwanted(app, listed) ==
  {c \in UNION {{[bundle |-> b, patch |-> p] : p \in Ours(app, listed, b)} : b \in Range(app.bundles)} :
     c \notin Wanted(app, listed)}

Pairs(copies) == {<<c.bundle, c.patch.name>> : c \in copies}

\* The options of a patch, key by key: raw over the app's file over the global
\* file.
EffectiveOptions(app, name) ==
  LET Of(f) == IF name \in DOMAIN f THEN Range(f[name]) ELSE {}
      Over(high, low) == high \union {o \in low : \A h \in high : h.key # o.key}
  IN  Over(Of(app.optionsRaw), Over(IF app.ownOptionsFile THEN Of(app.optionsFile) ELSE {}, Of(app.globalOptions)))

OptionsOf(app, c) ==
  {<<c.bundle, c.patch.name, FormatOption(x[2].key, x[1].value)>> :
     x \in {y \in EffectiveOptions(app, c.patch.name) \X Range(c.patch.options) :
              y[1].key \in {y[2].key, y[2].title}}}

\* No bundle before has a selected copy of the patch with other options: the
\* first copy turns titles into its own keys for all the others.
FirstOfItsKeys(app, listed, c) ==
  \A d \in Wanted(app, listed) :
    d.patch.name = c.patch.name /\ BundleIndex(app, d.bundle) < BundleIndex(app, c.bundle)
      => d.patch.options = c.patch.options

\* The architectures the app is to keep, if the profile can say so at all.
WantedArchs(app) ==
  IF IsArgEnabled(app.args["STRIPLIBS"]) \/ IsArgEnabled(app.args["RIP_LIB"])
  THEN AllArchs \intersect Range(app.archs) ELSE AllArchs

\* What the code sees of a configuration (parser.py 291-361 and 471).
AsRead(app) ==
  LET Set(f)       == DOMAIN Loaded(f)
      Below(f, up) == Restrict(f, DOMAIN f \ up)
      ofFile       == IF app.ownOptionsFile THEN Set(app.optionsFile) ELSE {}
  IN  [app EXCEPT !.include = SelectSeq(@, LAMBDA e : e.selector.kind = "none"),
                  !.optionsFile = Below(@, Set(app.optionsRaw)),
                  !.globalOptions = Below(@, Set(app.optionsRaw) \union ofFile)]

\* The command enables and disables, bundle by bundle, exactly the copies the
\* requests select, with no options but theirs, and keeps the architectures.
\* Every copy has all its options unless one before it has other keys.
CommandAsPromised(app, listed, tokens) ==
  LET r == Reading(tokens)
  IN  /\ r.enabled = Pairs(Wanted(app, listed))
      /\ r.disabled = Pairs(Unwanted(app, listed))
      /\ r.options \subseteq UNION {OptionsOf(app, c) : c \in Wanted(app, listed)}
      /\ \A c \in Wanted(app, listed) : FirstOfItsKeys(app, listed, c) => OptionsOf(app, c) \subseteq r.options
      /\ (r.kept \ r.ripped) \intersect AllArchs = WantedArchs(app)

\* In a test run one name is left, in every bundle that enables it.
TestCommandAsPromised(app, listed, tokens) ==
  LET r == Reading(tokens)
      wanted == Pairs(Wanted(app, listed))
  IN  IF wanted = {} THEN r.enabled = {} /\ r.disabled = Pairs(Unwanted(app, listed))
      ELSE /\ r.disabled = {} /\ r.options = {}
           /\ \E x \in wanted : r.enabled = {y \in wanted : y[2] = x[2]}
==============================================================================
