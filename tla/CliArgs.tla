-------------------------------- MODULE CliArgs --------------------------------
(***************************************************************************)
(* The argument profiles of the patcher CLIs and their overrides           *)
(* (src/src/cli_args.py).  An argument template is [kind, of]: a plain     *)
(* flag, the positional marker, a flag with a {value} placeholder, a flag  *)
(* that ends in "=", or blank; of names the key it stands for.  A token of *)
(* the command line is [text, value]; a value is a sequence of strings,    *)
(* <<>> if the token carries none.                                         *)
(***************************************************************************)
EXTENDS Integers, SequencesExt

ListPatchesKeys == {"CMD", "DESCRIPTIONS", "FILTER_PACKAGE_NAME", "INDEX", "OPTIONS",
                    "PACKAGES", "PATCHES", "PATCHES_POST", "UNIVERSAL", "VERSIONS"}
PatchKeys == {"APK", "CMD", "CONTINUE_ON_ERROR", "DISABLED", "ENABLED", "EXCLUSIVE", "FORCE",
              "KEYSTORE", "KEYSTORE_OLD", "OPTIONS", "OUTPUT", "PATCHES", "PATCHES_POST",
              "PURGE", "RIP_LIB", "STRIPLIBS", "TEMPORARY_FILES_PATH", "BYTECODE_MODE"}

Template(kind, of) == [kind |-> kind, of |-> of]

\* The keys a profile leaves empty.
DisabledKeys ==
  [revanced |-> [list  |-> {"FILTER_PACKAGE_NAME"},
                 patch |-> {"CONTINUE_ON_ERROR", "RIP_LIB", "STRIPLIBS", "BYTECODE_MODE"}],
   morphe   |-> [list  |-> {"DESCRIPTIONS", "FILTER_PACKAGE_NAME", "PATCHES_POST"},
                 patch |-> {"PATCHES_POST", "PURGE", "RIP_LIB", "BYTECODE_MODE"}]]

CliProfiles ==
  [p \in DOMAIN DisabledKeys |->
     [list  |-> [k \in ListPatchesKeys |->
                   IF k \in DisabledKeys[p].list THEN <<>> ELSE <<Template("flag", k)>>],
      patch |-> [k \in PatchKeys |->
                   IF k \in DisabledKeys[p].patch THEN <<>>
                   ELSE IF k = "APK" THEN <<Template("positional", k)>>
                   ELSE IF k = "KEYSTORE_OLD" THEN [i \in 1 .. 3 |-> Template("flag", k)]
                   ELSE <<Template("flag", k)>>]]]

\* An unknown or missing profile is the default one.
ResolveCliProfile(name) ==
  IF name \in DOMAIN CliProfiles THEN CliProfiles[name] ELSE CliProfiles["revanced"]

\* The overrides a string of KEY=value tokens gives; the last of a key counts,
\* malformed tokens (no "=") and keys the command does not have are ignored.
ParseArgOverrides(tokens, allowed) ==
  FoldLeft(LAMBDA parsed, t :
             IF t.malformed \/ t.key \notin allowed THEN parsed ELSE (t.key :> t.templates) @@ parsed,
           <<>>, tokens)

\* merge_cli_arg_maps for one of the two commands.
MergeCliArgs(command, profile, appProfile, global, app) ==
  LET base == ResolveCliProfile(IF appProfile # "" THEN appProfile ELSE profile)[command]
      keys == IF command = "list" THEN ListPatchesKeys ELSE PatchKeys
  IN  ParseArgOverrides(app, keys) @@ (ParseArgOverrides(global, keys) @@ base)

IsArgEnabled(templates) == \E i \in 1 .. Len(templates) : templates[i].kind # "blank"

------------------------------------------------------------------------------
(* Building the command line.                                                *)

Consumes(t) == t.kind \in {"positional", "placeholder", "assign"}
Bare(t) == <<[text |-> t, value |-> <<>>]>>

\* _format_template_arg: a plain flag is followed by the value.
Formatted(t, v) ==
  IF v = <<>> THEN Bare(t)
  ELSE IF Consumes(t) THEN <<[text |-> t, value |-> v]>>
  ELSE <<[text |-> t, value |-> <<>>], [text |-> Template("positional", t.of), value |-> v]>>

\* How many of the first n templates consume a value.
Consumed(templates, n) == Cardinality({i \in 1 .. n : Consumes(templates[i])})

\* Mutant: the last template takes the value after the next.
BuildTemplateWithValuesSkips(templates, values) ==
  LET front == Len(templates) - 1
      used  == Consumed(templates, front)
  IN  FlattenSeq([i \in 1 .. front |-> IF Consumes(templates[i]) THEN <<>> ELSE Bare(templates[i])])
      \o (IF used >= Len(values) THEN Bare(Last(templates))
          ELSE FlattenSeq([i \in 1 .. Len(values) - used |-> Formatted(Last(templates), values[used + i])]))

\* build_template_with_values: all templates but the last in order, each with
\* its value if it consumes one and one is left; the last takes the rest.
BuildTemplateWithValues(templates, values) ==
  LET front == Len(templates) - 1
      used  == Consumed(templates, front)
      Arg(i) == LET n == Consumed(templates, i)
                IN  IF ~Consumes(templates[i]) THEN Bare(templates[i])
                    ELSE IF n <= Len(values) THEN Formatted(templates[i], values[n])
                    ELSE <<>>
      Rest  == IF used >= Len(values) THEN Bare(Last(templates))
               ELSE FlattenSeq([i \in 1 .. Len(values) - used |-> Formatted(Last(templates), values[used + i])])
  IN  FlattenSeq([i \in 1 .. front |-> Arg(i)]) \o Rest

\* append_cli_argument: what it appends; a blank template is as good as none.
CliArgument(templates, values) ==
  LET enabled == SelectSeq(templates, LAMBDA t : t.kind # "blank")
  IN  IF enabled = <<>> THEN <<>>
      ELSE IF values = <<>> THEN FlattenSeq([i \in 1 .. Len(enabled) |-> Bare(enabled[i])])
      ELSE BuildTemplateWithValues(enabled, values)
==============================================================================
