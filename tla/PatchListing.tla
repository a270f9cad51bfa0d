----------------------------- MODULE PatchListing -----------------------------
(***************************************************************************)
(* Listing a bundle's patches with the patcher's CLI and reading what it   *)
(* prints (src/src/patches_gen.py).                                        *)
(*                                                                         *)
(* Data.  A line is [label, top, words]: the field label it starts with,   *)
(* "" if none, whether it starts in column zero once a logger's prefix is  *)
(* taken off, and the words after the label, <<>> on a blank line.  A      *)
(* multi-line field is a sequence of such word sequences.                  *)
(***************************************************************************)
EXTENDS CliArgs

CONSTANT NameRank   \* [patch names -> Nat], their alphabetical order

OptionTitles == {"Title", "Name"}
OptionFields == OptionTitles \union {"Description", "Required", "Key", "Default", "Possible values", "Type"}

\* The command that lists the patches of a bundle.
ListCommand(args, bundle) ==
  LET keys == <<"CMD", "INDEX", "PACKAGES", "UNIVERSAL", "VERSIONS", "OPTIONS", "DESCRIPTIONS", "FILTER_PACKAGE_NAME">>
  IN  FlattenSeq([i \in DOMAIN keys |-> CliArgument(args[keys[i]], <<>>)])
      \o CliArgument(args["PATCHES"], <<<<bundle>>>>) \o CliArgument(args["PATCHES_POST"], <<>>)

------------------------------------------------------------------------------
(* Reading it.                                                               *)

IsTop(line, label) == line.top /\ line.label = label

\* What a line says if its label means nothing where it stands.
WholeLine(line) == IF line.label = "" THEN line.words ELSE <<line.label>> \o line.words

\* Runs of lines that begin with a line for which starts holds; what comes
\* before the first such line is dropped.
SplitAt(lines, starts(_)) ==
  FoldLeft(LAMBDA runs, line :
             IF starts(line) THEN Append(runs, <<line>>)
             ELSE IF runs = <<>> THEN runs
             ELSE [runs EXCEPT ![Len(runs)] = Append(@, line)],
           <<>>, lines)

\* Mutant: an option's name starts a patch too.
SplitPatchSectionsAnywhere(lines) == SplitAt(lines, LAMBDA l : l.label = "Name")

SplitPatchSections(lines) == SplitAt(lines, LAMBDA l : IsTop(l, "Name"))
SplitOptionBlocks(lines) == SplitAt(lines, LAMBDA l : l.label \in OptionTitles)

\* Without the blank lines at both ends.
Trimmed(values) ==
  LET said == {i \in DOMAIN values : values[i] # <<>>}
  IN  IF said = {} THEN <<>> ELSE SubSeq(values, Min(said), Max(said))

\* A field and its continuation lines, up to the next line that stops it.
CollectField(lines, i, stops(_)) ==
  LET later == {j \in DOMAIN lines : j > i /\ stops(lines[j])}
      end   == IF later = {} THEN Len(lines) ELSE Min(later) - 1
  IN  Trimmed(<<lines[i].words>> \o [j \in 1 .. end - i |-> WholeLine(lines[i + j])])

\* The indices of the top-level lines with a label.
TopLines(section, label) == {i \in DOMAIN section : IsTop(section[i], label)}

PatchDescription(section) ==
  LET at == TopLines(section, "Description")
      stops(l) == l.top /\ l.label \in {"Enabled", "Options", "Compatible packages"}
  IN  IF at = {} THEN <<>> ELSE CollectField(section, Min(at), stops)

Enabled(section) ==
  LET at == TopLines(section, "Enabled") IN at # {} /\ section[Min(at)].words = <<"true">>

\* Packages and their versions, read line by line.
ReadPackageLine(st, line) ==
  CASE line.label = "Package name" ->
         [packages |-> Append(st.packages, [name |-> line.words, versions |-> <<>>]), collecting |-> FALSE]
    [] line.label # "Package name" /\ st.packages = <<>> -> st
    [] line.label = "Compatible versions" /\ st.packages # <<>> ->
         [st EXCEPT !.packages[Len(st.packages)].versions = @ \o line.words, !.collecting = TRUE]
    [] OTHER ->
         IF st.collecting
         THEN [st EXCEPT !.packages[Len(st.packages)].versions = @ \o WholeLine(line)]
         ELSE st

CompatiblePackages(section) ==
  LET at == TopLines(section, "Compatible packages")
  IN  IF at = {} THEN <<>>
      ELSE FoldLeft(ReadPackageLine, [packages |-> <<>>, collecting |-> FALSE],
                    SubSeq(section, Min(at) + 1, Len(section))).packages

\* One option; the last line of a label counts, an option without a key is
\* known by its name.
ParseOption(block) ==
  LET At(label)    == {i \in DOMAIN block : block[i].label = label}
      Field(label) == IF At(label) = {} THEN <<>>
                      ELSE CollectField(block, Max(At(label)), LAMBDA l : l.label \in OptionFields)
      name == CollectField(block, 1, LAMBDA l : l.label \in OptionFields)
      key  == Field("Key")
  IN  [name |-> name, key |-> IF key = <<>> THEN name ELSE key,
       description |-> Field("Description"),
       required |-> At("Required") # {} /\ block[Max(At("Required"))].words = <<"true">>,
       default |-> Field("Default"), type |-> Field("Type"),
       values |-> SelectSeq(Field("Possible values"), LAMBDA v : v # <<>>)]

\* The lines between Options and Compatible packages.
OptionLines(section) ==
  LET from == Min(TopLines(section, "Options"))
      to   == {i \in TopLines(section, "Compatible packages") : i > from}
  IN  SubSeq(section, from + 1, IF to = {} THEN Len(section) ELSE Min(to) - 1)

PatchOptionsOf(section) ==
  IF TopLines(section, "Options") = {} THEN <<>>
  ELSE LET blocks == SplitOptionBlocks(OptionLines(section))
       IN  [i \in DOMAIN blocks |-> ParseOption(blocks[i])]

ParseSection(section) ==
  [name |-> section[1].words, description |-> PatchDescription(section), use |-> Enabled(section),
   packages |-> CompatiblePackages(section), options |-> PatchOptionsOf(section)]

\* The patches of a listing, by name.
ParseListing(lines) ==
  LET sections == SplitPatchSections(lines)
      parsed   == [i \in DOMAIN sections |-> ParseSection(sections[i])]
  IN  SortSeq(parsed, LAMBDA a, b : NameRank[a.name] < NameRank[b.name])

------------------------------------------------------------------------------
(* What the CLIs print: "revanced" names its options, the others give them   *)
(* a title and a key.                                                        *)

Line(label, top, words) == [label |-> label, top |-> top, words |-> words]
Continuation(values) == [i \in 1 .. Len(values) - 1 |-> Line("", FALSE, values[i + 1])]
MultiLine(label, top, values) ==
  IF values = <<>> THEN <<>> ELSE <<Line(label, top, values[1])>> \o Continuation(values)

PrintOption(dialect, o) ==
  (IF dialect = "revanced" THEN MultiLine("Name", FALSE, o.name) ELSE MultiLine("Title", FALSE, o.name))
  \o MultiLine("Description", FALSE, o.description)
  \o <<Line("Required", FALSE, <<IF o.required THEN "true" ELSE "false">>)>>
  \o (IF dialect = "revanced" THEN <<>> ELSE MultiLine("Key", FALSE, o.key))
  \o MultiLine("Default", FALSE, o.default)
  \o (IF o.values = <<>> THEN <<>> ELSE MultiLine("Possible values", FALSE, <<<<>>>> \o o.values))
  \o MultiLine("Type", FALSE, o.type)
  \o <<Line("", FALSE, <<>>)>>

PrintPackage(p) ==
  <<Line("Package name", FALSE, p.name)>>
  \o (IF p.versions = <<>> THEN <<>>
      ELSE <<Line("Compatible versions", FALSE, <<>>)>> \o [i \in DOMAIN p.versions |-> Line("", FALSE, <<p.versions[i]>>)])

PrintPatch(dialect, p) ==
  <<Line("Name", TRUE, p.name)>>
  \o MultiLine("Description", TRUE, p.description)
  \o <<Line("Enabled", TRUE, <<IF p.use THEN "true" ELSE "false">>)>>
  \o (IF p.options = <<>> THEN <<>>
      ELSE <<Line("Options", TRUE, <<>>)>> \o FlattenSeq([i \in DOMAIN p.options |-> PrintOption(dialect, p.options[i])]))
  \o (IF p.packages = <<>> THEN <<>>
      ELSE <<Line("Compatible packages", TRUE, <<>>)>> \o FlattenSeq([i \in DOMAIN p.packages |-> PrintPackage(p.packages[i])]))
  \o <<Line("", TRUE, <<>>)>>

PrintListing(dialect, patches) == FlattenSeq([i \in DOMAIN patches |-> PrintPatch(dialect, patches[i])])
==============================================================================
