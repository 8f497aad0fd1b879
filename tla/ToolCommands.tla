--------------------------- MODULE ToolCommands ---------------------------
(***************************************************************************)
(* The command lines lib/toolchain builds from the driver's options: the   *)
(* parts of them whose order or combination matters.  An option is a       *)
(* record: its name and the set of its values.                             *)
(***************************************************************************)
EXTENDS Integers, SequencesExt

Option(name, values) == [name |-> name, values |-> values]
Named(options, names) == SelectSeq(options, LAMBDA o : o.name \in names)
Has(options, name) == \E i \in DOMAIN options : options[i].name = name

-----------------------------------------------------------------------------
(* Where the tools come from.  A directory is a name and the tools in it.  *)

\* The working directory, HEXAGON_TOOLS_DIR and PATH, in this order; either of the
\* first two may be missing, as an empty sequence.
SearchPaths(current, hexagon, path) == current \o hexagon \o path

Nowhere == "nowhere"
FindTool(tool, dirs) ==
  LET having == SelectSeq(dirs, LAMBDA dir : tool \in dir.tools)
  IN IF having = <<>> THEN Nowhere ELSE Head(having).name

-----------------------------------------------------------------------------
(* The linker.                                                             *)

NewLinker == [line |-> <<>>, group |-> FALSE, whole |-> FALSE]

Emit(linker, words) == [linker EXCEPT !.line = @ \o words]
StartGroup(linker) ==
  IF linker.group THEN linker ELSE Emit([linker EXCEPT !.group = TRUE], <<"--start-group">>)

\* Mutant: the group counts as open for ever.
EndGroupForgets(linker) == IF linker.group THEN Emit(linker, <<"--end-group">>) ELSE linker

EndGroup(linker) ==
  IF linker.group THEN Emit([linker EXCEPT !.group = FALSE], <<"--end-group">>) ELSE linker
StartWholeArchive(linker) ==
  IF linker.whole THEN linker ELSE Emit([linker EXCEPT !.whole = TRUE], <<"--whole-archive">>)
EndWholeArchive(linker) ==
  IF linker.whole THEN Emit([linker EXCEPT !.whole = FALSE], <<"--no-whole-archive">>) ELSE linker

Supported == {"--whole-archive", "--no-whole-archive", "--start-group", "--end-group",
              "--verbose", "--wrap"}

\* One argument of the driver: the first directive of this list that is among the
\* values counts, the others are dropped; inputs and libraries go on the line.
TakeLinkOption(linker, o) ==
  CASE o.name \in {"INPUT", "l"} -> Emit(linker, <<o.name>>)
    [] o.name = "Wl" /\ "--whole-archive" \in o.values -> StartWholeArchive(linker)
    [] o.name = "Wl" /\ "--no-whole-archive" \in o.values -> EndWholeArchive(linker)
    [] o.name = "Wl" /\ "--start-group" \in o.values -> StartGroup(linker)
    [] o.name = "Wl" /\ "--end-group" \in o.values -> EndGroup(linker)
    [] OTHER -> linker

\* The symbols of a --wrap follow it, unless an earlier branch took the argument.
Wraps(o) == o.values \intersect Supported = {"--wrap"}

LinkAccepted(options) ==
  \A i \in DOMAIN options : options[i].name = "Wl" => options[i].values \intersect Supported # {}

AfterLinkOptions(linker, options) ==
  LET after[i \in 0 .. Len(options)] ==
        IF i = 0 THEN linker ELSE TakeLinkOption(after[i - 1], options[i])
  IN after[Len(options)]

\* The runtime comes last, in a group of its own.
LinkLine(options) ==
  LET paths == [k \in 1 .. Cardinality({i \in DOMAIN options : options[i].name = "L"}) |-> "L"]
      defaults == IF Has(options, "no-defaultlib-paths") THEN <<>> ELSE <<"L">>
      asked == AfterLinkOptions(Emit(NewLinker, defaults \o paths), options)
  IN EndGroup(Emit(StartGroup(asked), <<"-lqaicrt", "-ldevRuntime">>)).line

LinkCommand(options) ==
  [line |-> LinkLine(options),
   freestanding |-> ~Has(options, "with-stdlib"),
   placed |-> IF Has(options, "with-stdlib") THEN ".start" ELSE ".text",
   stack |-> ~Has(options, "with-stdlib"),
   wrapped |-> UNION {o.values \ {"--wrap"} : o \in {w \in Range(Named(options, {"Wl"})) : Wraps(w)}},
   undefined |-> {o.values : o \in Range(Named(options, {"u"}))} \union {{"_qaic_start"}}]

-----------------------------------------------------------------------------
(* The compiler.                                                           *)

OptLevels == {"O0", "O1", "O2", "O3"}
NewCompiler == [level |-> "O1", debug |-> FALSE, macros |-> <<>>]

\* The last level counts.  -U is passed on as a definition.
TakeCompileOption(compiler, o) ==
  CASE o.name \in OptLevels -> [compiler EXCEPT !.level = o.name]
    [] o.name = "g" -> [compiler EXCEPT !.debug = TRUE]
    [] o.name \in {"D", "U"} -> [compiler EXCEPT !.macros = Append(@, [define |-> o.values])]
    [] OTHER -> compiler

\* -g0 wins wherever it stands.
CompilerAfter(options) ==
  LET after[i \in 0 .. Len(options)] ==
        IF i = 0 THEN NewCompiler ELSE TakeCompileOption(after[i - 1], options[i])
  IN [after[Len(options)] EXCEPT !.debug = @ /\ ~Has(options, "g0")]

\* -c, -E and -S are looked for in this order, whatever mode the driver deduced.
CompilerMode(options) ==
  IF Has(options, "c") THEN "Assemble" ELSE IF Has(options, "E") THEN "PreProcess" ELSE "Compile"

Standards == {"c++11", "c++14", "c++17"}
\* Only the last -std is looked at.
StandardKnown(options) ==
  LET asked == Named(options, {"std"})
  IN asked # <<>> => asked[Len(asked)].values \subseteq Standards

\* The compiler goes by the extension of the source, which may be in capitals.
CompilerFor(source) ==
  IF source \in {".cc", ".cxx", ".cpp"} THEN "clang++"
  ELSE IF source \in {".c", ".s"} THEN "clang" ELSE "unsupported"

\* The last -std counts, and only for C++; 0 stands for the compiler's own default.
StandardPassed(source, options) ==
  LET asked == Named(options, {"std"})
  IN IF CompilerFor(source) = "clang++" /\ asked # <<>> THEN asked[Len(asked)].values ELSE {}

\* The processor is fixed: HVX with IEEE floating point, and no HMX.
ProcConfig == {"--target=hexagon-unknown-elf", "-mv68", "-mhvx=v68", "-mhvx-ieee-fp"}

CompileCommand(source, options) ==
  LET settings == CompilerAfter(options) IN
  [level |-> settings.level, debug |-> settings.debug, macros |-> settings.macros,
   tool |-> CompilerFor(source), mode |-> CompilerMode(options),
   std |-> StandardPassed(source, options), proc |-> ProcConfig,
   includes |-> Named(options, {"I"}) \o Named(options, {"isystem"}) \o <<Option("I", {"runtime"})>>,
   warnings |-> Named(options, {"W"}),
   freestanding |-> ~Has(options, "with-stdlib"), saveTemps |-> Has(options, "save-temps")]
=============================================================================
