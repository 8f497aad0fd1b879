------------------------------ MODULE Driver ------------------------------
(***************************************************************************)
(* qaic-cc: several compiler drivers that run in one directory, their      *)
(* actions cut into the steps that touch files.  The external tools        *)
(* succeed or fail, a file may refuse to be removed, a driver may be       *)
(* killed between any two steps; what is on disk stays.                    *)
(*                                                                         *)
(* A program is named by the driver that builds it: of |-> p says that the *)
(* content of a file stems from driver p's inputs.                         *)
(***************************************************************************)
EXTENDS ToolCommands, FiniteSets

CONSTANTS Drivers,    \* runs of qaic-cc, positive numbers
          ArgsOf(_)   \* ArgsOf(p): the command lines driver p may be given, as records
                      \* [options, base, ext, config, source, dirs]: the output's base, each
                      \* driver's own, and extension, the state of the program configuration,
                      \* the extension of the source, the directories with tools

VARIABLES
  args,      \* args[p]: the command line
  mode,      \* mode[p]: the deduced mode
  todo,      \* todo[p]: the steps of its actions that are left
  result,    \* result[p]: "new", "running", "ok", "failed" or "killed"
  entry,     \* entry[p]: the entry point found, as the program it belongs to, or 0
  segments,  \* segments[p]: what its QPCBuilder holds, name to content
  fs,        \* the files, name to content
  qpcs,      \* qpcs[p]: the QPC file p wrote: its segments
  reported,  \* has driver p reported an error?
  alone      \* did no other driver run while p did?

vars == <<args, mode, todo, result, entry, segments, fs, qpcs, reported, alone>>
private == <<args, mode>>

ASSUME DriversAssumption == Drivers \subseteq Nat \ {0}
\* The options of a command line, in its order.
ASSUME OptionsAssumption ==
  \A p \in Drivers : \A a \in ArgsOf(p) : a.options \in Seq([name : STRING, values : SUBSET STRING])
\* No two drivers are asked for outputs of one name.
ASSUME BasesAssumption ==
  \A p, q \in Drivers : p # q =>
    \A a \in ArgsOf(p), b \in ArgsOf(q) : a.base # "" => a.base # b.base

Elf(p) == <<args[p].base, ".elf">>
Metadata(p) == <<args[p].base, ".metadata.bin">>
NetDesc(p) == <<args[p].base, ".netdesc.bin">>
Output(p) == <<args[p].base, args[p].ext>>
Constants == <<"", "constants.bin">>          \* in the working directory, whatever the output
ConstantsDesc == <<"", "constantsdesc.bin">>
Content(p, e, m) == [of |-> p, entry |-> e, meta |-> m]

Put(f, n, v) == [m \in DOMAIN f \union {n} |-> IF m = n THEN v ELSE f[m]]
Without(f, n) == Restrict(f, DOMAIN f \ {n})
NoFiles == <<>>
HasProgram(p) == args[p].config = "good"
HasTool(p, tool) == FindTool(tool, args[p].dirs) # Nowhere
SavesTemps(p) == Has(args[p].options, "save-temps")

Init ==
  /\ args \in {a \in [Drivers -> UNION {ArgsOf(p) : p \in Drivers}] : \A p \in Drivers : a[p] \in ArgsOf(p)}
  /\ mode = [p \in Drivers |-> "Unknown"]
  /\ todo = [p \in Drivers |-> <<>>]
  /\ result = [p \in Drivers |-> "new"]
  /\ entry = [p \in Drivers |-> 0]
  /\ segments = [p \in Drivers |-> NoFiles]
  /\ fs = NoFiles
  /\ qpcs = [p \in Drivers |-> NoFiles]
  /\ reported = [p \in Drivers |-> FALSE]
  /\ alone = [p \in Drivers |-> TRUE]

-----------------------------------------------------------------------------
(* Starting.                                                               *)

\* Only a .elf, .a or no extension is linked, only .qpc makes a container.
DeducedMode(a) ==
  LET links == a.base # "" /\ \A o \in {"E", "S", "c"} : ~Has(a.options, o)
  IN CASE Has(a.options, "E") -> "PreProcess"
       [] Has(a.options, "S") /\ ~Has(a.options, "E") -> "Compile"
       [] Has(a.options, "c") /\ ~Has(a.options, "E") /\ ~Has(a.options, "S") -> "Assemble"
       [] links /\ a.ext \in {".elf", ".a", ""} -> IF a.config = "none" THEN "Link" ELSE "LinkWithMetadata"
       [] links /\ a.ext = ".qpc" -> "QPC"
       [] OTHER -> "Unknown"

EmbedSteps == <<"WriteConstants", "WriteConstantsDesc", "WriteMetadata", "Objcopy", "RemoveMetadata">>
BuildSteps == <<"ReadElf", "ReadConstants", "RemoveConstants", "ReadConstantsDesc",
                "RemoveConstantsDesc", "WriteQpc">>

\* Mutant: the metadata is embedded before the entry point is known.
StepsEmbedFirst(m) ==
  CASE m \in {"PreProcess", "Compile", "Assemble"} -> <<"Compile">>
    [] m = "Link" -> <<"Link">>
    [] m = "LinkWithMetadata" -> <<"Link">> \o EmbedSteps \o <<"Extract">>
    [] m = "QPC" -> <<"Link">> \o EmbedSteps \o <<"Extract">> \o BuildSteps

Steps(m) ==
  CASE m \in {"PreProcess", "Compile", "Assemble"} -> <<"Compile">>
    [] m = "Link" -> <<"Link">>
    [] m = "LinkWithMetadata" -> <<"Link", "Extract">> \o EmbedSteps
    [] m = "QPC" -> <<"Link", "Extract">> \o EmbedSteps \o BuildSteps

Running == {p \in Drivers : result[p] = "running"}

\* main and Driver::run: the mode, the configuration, the list of actions.
Start(p) ==
  /\ result[p] = "new"
  /\ mode' = [mode EXCEPT ![p] = DeducedMode(args[p])]
  /\ LET ok == mode'[p] # "Unknown" /\ args[p].config # "bad"
     IN /\ result' = [result EXCEPT ![p] = IF ok THEN "running" ELSE "failed"]
        /\ todo' = [todo EXCEPT ![p] = IF ok THEN Steps(mode'[p]) ELSE <<>>]
        /\ reported' = [reported EXCEPT ![p] = ~ok]
        /\ alone' = IF ok /\ Running # {}
                    THEN [q \in Drivers |-> alone[q] /\ q \notin Running \union {p}] ELSE alone
  /\ UNCHANGED <<args, entry, segments, fs, qpcs>>

-----------------------------------------------------------------------------
(* The ways a step ends.                                                   *)

At(p, step) == result[p] = "running" /\ Head(todo[p]) = step

\* The action goes on, or it was the last and nothing was registered for cleanup.
GoOn(p) ==
  /\ todo' = [todo EXCEPT ![p] = Tail(@)]
  /\ result' = [result EXCEPT ![p] = IF Len(todo[p]) = 1 THEN "ok" ELSE @]

\* The action returns false: no further action, no cleanup.
Fail(p) ==
  /\ todo' = [todo EXCEPT ![p] = <<>>]
  /\ result' = [result EXCEPT ![p] = "failed"]
  /\ reported' = [reported EXCEPT ![p] = TRUE]

\* An error is reported, but the action returns true and the next one starts.
EndAction(p, last) ==
  LET rest == SelectInSeq(todo[p], LAMBDA s : s = last)
  IN /\ todo' = [todo EXCEPT ![p] = SubSeq(@, rest + 1, Len(@))]
     /\ result' = [result EXCEPT ![p] = IF rest = Len(todo[p]) THEN "ok" ELSE @]
     /\ reported' = [reported EXCEPT ![p] = TRUE]

Write(name, content) == fs' = Put(fs, name, content)

-----------------------------------------------------------------------------
(* The steps.                                                              *)

\* An unknown standard is reported and the action returns true without compiling.
Compile(p) ==
  /\ At(p, "Compile")
  /\ \/ ~StandardKnown(args[p].options) /\ EndAction(p, "Compile") /\ UNCHANGED fs
     \/ /\ StandardKnown(args[p].options) /\ args[p].base # ""
        /\ HasTool(p, CompilerFor(args[p].source))
        /\ Write(Output(p), Content(p, 0, 0)) /\ GoOn(p) /\ UNCHANGED reported
     \/ StandardKnown(args[p].options) /\ Fail(p) /\ UNCHANGED fs
  /\ UNCHANGED <<private, entry, segments, qpcs, alone>>

\* Outside the link modes the ELF file gets the name of the container's link step.
LinkOutput(p) == IF mode[p] \in {"Link", "LinkWithMetadata"} THEN Output(p) ELSE Elf(p)

Link(p) ==
  /\ At(p, "Link")
  /\ \/ /\ LinkAccepted(args[p].options) /\ HasTool(p, "clang++")
        /\ Write(LinkOutput(p), Content(p, 0, 0)) /\ GoOn(p) /\ UNCHANGED reported
     \/ Fail(p) /\ UNCHANGED fs
  /\ UNCHANGED <<private, entry, segments, qpcs, alone>>

\* Without a configuration the actions from here on refuse to run.
Extract(p) ==
  /\ At(p, "Extract")
  /\ IF HasProgram(p) /\ LinkOutput(p) \in DOMAIN fs
     THEN entry' = [entry EXCEPT ![p] = fs[LinkOutput(p)].of] /\ GoOn(p) /\ UNCHANGED reported
     ELSE Fail(p) /\ UNCHANGED entry
  /\ UNCHANGED <<private, segments, fs, qpcs, alone>>

\* Mutant: a file that is there already is not written again.
WriteSharedKeeps(p, step, name) ==
  /\ At(p, step)
  /\ fs' = IF name \in DOMAIN fs THEN fs ELSE Put(fs, name, Content(p, 0, 0))
  /\ GoOn(p)
  /\ UNCHANGED <<private, entry, segments, qpcs, reported, alone>>

\* generateMetadata exits if it cannot create one of the two files.
WriteShared(p, step, name) ==
  /\ At(p, step)
  /\ \/ Write(name, Content(p, 0, 0)) /\ GoOn(p) /\ UNCHANGED reported
     \/ Fail(p) /\ UNCHANGED fs
  /\ UNCHANGED <<private, entry, segments, qpcs, alone>>

\* The result of writeMetadata is not looked at: a file that is there stays as it is.
WriteMetadata(p) ==
  /\ At(p, "WriteMetadata")
  /\ Write(Metadata(p), Content(p, entry[p], 0)) \/ UNCHANGED fs
  /\ GoOn(p)
  /\ UNCHANGED <<private, entry, segments, qpcs, reported, alone>>

\* objcopy adds the metadata to the ELF file in place.  Its return code counts only
\* after the metadata file is removed: a failure there hides one of objcopy.
Objcopy(p) ==
  /\ At(p, "Objcopy")
  /\ \/ /\ Metadata(p) \in DOMAIN fs /\ LinkOutput(p) \in DOMAIN fs /\ HasTool(p, "llvm-objcopy")
        /\ Write(LinkOutput(p), [fs[LinkOutput(p)] EXCEPT
                                   !.entry = fs[Metadata(p)].entry, !.meta = fs[Metadata(p)].of])
        /\ GoOn(p) /\ UNCHANGED reported
     \/ fs' = (IF SavesTemps(p) THEN fs ELSE Without(fs, Metadata(p))) /\ Fail(p)
     \/ ~SavesTemps(p) /\ Metadata(p) \in DOMAIN fs /\ EndAction(p, "RemoveMetadata") /\ UNCHANGED fs
  /\ UNCHANGED <<private, entry, segments, qpcs, alone>>

\* Mutant: only what the output is called after is removed.
RemoveTempOwn(p, step, name, last) ==
  /\ At(p, step)
  /\ fs' = IF SavesTemps(p) \/ name # Metadata(p) THEN fs ELSE Without(fs, name)
  /\ GoOn(p)
  /\ UNCHANGED <<private, entry, segments, qpcs, reported, alone>>

\* A file that cannot be removed makes the action return an error code, which is true;
\* one that is not there is no error.
RemoveTemp(p, step, name, last) ==
  /\ At(p, step)
  /\ \/ /\ fs' = IF SavesTemps(p) THEN fs ELSE Without(fs, name)
        /\ GoOn(p) /\ UNCHANGED reported
     \/ ~SavesTemps(p) /\ name \in DOMAIN fs /\ EndAction(p, last) /\ UNCHANGED fs
  /\ UNCHANGED <<private, entry, segments, qpcs, alone>>

\* addSegmentFromFile
Read(p, step, name, segment) ==
  /\ At(p, step)
  /\ IF name \in DOMAIN fs
     THEN segments' = [segments EXCEPT ![p] = Put(@, segment, fs[name])] /\ GoOn(p) /\ UNCHANGED reported
     ELSE Fail(p) /\ UNCHANGED segments
  /\ UNCHANGED <<private, entry, fs, qpcs, alone>>

\* The network descriptor is added and the container written.  Whether the write went
\* well is not asked, only whether the descriptor could be serialised.
WriteQpc(p) ==
  /\ At(p, "WriteQpc")
  /\ \/ /\ qpcs' = [qpcs EXCEPT ![p] = Put(segments[p], "networkdesc.bin", Content(p, 0, 0))]
        /\ fs' = IF SavesTemps(p) THEN Put(fs, NetDesc(p), Content(p, 0, 0)) ELSE fs
        /\ GoOn(p) /\ UNCHANGED reported
     \/ GoOn(p) /\ UNCHANGED <<fs, qpcs, reported>>
     \/ Fail(p) /\ UNCHANGED <<fs, qpcs>>
  /\ UNCHANGED <<private, entry, segments, alone>>

Kill(p) ==
  /\ result[p] = "running"
  /\ result' = [result EXCEPT ![p] = "killed"]
  /\ todo' = [todo EXCEPT ![p] = <<>>]
  /\ UNCHANGED <<private, entry, segments, fs, qpcs, reported, alone>>

Step(p) ==
  \/ Compile(p) \/ Link(p) \/ Extract(p)
  \/ WriteShared(p, "WriteConstants", Constants)
  \/ WriteShared(p, "WriteConstantsDesc", ConstantsDesc)
  \/ WriteMetadata(p) \/ Objcopy(p)
  \/ RemoveTemp(p, "RemoveMetadata", Metadata(p), "RemoveMetadata")
  \/ Read(p, "ReadElf", Elf(p), "network.elf")
  \/ Read(p, "ReadConstants", Constants, "constants.bin")
  \/ RemoveTemp(p, "RemoveConstants", Constants, "WriteQpc")
  \/ Read(p, "ReadConstantsDesc", ConstantsDesc, "constantsdesc.bin")
  \/ RemoveTemp(p, "RemoveConstantsDesc", ConstantsDesc, "WriteQpc")
  \/ WriteQpc(p)

Next == \E p \in Drivers : Start(p) \/ Step(p) \/ Kill(p)

Spec == Init /\ [][Next]_vars

\* ComputeProgram::validateQPC: constants come with their descriptor.
ValidateQPC(names) ==
  LET both == {"constants.bin", "constantsdesc.bin"}
      required == {"network.elf", "networkdesc.bin"}
                  \union IF names \intersect both # {} THEN both ELSE {}
  IN Cardinality(names) >= 2 /\ required \subseteq names

-----------------------------------------------------------------------------
(* Properties.                                                             *)

Own(p) == Content(p, p, p)

\* A run that ends well and has reported no error has made its output, if a container
\* could be written at all, from its own inputs, with its own metadata and with the entry point of this very ELF file,
\* whoever else was at work or died in the same directory.
OutputIsOwn ==
  \A p \in Drivers : result[p] = "ok" /\ ~reported[p] =>
    CASE mode[p] \in {"PreProcess", "Compile", "Assemble", "Link"} -> fs[Output(p)].of = p
      [] mode[p] = "LinkWithMetadata" -> fs[Output(p)] = Own(p)
      [] OTHER -> \/ qpcs[p] = NoFiles
                  \/ /\ ValidateQPC(DOMAIN qpcs[p])
                     /\ qpcs[p]["network.elf"] = Own(p) /\ qpcs[p]["networkdesc.bin"].of = p

\* The constants in a container are those of its program, unless another driver ran
\* in the same directory at the same time: what earlier runs left does not matter.
ConstantsAreOwn ==
  \A p \in Drivers : alone[p] /\ {"constants.bin", "constantsdesc.bin"} \subseteq DOMAIN qpcs[p] =>
    qpcs[p]["constants.bin"].of = p /\ qpcs[p]["constantsdesc.bin"].of = p

\* A QPC run that ends well on its own leaves none of the files it removes.
NothingLeftBehind ==
  [][\A p \in Drivers :
       /\ result[p] = "running" /\ result'[p] = "ok" /\ mode[p] = "QPC"
       /\ alone[p] /\ ~reported'[p] /\ ~SavesTemps(p)
       => DOMAIN fs' \intersect {Metadata(p), Constants, ConstantsDesc} = {}]_vars

\* A bracket is open in front of position i of a linker line.
IsOpen(line, i, open, close) ==
  \E j \in 1 .. i - 1 : line[j] = open /\ \A k \in j + 1 .. i - 1 : line[k] # close

\* Brackets of one kind open and close in turn.
Alternate(line, open, close) ==
  \A i \in DOMAIN line : line[i] \in {open, close} => (line[i] = close <=> IsOpen(line, i, open, close))

\* What the tools are asked to do is what the options say: groups on the linker line
\* are closed and never nested, the last -O counts, and -g0 wins wherever it stands.
CommandsFollowOptions ==
  \A p \in Drivers : LET options == args[p].options IN
    /\ LET line == LinkCommand(options).line
       IN /\ Alternate(line, "--start-group", "--end-group")
          /\ Alternate(line, "--whole-archive", "--no-whole-archive")
          /\ ~IsOpen(line, Len(line) + 1, "--start-group", "--end-group")
    /\ LET command == CompileCommand(args[p].source, options)
           levels == {i \in DOMAIN options : options[i].name \in OptLevels}
       IN /\ command.std # {} => command.tool = "clang++"
          /\ levels # {} => \E i \in levels :
                 command.level = options[i].name /\ \A j \in levels : j <= i
          /\ command.debug = (Has(options, "g") /\ ~Has(options, "g0"))
=============================================================================
