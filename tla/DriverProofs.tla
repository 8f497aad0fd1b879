---------------------------- MODULE DriverProofs ----------------------------
(***************************************************************************)
(* Proofs about Driver, for any number of drivers in one directory and any *)
(* command lines: what a run makes is its own, whatever others do or left, *)
(* and what the tools are asked to do is what the options say.             *)
(***************************************************************************)
EXTENDS Driver, SequenceTheorems, FiniteSetTheorems, WellFoundedInduction, TLAPS

CompileModes == {"PreProcess", "Compile", "Assemble"}
EmbedModes == {"LinkWithMetadata", "QPC"}
LinkModes == {"Link"} \union EmbedModes

\* Driver p is at its actions, or has come to the end of them.
Active(p) == result[p] \in {"running", "ok"}

\* The number of the next step of driver p, among those of its mode.
Place(p) == Len(Steps(mode[p])) - Len(todo[p]) + 1

StepNames == {"Compile", "Link", "Extract", "WriteConstants", "WriteConstantsDesc", "WriteMetadata",
              "Objcopy", "RemoveMetadata", "ReadElf", "ReadConstants", "RemoveConstants",
              "ReadConstantsDesc", "RemoveConstantsDesc", "WriteQpc"}
Results == {"new", "running", "ok", "failed", "killed"}
Contents == [of : Nat, entry : Nat, meta : Nat]

\* The command lines are those allowed, and every table has an entry for each driver.
TypeOK ==
  /\ args \in [Drivers -> UNION {ArgsOf(p) : p \in Drivers}]
  /\ \A p \in Drivers : args[p] \in ArgsOf(p)
  /\ mode \in [Drivers -> CompileModes \union LinkModes \union {"Unknown"}]
  /\ todo \in [Drivers -> Seq(StepNames)]
  /\ result \in [Drivers -> Results]
  /\ entry \in [Drivers -> Nat]
  /\ DOMAIN segments = Drivers /\ DOMAIN qpcs = Drivers
  /\ \A n \in DOMAIN fs : fs[n] \in Contents
  /\ reported \in [Drivers -> BOOLEAN] /\ alone \in [Drivers -> BOOLEAN]

\* What is left to do is the end of the steps of the mode.
OnPlan(p) ==
  Active(p) =>
    /\ mode[p] # "Unknown" /\ mode[p] = DeducedMode(args[p])
    /\ result[p] = "ok" <=> Len(todo[p]) = 0
    /\ Len(todo[p]) <= Len(Steps(mode[p]))
    /\ \A j \in 1 .. Len(todo[p]) : todo[p][j] = Steps(mode[p])[Place(p) + j - 1]

\* Files outside the working directory's shared names belong to drivers that have started.
FilesHaveOwners ==
  \A n \in DOMAIN fs : n[1] = "" \/ \E q \in Drivers : args[q].base = n[1] /\ result[q] # "new"

\* The files that only p writes are as far as p has come.
OwnFiles(p) ==
  Active(p) =>
    /\ mode[p] \in CompileModes /\ Place(p) > 1 /\ ~reported[p] =>
         args[p].base # "" /\ Output(p) \in DOMAIN fs /\ fs[Output(p)].of = p
    /\ mode[p] \in LinkModes /\ Place(p) > 1 => LinkOutput(p) \in DOMAIN fs /\ fs[LinkOutput(p)].of = p
    /\ mode[p] \in EmbedModes =>
         /\ Place(p) > 2 => entry[p] = p
         /\ Metadata(p) \in DOMAIN fs => fs[Metadata(p)].of = p /\ fs[Metadata(p)].entry = p
         /\ Place(p) > 6 /\ ~reported[p] => fs[LinkOutput(p)] = Own(p)

\* The builder holds what was read, and the container what the builder held.
ContainerFits(p) ==
  /\ IsFiniteSet(DOMAIN segments[p])
  /\ Active(p) /\ mode[p] = "QPC" /\ ~reported[p] =>
       /\ Place(p) > 8 => "network.elf" \in DOMAIN segments[p] /\ segments[p]["network.elf"] = Own(p)
       /\ Place(p) > 9 => "constants.bin" \in DOMAIN segments[p]
       /\ Place(p) > 11 => "constantsdesc.bin" \in DOMAIN segments[p]
  /\ \/ qpcs[p] = NoFiles \/ reported[p]
     \/ /\ {"network.elf", "networkdesc.bin", "constants.bin", "constantsdesc.bin"} \subseteq DOMAIN qpcs[p]
        /\ IsFiniteSet(DOMAIN qpcs[p])
        /\ qpcs[p]["network.elf"] = Own(p) /\ qpcs[p]["networkdesc.bin"].of = p

\* The shared files are p's from when it writes them until it has read them, if it is alone.
SharedFiles(p) ==
  alone[p] =>
    /\ result[p] = "running" =>
         /\ \A q \in Drivers : result[q] = "running" => q = p
         /\ mode[p] \in EmbedModes =>
              /\ Place(p) \in 4 .. 9 => Constants \in DOMAIN fs /\ fs[Constants].of = p
              /\ Place(p) \in 5 .. 11 => ConstantsDesc \in DOMAIN fs /\ fs[ConstantsDesc].of = p
    /\ \A name \in {"constants.bin", "constantsdesc.bin"} :
         /\ name \in DOMAIN segments[p] => segments[p][name].of = p
         /\ name \in DOMAIN qpcs[p] => qpcs[p][name].of = p

\* What p has removed does not come back while it is alone.
Removed(p) ==
  alone[p] /\ result[p] = "running" /\ mode[p] = "QPC" /\ ~reported[p] /\ ~SavesTemps(p) =>
    /\ Place(p) > 7 => Metadata(p) \notin DOMAIN fs
    /\ Place(p) > 10 => Constants \notin DOMAIN fs
    /\ Place(p) > 12 => ConstantsDesc \notin DOMAIN fs

\* Before a driver starts it holds nothing.
Unstarted(p) == result[p] = "new" => segments[p] = NoFiles /\ qpcs[p] = NoFiles

\* All of it for one driver.
Fits(p) ==
  OnPlan(p) /\ OwnFiles(p) /\ ContainerFits(p) /\ SharedFiles(p) /\ Removed(p) /\ Unstarted(p)

IInv ==
  /\ TypeOK /\ FilesHaveOwners
  /\ \A p \in Drivers : Fits(p)

-----------------------------------------------------------------------------
(* The steps of a mode and how far a driver has come in them.              *)

\* The number of a step, and the modes it belongs to.
Number(step) ==
  CASE step \in {"Compile", "Link"} -> 1
    [] step = "Extract" -> 2 [] step = "WriteConstants" -> 3 [] step = "WriteConstantsDesc" -> 4
    [] step = "WriteMetadata" -> 5 [] step = "Objcopy" -> 6 [] step = "RemoveMetadata" -> 7
    [] step = "ReadElf" -> 8 [] step = "ReadConstants" -> 9 [] step = "RemoveConstants" -> 10
    [] step = "ReadConstantsDesc" -> 11 [] step = "RemoveConstantsDesc" -> 12
    [] step = "WriteQpc" -> 13
ModesWith(step) ==
  CASE step = "Compile" -> CompileModes
    [] step = "Link" -> LinkModes
    [] step \in {"Extract", "WriteConstants", "WriteConstantsDesc", "WriteMetadata", "Objcopy",
                 "RemoveMetadata"} -> EmbedModes
    [] OTHER -> {"QPC"}

\* The numbers of the steps, one by one.
LEMMA Numbers ==
  /\ Number("Compile") = 1 /\ Number("Link") = 1 /\ Number("Extract") = 2
  /\ Number("WriteConstants") = 3 /\ Number("WriteConstantsDesc") = 4
  /\ Number("WriteMetadata") = 5 /\ Number("Objcopy") = 6 /\ Number("RemoveMetadata") = 7
  /\ Number("ReadElf") = 8 /\ Number("ReadConstants") = 9 /\ Number("RemoveConstants") = 10
  /\ Number("ReadConstantsDesc") = 11 /\ Number("RemoveConstantsDesc") = 12
  /\ Number("WriteQpc") = 13
  BY DEF Number

\* The parts the lists of steps are made of (EmbedSteps, BuildSteps).
LEMMA PartsOfSteps ==
  /\ EmbedSteps \in Seq(StepNames) /\ Len(EmbedSteps) = 5
  /\ EmbedSteps[1] = "WriteConstants" /\ EmbedSteps[2] = "WriteConstantsDesc"
  /\ EmbedSteps[3] = "WriteMetadata" /\ EmbedSteps[4] = "Objcopy"
  /\ EmbedSteps[5] = "RemoveMetadata"
  /\ BuildSteps \in Seq(StepNames) /\ Len(BuildSteps) = 6
  /\ BuildSteps[1] = "ReadElf" /\ BuildSteps[2] = "ReadConstants"
  /\ BuildSteps[3] = "RemoveConstants" /\ BuildSteps[4] = "ReadConstantsDesc"
  /\ BuildSteps[5] = "RemoveConstantsDesc" /\ BuildSteps[6] = "WriteQpc"
<1>1. /\ EmbedSteps \in Seq(StepNames) /\ Len(EmbedSteps) = 5
      /\ EmbedSteps[1] = "WriteConstants" /\ EmbedSteps[2] = "WriteConstantsDesc"
      /\ EmbedSteps[3] = "WriteMetadata" /\ EmbedSteps[4] = "Objcopy"
      /\ EmbedSteps[5] = "RemoveMetadata"
  BY DEF EmbedSteps, StepNames
<1>2. /\ BuildSteps \in Seq(StepNames) /\ Len(BuildSteps) = 6
      /\ BuildSteps[1] = "ReadElf" /\ BuildSteps[2] = "ReadConstants"
      /\ BuildSteps[3] = "RemoveConstants" /\ BuildSteps[4] = "ReadConstantsDesc"
      /\ BuildSteps[5] = "RemoveConstantsDesc" /\ BuildSteps[6] = "WriteQpc"
  BY DEF BuildSteps, StepNames
<1>3. QED
  BY <1>1, <1>2

\* The steps of each mode (Steps).
LEMMA StepsOfModes ==
  /\ \A m \in CompileModes : Steps(m) = <<"Compile">>
  /\ Steps("Link") = <<"Link">>
  /\ Steps("LinkWithMetadata") = <<"Link", "Extract">> \o EmbedSteps
  /\ Steps("QPC") = <<"Link", "Extract">> \o EmbedSteps \o BuildSteps
  BY DEF Steps, CompileModes

\* The first seven steps of a mode that embeds metadata.
LEMMA EmbedPrefix ==
  ASSUME NEW list, list = <<"Link", "Extract">> \o EmbedSteps
  PROVE  /\ list \in Seq(StepNames) /\ Len(list) = 7
         /\ list[1] = "Link" /\ list[2] = "Extract" /\ list[3] = "WriteConstants"
         /\ list[4] = "WriteConstantsDesc" /\ list[5] = "WriteMetadata"
         /\ list[6] = "Objcopy" /\ list[7] = "RemoveMetadata"
<1> DEFINE front == <<"Link", "Extract">>
<1>1. front \in Seq(StepNames) /\ Len(front) = 2 /\ front[1] = "Link" /\ front[2] = "Extract"
  BY DEF StepNames
<1> HIDE DEF front
<1>2. /\ front \o EmbedSteps \in Seq(StepNames)
      /\ Len(front \o EmbedSteps) = Len(front) + Len(EmbedSteps)
      /\ \A i \in 1 .. Len(front) + Len(EmbedSteps) : (front \o EmbedSteps)[i] =
            IF i <= Len(front) THEN front[i] ELSE EmbedSteps[i - Len(front)]
  BY <1>1, PartsOfSteps, ConcatProperties, Zenon
<1>3. list = front \o EmbedSteps
  BY DEF front
<1>4. QED
  BY <1>1, <1>2, <1>3, PartsOfSteps

\* The steps that make a container.
LEMMA QpcSteps ==
  LET list == Steps("QPC")
  IN /\ list \in Seq(StepNames) /\ Len(list) = 13
     /\ list[1] = "Link" /\ list[2] = "Extract" /\ list[3] = "WriteConstants"
     /\ list[4] = "WriteConstantsDesc" /\ list[5] = "WriteMetadata"
     /\ list[6] = "Objcopy" /\ list[7] = "RemoveMetadata" /\ list[8] = "ReadElf"
     /\ list[9] = "ReadConstants" /\ list[10] = "RemoveConstants"
     /\ list[11] = "ReadConstantsDesc" /\ list[12] = "RemoveConstantsDesc"
     /\ list[13] = "WriteQpc"
<1> DEFINE front == <<"Link", "Extract">> \o EmbedSteps
           list == front \o BuildSteps
<1>1. /\ front \in Seq(StepNames) /\ Len(front) = 7
      /\ front[1] = "Link" /\ front[2] = "Extract" /\ front[3] = "WriteConstants"
      /\ front[4] = "WriteConstantsDesc" /\ front[5] = "WriteMetadata"
      /\ front[6] = "Objcopy" /\ front[7] = "RemoveMetadata"
  BY EmbedPrefix, Zenon
<1>2. Steps("QPC") = list
  BY StepsOfModes, Zenon
<1> HIDE DEF front
<1>3. /\ list \in Seq(StepNames)
      /\ Len(list) = Len(front) + Len(BuildSteps)
      /\ \A i \in 1 .. Len(front) + Len(BuildSteps) : list[i] =
            IF i <= Len(front) THEN front[i] ELSE BuildSteps[i - Len(front)]
  BY <1>1, PartsOfSteps, ConcatProperties, Zenon
<1> HIDE DEF list
<1>4. /\ list[1] = front[1] /\ list[2] = front[2] /\ list[3] = front[3] /\ list[4] = front[4]
      /\ list[5] = front[5] /\ list[6] = front[6] /\ list[7] = front[7]
  BY <1>1, <1>3, PartsOfSteps
<1>5. /\ list[8] = BuildSteps[1] /\ list[9] = BuildSteps[2] /\ list[10] = BuildSteps[3]
      /\ list[11] = BuildSteps[4] /\ list[12] = BuildSteps[5] /\ list[13] = BuildSteps[6]
      /\ Len(list) = 13
  BY <1>1, <1>3, PartsOfSteps
<1>6. QED
  BY <1>1, <1>2, <1>3, <1>4, <1>5, PartsOfSteps, SMTT(30)

\* A step stands at its number in every mode it belongs to, and in no other mode (Steps).
LEMMA StepsAreNumbered ==
  ASSUME NEW m \in CompileModes \union LinkModes
  PROVE  /\ Steps(m) \in Seq(StepNames)
         /\ Len(Steps(m)) = IF m = "QPC" THEN 13 ELSE IF m = "LinkWithMetadata" THEN 7 ELSE 1
         /\ \A k \in 1 .. Len(Steps(m)) :
              Number(Steps(m)[k]) = k /\ m \in ModesWith(Steps(m)[k])
<1>1. CASE m \in CompileModes
  <2>1. Steps(m) = <<"Compile">> /\ Number("Compile") = 1 /\ m \in ModesWith("Compile")
    BY <1>1, StepsOfModes, Numbers DEF ModesWith
  <2>2. m # "QPC" /\ m # "LinkWithMetadata"
    BY <1>1 DEF CompileModes
  <2>3. QED
    BY <2>1, <2>2 DEF StepNames
<1>2. CASE m = "Link"
  <2>1. Steps(m) = <<"Link">> /\ Number("Link") = 1 /\ m \in ModesWith("Link")
    BY <1>2, StepsOfModes, Numbers DEF ModesWith, LinkModes
  <2>2. Steps(m) \in Seq(StepNames) /\ Len(Steps(m)) = 1 /\ Steps(m)[1] = "Link"
    BY <2>1 DEF StepNames
  <2>3. QED
    BY <1>2, <2>1, <2>2
<1>3. CASE m = "LinkWithMetadata"
  <2> DEFINE list == Steps(m)
  <2>1. list = <<"Link", "Extract">> \o EmbedSteps
    BY <1>3, StepsOfModes
  <2> HIDE DEF list
  <2>2. /\ list \in Seq(StepNames) /\ Len(list) = 7
        /\ list[1] = "Link" /\ list[2] = "Extract" /\ list[3] = "WriteConstants"
        /\ list[4] = "WriteConstantsDesc" /\ list[5] = "WriteMetadata"
        /\ list[6] = "Objcopy" /\ list[7] = "RemoveMetadata"
    BY <2>1, EmbedPrefix, Zenon
  <2>3. \A k \in 1 .. 7 : Number(list[k]) = k
    BY <2>2, Numbers
  <2>4. m \in EmbedModes /\ m \in LinkModes
    BY <1>3 DEF EmbedModes, LinkModes
  <2>5. \A k \in 1 .. 7 : m \in ModesWith(list[k])
    BY <2>2, <2>4 DEF ModesWith
  <2>6. QED
    BY <1>3, <2>2, <2>3, <2>5 DEF list
<1>4. CASE m = "QPC"
  <2> DEFINE list == Steps("QPC")
  <2> HIDE DEF list
  <2>2. /\ list \in Seq(StepNames) /\ Len(list) = 13
        /\ list[1] = "Link" /\ list[2] = "Extract" /\ list[3] = "WriteConstants"
        /\ list[4] = "WriteConstantsDesc" /\ list[5] = "WriteMetadata"
        /\ list[6] = "Objcopy" /\ list[7] = "RemoveMetadata" /\ list[8] = "ReadElf"
        /\ list[9] = "ReadConstants" /\ list[10] = "RemoveConstants"
        /\ list[11] = "ReadConstantsDesc" /\ list[12] = "RemoveConstantsDesc"
        /\ list[13] = "WriteQpc"
    BY QpcSteps, Zenon DEF list
  <2>3. \A k \in 1 .. 13 : Number(list[k]) = k
    BY <2>2, Numbers
  <2>4. m \in EmbedModes /\ m \in LinkModes
    BY <1>4 DEF EmbedModes, LinkModes
  <2>5. \A k \in 1 .. 13 : m \in ModesWith(list[k])
    <3>1. \A k \in 1 .. 7 : m \in ModesWith(list[k])
      BY <2>2, <2>4 DEF ModesWith
    <3>2. \A k \in 8 .. 13 : m \in ModesWith(list[k])
      BY <2>2, <1>4 DEF ModesWith
    <3>3. QED
      BY <3>1, <3>2
  <2>6. QED
    BY <1>4, <2>2, <2>3, <2>5 DEF list
<1>5. QED
  BY <1>1, <1>2, <1>3, <1>4 DEF LinkModes, EmbedModes

\* A driver that is at a step has come as far as the number of the step says (At).
LEMMA PlaceOfStep ==
  ASSUME TypeOK, NEW p \in Drivers, OnPlan(p), NEW step, At(p, step)
  PROVE  /\ mode[p] \in ModesWith(step) /\ Place(p) = Number(step)
         /\ todo[p] # <<>> /\ Len(todo[p]) \in 1 .. Len(Steps(mode[p]))
         /\ Place(p) \in 1 .. Len(Steps(mode[p]))
<1> DEFINE m == mode[p]  list == Steps(m)
<1>1. Active(p) /\ m \in CompileModes \union LinkModes
  BY DEF At, Active, OnPlan, TypeOK
<1>2. /\ list \in Seq(StepNames)
      /\ \A k \in 1 .. Len(list) : Number(list[k]) = k /\ m \in ModesWith(list[k])
  BY <1>1, StepsAreNumbered
<1>3. todo[p] \in Seq(StepNames) /\ Len(todo[p]) \in Nat /\ Len(list) \in Nat
  BY <1>2 DEF TypeOK
<1>4. Len(todo[p]) # 0 /\ Len(todo[p]) <= Len(list)
  BY <1>1, <1>3 DEF OnPlan, At
<1>5. todo[p][1] = list[Place(p) + 1 - 1]
  BY <1>1, <1>3, <1>4 DEF OnPlan
<1>6. Head(todo[p]) = todo[p][1] /\ todo[p] # <<>>
  BY <1>3, <1>4
<1>7. Place(p) \in 1 .. Len(list) /\ Place(p) + 1 - 1 = Place(p)
  BY <1>3, <1>4 DEF Place
<1>8. step = list[Place(p)]
  BY <1>5, <1>6, <1>7 DEF At
<1>9. QED
  BY <1>2, <1>3, <1>4, <1>6, <1>7, <1>8

\* A driver goes on at the place after this one (GoOn).
LEMMA GoOnMoves ==
  ASSUME TypeOK, NEW p \in Drivers, OnPlan(p), NEW step, At(p, step), GoOn(p), UNCHANGED private
  PROVE  /\ Active(p)' /\ Place(p)' = Place(p) + 1 /\ OnPlan(p)'
         /\ todo'[p] \in Seq(StepNames) /\ result'[p] \in {"running", "ok"}
         /\ result'[p] = "ok" => Place(p) = Len(Steps(mode[p]))
<1> DEFINE m == mode[p]  list == Steps(m)
<1>1. /\ Active(p) /\ m \in CompileModes \union LinkModes /\ result[p] = "running"
      /\ mode' = mode /\ args' = args
  BY DEF At, Active, OnPlan, TypeOK, private
<1>2. list \in Seq(StepNames) /\ Len(list) \in Nat
  BY <1>1, StepsAreNumbered
<1>3. /\ todo[p] \in Seq(StepNames) /\ todo[p] # <<>> /\ Len(todo[p]) \in 1 .. Len(list)
      /\ todo'[p] = Tail(todo[p])
      /\ result'[p] = IF Len(todo[p]) = 1 THEN "ok" ELSE "running"
  BY <1>1, PlaceOfStep DEF TypeOK, GoOn
<1>4. /\ todo'[p] \in Seq(StepNames) /\ Len(todo'[p]) = Len(todo[p]) - 1
      /\ \A i \in 1 .. Len(todo'[p]) : todo'[p][i] = todo[p][i + 1]
  BY <1>3, HeadTailProperties
<1>5. Active(p)' /\ (result'[p] = "ok" <=> Len(todo'[p]) = 0)
  BY <1>2, <1>3, <1>4 DEF Active
<1>11. Place(p) = Len(list) - Len(todo[p]) + 1 /\ Place(p) \in Nat
  BY <1>2, <1>3 DEF Place
<1>12. Place(p)' = Len(list) - Len(todo'[p]) + 1
  BY <1>1 DEF Place
<1> HIDE DEF list
<1>6. Place(p)' = Place(p) + 1
  BY <1>2, <1>3, <1>4, <1>11, <1>12
<1>7. \A j \in 1 .. Len(todo'[p]) : todo'[p][j] = list[Place(p)' + j - 1]
  <2>1. TAKE j \in 1 .. Len(todo'[p])
  <2>2. /\ todo'[p][j] = todo[p][j + 1] /\ j + 1 \in 1 .. Len(todo[p])
        /\ Place(p) \in Int /\ Place(p) + (j + 1) - 1 = Place(p)' + j - 1
    BY <1>2, <1>3, <1>4, <1>6, <1>11
  <2>3. todo[p][j + 1] = list[Place(p) + (j + 1) - 1]
    BY <1>1, <2>2 DEF OnPlan, list
  <2>4. QED
    BY <2>2, <2>3
<1>8. OnPlan(p)'
  BY <1>1, <1>2, <1>3, <1>4, <1>5, <1>7 DEF OnPlan, list
<1>9. result'[p] = "ok" => Place(p) = Len(list)
  <2>1. result'[p] = "ok" => Len(todo[p]) = 1
    BY <1>3
  <2>2. Len(todo[p]) = 1 => Place(p) = Len(list)
    BY <1>2, <1>11
  <2>3. QED
    BY <2>1, <2>2
<1>10. QED
  BY <1>3, <1>4, <1>5, <1>6, <1>8, <1>9 DEF list

\* A driver whose action ends early goes on no earlier than at this place (EndAction).
LEMMA EndActionMoves ==
  ASSUME TypeOK, NEW p \in Drivers, OnPlan(p), NEW step, At(p, step), NEW last, EndAction(p, last),
         UNCHANGED private
  PROVE  /\ Active(p)' /\ Place(p)' \in Nat /\ Place(p)' >= Place(p) /\ OnPlan(p)' /\ reported'[p]
         /\ todo'[p] \in Seq(StepNames) /\ result'[p] \in {"running", "ok"}
<1> DEFINE m == mode[p]  list == Steps(m)
           lasts == {i \in 1 .. Len(todo[p]) : todo[p][i] = last}
           rest == IF lasts # {} THEN Min(lasts) ELSE 0
<1>1. /\ Active(p) /\ m \in CompileModes \union LinkModes /\ result[p] = "running"
      /\ mode' = mode /\ args' = args
  BY DEF At, Active, OnPlan, TypeOK, private
<1>2. list \in Seq(StepNames) /\ Len(list) \in Nat
  BY <1>1, StepsAreNumbered
<1>3. todo[p] \in Seq(StepNames) /\ todo[p] # <<>> /\ Len(todo[p]) \in 1 .. Len(list)
  BY <1>1, PlaceOfStep DEF TypeOK
<1>15. Place(p) = Len(list) - Len(todo[p]) + 1 /\ Place(p) \in Nat
  BY <1>2, <1>3 DEF Place
<1>4. rest \in 0 .. Len(todo[p])
  <2>1. \A i, j \in lasts : i = j
    <3>1. TAKE i, j \in lasts
    <3>2. /\ i \in 1 .. Len(todo[p]) /\ j \in 1 .. Len(todo[p])
          /\ Place(p) + i - 1 \in 1 .. Len(list) /\ Place(p) + j - 1 \in 1 .. Len(list)
      BY <1>2, <1>3, <1>15
    <3>3. list[Place(p) + i - 1] = last /\ list[Place(p) + j - 1] = last
      BY <1>1, <3>2 DEF OnPlan
    <3>4. Number(last) = Place(p) + i - 1 /\ Number(last) = Place(p) + j - 1
      BY <1>1, <3>2, <3>3, StepsAreNumbered
    <3>5. \A k, a, b \in Int : k + a - 1 = k + b - 1 => a = b
      OBVIOUS
    <3>6. Place(p) \in Int /\ i \in Int /\ j \in Int
      BY <1>15, <3>2
    <3>7. QED
      BY <3>4, <3>5, <3>6
  <2>2. ASSUME lasts # {} PROVE Min(lasts) \in lasts
    <3>1. PICK i \in lasts : lasts = {i}
      BY <2>1, <2>2
    <3>2. i =< i
      BY <1>3
    <3>3. \E x \in lasts : \A y \in lasts : x =< y
      BY <3>1, <3>2
    <3>4. QED
      BY <3>3 DEF Min
  <2>3. QED
    BY <1>3, <2>2
<1>5. SelectInSeq(todo[p], LAMBDA s : s = last) = rest
  BY DEF SelectInSeq
<1>6. /\ todo'[p] = SubSeq(todo[p], rest + 1, Len(todo[p]))
      /\ result'[p] = IF rest = Len(todo[p]) THEN "ok" ELSE "running"
      /\ reported'[p]
  <2> HIDE DEF rest
  <2> QED
    BY <1>1, <1>5 DEF TypeOK, EndAction
<1> HIDE DEF rest
<1>7. \A i \in rest + 1 .. Len(todo[p]) : todo[p][i] \in StepNames
  BY <1>3, <1>4, ElementOfSeq
<1>8. /\ todo'[p] \in Seq(StepNames) /\ Len(todo'[p]) = Len(todo[p]) - rest
      /\ \A i \in 1 .. Len(todo'[p]) : todo'[p][i] = todo[p][i + rest]
  <2>1. /\ todo'[p] \in Seq(StepNames)
        /\ Len(todo'[p]) = IF rest + 1 <= Len(todo[p]) THEN Len(todo[p]) - (rest + 1) + 1 ELSE 0
        /\ \A i \in 1 .. Len(todo[p]) - (rest + 1) + 1 : todo'[p][i] = todo[p][rest + 1 + i - 1]
    BY <1>3, <1>4, <1>6, <1>7, SubSeqProperties
  <2>2. Len(todo'[p]) = Len(todo[p]) - rest /\ Len(todo[p]) - (rest + 1) + 1 = Len(todo[p]) - rest
    BY <1>3, <1>4, <2>1
  <2>3. \A i \in 1 .. Len(todo'[p]) : rest + 1 + i - 1 = i + rest
    BY <1>3, <1>4, <2>2
  <2>4. QED
    BY <2>1, <2>2, <2>3
<1>9. Active(p)' /\ (result'[p] = "ok" <=> Len(todo'[p]) = 0)
  BY <1>2, <1>3, <1>4, <1>6, <1>8 DEF Active
<1>16. Place(p)' = Len(list) - Len(todo'[p]) + 1
  BY <1>1 DEF Place
<1> HIDE DEF list
<1>10. Place(p)' = Place(p) + rest
  BY <1>15, <1>16, <1>2, <1>3, <1>4, <1>8
<1>11. \A j \in 1 .. Len(todo'[p]) : todo'[p][j] = list[Place(p)' + j - 1]
  <2>1. TAKE j \in 1 .. Len(todo'[p])
  <2>2. /\ todo'[p][j] = todo[p][j + rest] /\ j + rest \in 1 .. Len(todo[p])
        /\ Place(p) \in Int /\ Place(p) + (j + rest) - 1 = Place(p)' + j - 1
    BY <1>2, <1>3, <1>4, <1>8, <1>10, <1>15
  <2>3. todo[p][j + rest] = list[Place(p) + (j + rest) - 1]
    BY <1>1, <2>2 DEF OnPlan, list
  <2>4. QED
    BY <2>2, <2>3
<1>12. OnPlan(p)'
  BY <1>1, <1>2, <1>3, <1>4, <1>8, <1>9, <1>11 DEF OnPlan, list
<1>13. Place(p)' \in Nat /\ Place(p)' >= Place(p)
  BY <1>4, <1>10, <1>15, <1>3
<1>14. QED
  BY <1>6, <1>8, <1>9, <1>12, <1>13

-----------------------------------------------------------------------------
(* What a step changes.                                                    *)

\* A step of driver p touches no other driver, and among the files only those called
\* after p's output and the two shared ones.
Local(p) ==
  /\ UNCHANGED private /\ alone' = alone
  /\ \A q \in Drivers \ {p} :
       /\ todo'[q] = todo[q] /\ result'[q] = result[q] /\ reported'[q] = reported[q]
       /\ entry'[q] = entry[q] /\ segments'[q] = segments[q] /\ qpcs'[q] = qpcs[q]
  /\ \A n : n[1] # args[p].base /\ n # Constants /\ n # ConstantsDesc =>
       /\ n \in DOMAIN fs' <=> n \in DOMAIN fs
       /\ n \in DOMAIN fs => fs'[n] = fs[n]

\* How a step ends: the driver goes on at the next place, or, with an error reported,
\* no earlier than at this one, or it stops.
Outcome(p) ==
  /\ OnPlan(p)' /\ result'[p] # "new"
  /\ todo' \in [Drivers -> Seq(StepNames)]
  /\ result' \in [Drivers -> Results] /\ reported' \in [Drivers -> BOOLEAN]
  /\ \A q \in Drivers \ {p} :
       todo'[q] = todo[q] /\ result'[q] = result[q] /\ reported'[q] = reported[q]
  /\ reported[p] => reported'[p]
  /\ Place(p) \in Nat
  /\ Active(p)' => /\ Place(p)' \in Nat
                   /\ \/ Place(p)' = Place(p) + 1 /\ reported'[p] = reported[p]
                      \/ Place(p)' >= Place(p) /\ reported'[p]
  /\ ~Active(p)' => result'[p] # "running"

\* The three ways a step ends have such an outcome (GoOn, Fail, EndAction).
LEMMA EndsWell ==
  ASSUME TypeOK, NEW p \in Drivers, OnPlan(p), NEW step, At(p, step), UNCHANGED private,
         \/ GoOn(p) /\ UNCHANGED reported
         \/ Fail(p)
         \/ \E last : EndAction(p, last)
  PROVE  Outcome(p)
<1>1. /\ Place(p) \in Nat /\ result[p] = "running"
      /\ todo \in [Drivers -> Seq(StepNames)] /\ result \in [Drivers -> Results]
      /\ reported \in [Drivers -> BOOLEAN]
  BY PlaceOfStep, SMTT(30) DEF TypeOK, At
<1>2. CASE GoOn(p) /\ UNCHANGED reported
  <2>1. /\ Active(p)' /\ Place(p)' = Place(p) + 1 /\ OnPlan(p)'
        /\ todo'[p] \in Seq(StepNames) /\ result'[p] \in {"running", "ok"}
    BY <1>2, GoOnMoves
  <2>2. /\ todo' \in [Drivers -> Seq(StepNames)] /\ result' \in [Drivers -> Results]
        /\ \A q \in Drivers \ {p} : todo'[q] = todo[q] /\ result'[q] = result[q]
    BY <1>1, <1>2, <2>1 DEF GoOn, Results
  <2>3. QED
    BY <1>1, <1>2, <2>1, <2>2 DEF Outcome
<1>3. CASE Fail(p)
  <2>1. /\ todo' \in [Drivers -> Seq(StepNames)] /\ result' \in [Drivers -> Results]
        /\ reported' \in [Drivers -> BOOLEAN] /\ result'[p] = "failed" /\ reported'[p]
        /\ \A q \in Drivers \ {p} :
             todo'[q] = todo[q] /\ result'[q] = result[q] /\ reported'[q] = reported[q]
    BY <1>1, <1>3 DEF Fail, Results
  <2>2. ~Active(p)'
    BY <2>1 DEF Active
  <2>3. QED
    BY <1>1, <2>1, <2>2 DEF Outcome, OnPlan
<1>4. CASE \E last : EndAction(p, last)
  <2>1. PICK last : EndAction(p, last)
    BY <1>4
  <2>2. /\ Active(p)' /\ Place(p)' \in Nat /\ Place(p)' >= Place(p) /\ OnPlan(p)' /\ reported'[p]
        /\ todo'[p] \in Seq(StepNames) /\ result'[p] \in {"running", "ok"}
    BY <2>1, EndActionMoves
  <2>3. \E t, r : /\ todo' = [todo EXCEPT ![p] = t] /\ result' = [result EXCEPT ![p] = r]
                  /\ reported' = [reported EXCEPT ![p] = TRUE]
    BY <2>1, Zenon DEF EndAction
  <2>4. /\ todo' \in [Drivers -> Seq(StepNames)] /\ result' \in [Drivers -> Results]
        /\ reported' \in [Drivers -> BOOLEAN]
        /\ \A q \in Drivers \ {p} :
             todo'[q] = todo[q] /\ result'[q] = result[q] /\ reported'[q] = reported[q]
    BY <1>1, <2>2, <2>3 DEF Results
  <2>5. QED
    BY <1>1, <2>2, <2>4 DEF Outcome
<1>5. QED
  BY <1>2, <1>3, <1>4

\* What Put makes of a map.
LEMMA PutFacts ==
  ASSUME NEW f, NEW n, NEW v
  PROVE  /\ DOMAIN Put(f, n, v) = DOMAIN f \union {n} /\ Put(f, n, v)[n] = v
         /\ \A m \in DOMAIN f : m # n => Put(f, n, v)[m] = f[m]
         /\ Put(f, n, v) = [m \in DOMAIN Put(f, n, v) |-> Put(f, n, v)[m]]
  BY DEF Put

\* What Without makes of a map.
LEMMA WithoutFacts ==
  ASSUME NEW f, NEW n
  PROVE  /\ DOMAIN Without(f, n) = DOMAIN f \ {n}
         /\ \A m \in DOMAIN f : m # n => Without(f, n)[m] = f[m]
  BY DEF Without, Restrict

\* The two shared files are called after no output.
LEMMA SharedNames ==
  Constants[1] = "" /\ ConstantsDesc[1] = "" /\ Constants # ConstantsDesc
  BY DEF Constants, ConstantsDesc

\* Only what has a name is linked, and what is not made a container is an ELF file by its
\* extension (DeducedMode).
LEMMA LinkModesDeduced ==
  ASSUME NEW a, DeducedMode(a) \in LinkModes
  PROVE  /\ a.base # ""
         /\ DeducedMode(a) \in {"Link", "LinkWithMetadata"} => a.ext \in {".elf", ".a", ""}
<1> DEFINE links == a.base # "" /\ \A o \in {"E", "S", "c"} : ~Has(a.options, o)
<1>1. DeducedMode(a) =
        CASE Has(a.options, "E") -> "PreProcess"
          [] Has(a.options, "S") /\ ~Has(a.options, "E") -> "Compile"
          [] Has(a.options, "c") /\ ~Has(a.options, "E") /\ ~Has(a.options, "S") -> "Assemble"
          [] links /\ a.ext \in {".elf", ".a", ""} ->
               IF a.config = "none" THEN "Link" ELSE "LinkWithMetadata"
          [] links /\ a.ext = ".qpc" -> "QPC"
          [] OTHER -> "Unknown"
  BY Zenon DEF DeducedMode
<1> HIDE DEF links
<1>2. /\ links
      /\ DeducedMode(a) \in {"Link", "LinkWithMetadata"} => a.ext \in {".elf", ".a", ""}
  BY <1>1 DEF LinkModes, EmbedModes
<1>3. QED
  BY <1>2 DEF links

\* The files of a driver that links have names of their own (LinkOutput, Metadata, NetDesc).
LEMMA NamesApart ==
  ASSUME TypeOK, NEW p \in Drivers, OnPlan(p), Active(p), mode[p] \in LinkModes
  PROVE  /\ args[p].base # ""
         /\ LinkOutput(p)[1] = args[p].base /\ Metadata(p)[1] = args[p].base
         /\ NetDesc(p)[1] = args[p].base /\ Elf(p)[1] = args[p].base
         /\ Constants[1] = "" /\ ConstantsDesc[1] = "" /\ Constants # ConstantsDesc
         /\ LinkOutput(p) # Metadata(p) /\ LinkOutput(p) # NetDesc(p) /\ NetDesc(p) # Metadata(p)
         /\ mode[p] = "QPC" => LinkOutput(p) = Elf(p)
         /\ mode[p] \in {"Link", "LinkWithMetadata"} => LinkOutput(p) = Output(p)
<1>1. /\ args[p].base # ""
      /\ mode[p] \in {"Link", "LinkWithMetadata"} => args[p].ext \in {".elf", ".a", ""}
  BY LinkModesDeduced DEF OnPlan
<1>2. LinkOutput(p) = IF mode[p] \in {"Link", "LinkWithMetadata"} THEN Output(p) ELSE Elf(p)
  BY DEF LinkOutput
<1>3. Constants[1] = "" /\ ConstantsDesc[1] = "" /\ Constants # ConstantsDesc
  BY SharedNames
<1>4. /\ Metadata(p)[1] = args[p].base /\ Metadata(p)[2] = ".metadata.bin"
      /\ NetDesc(p)[1] = args[p].base /\ NetDesc(p)[2] = ".netdesc.bin"
      /\ Elf(p)[1] = args[p].base /\ Elf(p)[2] = ".elf"
      /\ Output(p)[1] = args[p].base /\ Output(p)[2] = args[p].ext
  BY DEF Output, Elf, Metadata, NetDesc
<1>5. LinkOutput(p)[1] = args[p].base /\ LinkOutput(p)[2] \in {".elf", ".a", ""}
  BY <1>1, <1>2, <1>4
<1>6. /\ LinkOutput(p) # Metadata(p) /\ LinkOutput(p) # NetDesc(p)
      /\ NetDesc(p) # Metadata(p)
  BY <1>4, <1>5
<1>7. QED
  BY <1>1, <1>2, <1>3, <1>4, <1>5, <1>6

\* The names stay as the command lines and modes do.
LEMMA NamesStay ==
  ASSUME UNCHANGED private, NEW p \in Drivers
  PROVE  /\ Output(p)' = Output(p) /\ Elf(p)' = Elf(p) /\ Metadata(p)' = Metadata(p)
         /\ NetDesc(p)' = NetDesc(p) /\ LinkOutput(p)' = LinkOutput(p)
         /\ SavesTemps(p)' = SavesTemps(p) /\ args' = args /\ mode' = mode
  BY DEF private, Output, Elf, Metadata, NetDesc, LinkOutput, SavesTemps

\* A driver keeps what it has through the steps of another one.
LEMMA OthersKeepFitting ==
  ASSUME IInv, NEW p \in Drivers, result[p] = "running", Local(p), result'[p] # "new",
         NEW q \in Drivers, q # p
  PROVE  Fits(q)'
<1>1. /\ OnPlan(q) /\ OwnFiles(q) /\ ContainerFits(q) /\ SharedFiles(q) /\ TypeOK /\ Unstarted(q)
  BY DEF IInv, Fits
<1>2. /\ Output(q)' = Output(q) /\ Elf(q)' = Elf(q) /\ Metadata(q)' = Metadata(q)
      /\ LinkOutput(q)' = LinkOutput(q) /\ SavesTemps(q)' = SavesTemps(q)
      /\ args' = args /\ mode' = mode /\ alone' = alone
  BY NamesStay DEF Local
<1>3. /\ todo'[q] = todo[q] /\ result'[q] = result[q] /\ reported'[q] = reported[q]
      /\ entry'[q] = entry[q] /\ segments'[q] = segments[q] /\ qpcs'[q] = qpcs[q]
  BY DEF Local
<1>4. Active(q)' = Active(q) /\ Place(q)' = Place(q)
  BY <1>2, <1>3 DEF Active, Place
<1>5. ASSUME args[q].base # "", NEW n, n[1] = args[q].base
      PROVE  /\ n \in DOMAIN fs' <=> n \in DOMAIN fs
             /\ n \in DOMAIN fs => fs'[n] = fs[n]
  <2>1. args[q].base # args[p].base
    BY <1>1, <1>5, BasesAssumption DEF TypeOK
  <2>2. n # Constants /\ n # ConstantsDesc
    BY <1>5, SharedNames
  <2>3. QED
    BY <1>5, <2>1, <2>2 DEF Local
<1>6. OnPlan(q)'
  BY <1>1, <1>2, <1>3, <1>4 DEF OnPlan
<1>7. OwnFiles(q)'
  <2>1. CASE ~Active(q)
    BY <1>4, <2>1 DEF OwnFiles
  <2>2. CASE Active(q) /\ mode[q] \in LinkModes
    <3>1. /\ args[q].base # "" /\ LinkOutput(q)[1] = args[q].base
          /\ Metadata(q)[1] = args[q].base
      BY <1>1, <2>2, NamesApart
    <3>2. /\ LinkOutput(q) \in DOMAIN fs' <=> LinkOutput(q) \in DOMAIN fs
          /\ LinkOutput(q) \in DOMAIN fs => fs'[LinkOutput(q)] = fs[LinkOutput(q)]
          /\ Metadata(q) \in DOMAIN fs' <=> Metadata(q) \in DOMAIN fs
          /\ Metadata(q) \in DOMAIN fs => fs'[Metadata(q)] = fs[Metadata(q)]
      BY <1>5, <3>1
    <3>3. mode[q] \notin CompileModes
      BY <2>2 DEF CompileModes, LinkModes, EmbedModes
    <3>4. EmbedModes \subseteq LinkModes
      BY DEF LinkModes
    <3>5. mode[q] \in EmbedModes /\ Place(q) > 6 => Place(q) > 1
      BY <1>1, <2>2, StepsAreNumbered DEF Place, TypeOK
    <3>6. QED
      BY <1>1, <1>2, <1>3, <1>4, <2>2, <3>2, <3>3, <3>4, <3>5 DEF OwnFiles, Own, Content
  <2>3. CASE Active(q) /\ mode[q] \notin LinkModes
    <3>1. mode[q] \notin EmbedModes
      BY <2>3 DEF LinkModes
    <3>2. Output(q)[1] = args[q].base
      BY DEF Output
    <3>3. args[q].base # "" => /\ Output(q) \in DOMAIN fs' <=> Output(q) \in DOMAIN fs
                               /\ Output(q) \in DOMAIN fs => fs'[Output(q)] = fs[Output(q)]
      BY <1>5, <3>2
    <3>4. QED
      BY <1>1, <1>2, <1>3, <1>4, <2>3, <3>1, <3>3 DEF OwnFiles
  <2>4. QED
    BY <2>1, <2>2, <2>3
<1>8. ContainerFits(q)'
  BY <1>1, <1>2, <1>3, <1>4 DEF ContainerFits, Own, Content
<1>9. ~(alone[q] /\ result[q] = "running")
  BY <1>1 DEF SharedFiles
<1>10. SharedFiles(q)' /\ Removed(q)' /\ Unstarted(q)'
  BY <1>1, <1>2, <1>3, <1>9 DEF SharedFiles, Removed, Unstarted
<1>11. QED
  BY <1>6, <1>7, <1>8, <1>10 DEF Fits

\* A step of driver p that leaves its own things as they should be keeps the invariant.
LEMMA StepKeepsInvariant ==
  ASSUME IInv, NEW p \in Drivers, result[p] = "running", Local(p), Outcome(p),
         OwnFiles(p)', ContainerFits(p)', SharedFiles(p)', Removed(p)',
         entry' \in [Drivers -> Nat], DOMAIN segments' = Drivers, DOMAIN qpcs' = Drivers,
         \A n \in DOMAIN fs' : fs'[n] \in Contents
  PROVE  IInv'
<1>1. TypeOK /\ FilesHaveOwners
  BY DEF IInv
<1>2. /\ args' = args /\ mode' = mode /\ alone' = alone
      /\ \A q \in Drivers \ {p} : result'[q] = result[q] /\ entry'[q] = entry[q]
  BY DEF Local, private
<1>3. TypeOK'
  BY <1>1, <1>2 DEF TypeOK, Outcome
<1>4. FilesHaveOwners'
  <2>1. SUFFICES ASSUME NEW n \in DOMAIN fs', n[1] # ""
                 PROVE  \E q \in Drivers : args[q].base = n[1] /\ result'[q] # "new"
    BY <1>2 DEF FilesHaveOwners
  <2>2. CASE n[1] = args[p].base
    BY <2>2 DEF Outcome
  <2>3. CASE n[1] # args[p].base
    <3>1. n # Constants /\ n # ConstantsDesc
      BY <2>1, SharedNames
    <3>2. n \in DOMAIN fs
      BY <2>3, <3>1 DEF Local
    <3>3. PICK q \in Drivers : args[q].base = n[1] /\ result[q] # "new"
      BY <1>1, <2>1, <3>2 DEF FilesHaveOwners
    <3>4. QED
      BY <1>2, <2>3, <3>3
  <2>4. QED
    BY <2>2, <2>3
<1>5. Fits(p)'
  BY DEF Fits, Outcome, Unstarted
<1>6. \A q \in Drivers : q # p => Fits(q)'
  BY OthersKeepFitting DEF Outcome
<1>7. QED
  BY <1>3, <1>4, <1>5, <1>6 DEF IInv

-----------------------------------------------------------------------------
(* What a driver keeps of its own when a step does something else.         *)

\* Its own files are as they should be if a step leaves them alone, from the third step on
\* and but for the one that embeds the metadata.
LEMMA OwnFilesStay ==
  ASSUME IInv, NEW p \in Drivers, Active(p), Outcome(p), UNCHANGED private,
         mode[p] \in EmbedModes, Place(p) > 2, Place(p) # 6 \/ reported'[p], entry'[p] = entry[p],
         LinkOutput(p) \in DOMAIN fs', fs'[LinkOutput(p)] = fs[LinkOutput(p)],
         Metadata(p) \in DOMAIN fs' =>
           Metadata(p) \in DOMAIN fs /\ fs'[Metadata(p)] = fs[Metadata(p)]
  PROVE  OwnFiles(p)'
<1>1. OwnFiles(p) /\ TypeOK
  BY DEF IInv, Fits
<1>2. /\ LinkOutput(p)' = LinkOutput(p) /\ Metadata(p)' = Metadata(p) /\ mode' = mode
      /\ Output(p)' = Output(p) /\ args' = args
  BY NamesStay
<1>3. CASE ~Active(p)'
  BY <1>3 DEF OwnFiles
<1>4. CASE Active(p)'
  <2>1. /\ Place(p)' > 2 /\ Place(p)' > 1 /\ Place(p) > 1
        /\ Place(p)' > 6 /\ ~reported'[p] => Place(p) > 6 /\ ~reported[p]
    BY <1>4 DEF Outcome
  <2>2. mode[p] \in LinkModes /\ mode[p] \notin CompileModes
    BY DEF LinkModes, EmbedModes, CompileModes
  <2>3. QED
    BY <1>1, <1>2, <1>4, <2>1, <2>2 DEF OwnFiles, Own, Content
<1>5. QED
  BY <1>3, <1>4

\* What its builder and its container hold stays, but for the steps that read.
LEMMA ContainerStays ==
  ASSUME IInv, NEW p \in Drivers, Active(p), Outcome(p), UNCHANGED private,
         mode[p] = "QPC" => Place(p) \notin {8, 9, 11} \/ reported'[p],
         segments'[p] = segments[p], qpcs'[p] = qpcs[p]
  PROVE  ContainerFits(p)'
<1>1. ContainerFits(p) /\ mode' = mode
  BY NamesStay DEF IInv, Fits
<1>2. /\ Active(p)' /\ mode[p] = "QPC" /\ ~reported'[p] =>
           /\ ~reported[p]
           /\ Place(p)' > 8 => Place(p) > 8
           /\ Place(p)' > 9 => Place(p) > 9
           /\ Place(p)' > 11 => Place(p) > 11
      /\ reported[p] => reported'[p]
  BY DEF Outcome
<1>3. QED
  BY <1>1, <1>2 DEF ContainerFits, Own, Content

\* The shared files stay its own, but for the steps that write them.
LEMMA SharedStay ==
  ASSUME IInv, NEW p \in Drivers, result[p] = "running", Outcome(p), UNCHANGED private,
         alone' = alone, segments'[p] = segments[p], qpcs'[p] = qpcs[p],
         mode[p] \in EmbedModes /\ Active(p)' => Place(p) > 4 \/ Place(p)' < 4,
         Place(p) < 10 /\ Constants \in DOMAIN fs =>
           Constants \in DOMAIN fs' /\ fs'[Constants] = fs[Constants],
         Place(p) < 12 /\ ConstantsDesc \in DOMAIN fs =>
           ConstantsDesc \in DOMAIN fs' /\ fs'[ConstantsDesc] = fs[ConstantsDesc]
  PROVE  SharedFiles(p)'
<1>1. SharedFiles(p) /\ mode' = mode
  BY NamesStay DEF IInv, Fits
<1>2. \A q \in Drivers \ {p} : result'[q] = result[q]
  BY DEF Outcome
<1>3. result'[p] = "running" /\ mode[p] \in EmbedModes =>
        /\ Place(p)' \in 4 .. 9 => Place(p) \in 4 .. 9 /\ Place(p) < 10
        /\ Place(p)' \in 5 .. 11 => Place(p) \in 5 .. 11 /\ Place(p) < 12
  BY SMTT(30) DEF Outcome, Active
<1>4. QED
  BY <1>1, <1>2, <1>3 DEF SharedFiles

\* What is removed stays so, and a step that removes nothing need not.
LEMMA RemovedStay ==
  ASSUME IInv, NEW p \in Drivers, result[p] = "running", Outcome(p), UNCHANGED private, alone' = alone,
         mode[p] = "QPC" => Place(p) \notin {7, 10, 12} \/ reported'[p] \/ SavesTemps(p),
         Place(p) > 7 /\ ~SavesTemps(p) /\ Metadata(p) \in DOMAIN fs' => Metadata(p) \in DOMAIN fs,
         Place(p) > 10 /\ Constants \in DOMAIN fs' => Constants \in DOMAIN fs,
         Place(p) > 12 /\ ConstantsDesc \in DOMAIN fs' => ConstantsDesc \in DOMAIN fs
  PROVE  Removed(p)'
<1>1. /\ Removed(p) /\ mode' = mode /\ SavesTemps(p)' = SavesTemps(p) /\ Metadata(p)' = Metadata(p)
  BY NamesStay DEF IInv, Fits
<1>2. result'[p] = "running" /\ mode[p] = "QPC" /\ ~reported'[p] /\ ~SavesTemps(p) =>
        /\ ~reported[p]
        /\ Place(p)' > 7 => Place(p) > 7
        /\ Place(p)' > 10 => Place(p) > 10
        /\ Place(p)' > 12 => Place(p) > 12
  BY DEF Outcome, Active
<1>3. SUFFICES ASSUME alone[p], result'[p] = "running", mode[p] = "QPC", ~reported'[p], ~SavesTemps(p)
               PROVE  /\ Place(p)' > 7 => Metadata(p) \notin DOMAIN fs'
                      /\ Place(p)' > 10 => Constants \notin DOMAIN fs'
                      /\ Place(p)' > 12 => ConstantsDesc \notin DOMAIN fs'
  BY <1>1 DEF Removed
<1>4. /\ Place(p) > 7 => Metadata(p) \notin DOMAIN fs
      /\ Place(p) > 10 => Constants \notin DOMAIN fs
      /\ Place(p) > 12 => ConstantsDesc \notin DOMAIN fs
  BY <1>1, <1>2, <1>3 DEF Removed
<1>5. Place(p)' > 7 => Place(p) > 7
  BY <1>2, <1>3
<1>6. QED
  BY <1>2, <1>3, <1>4, <1>5

-----------------------------------------------------------------------------
(* Each step keeps the invariant.                                          *)

Ends(p) ==
  \/ GoOn(p) /\ UNCHANGED reported
  \/ Fail(p)
  \/ \E last : EndAction(p, last)

\* What holds of a driver at a step, and how the step may end.
LEMMA AtStep ==
  ASSUME IInv, NEW p \in Drivers, NEW step, At(p, step), UNCHANGED private, Ends(p)
  PROVE  /\ TypeOK /\ result[p] = "running" /\ Active(p) /\ Outcome(p)
         /\ OnPlan(p) /\ OwnFiles(p) /\ ContainerFits(p) /\ SharedFiles(p) /\ Removed(p)
         /\ mode[p] \in ModesWith(step) /\ Place(p) = Number(step)
         /\ mode[p] \in CompileModes \union LinkModes
<1>1. TypeOK /\ Fits(p) /\ result[p] = "running" /\ Active(p)
  BY DEF IInv, At, Active
<1>2. /\ OnPlan(p) /\ OwnFiles(p) /\ ContainerFits(p) /\ SharedFiles(p) /\ Removed(p)
  BY <1>1 DEF Fits
<1>3. Outcome(p)
  BY <1>1, <1>2, EndsWell DEF Ends
<1>4. mode[p] \in ModesWith(step) /\ Place(p) = Number(step)
  BY <1>1, <1>2, PlaceOfStep
<1>5. mode[p] \in CompileModes \union LinkModes
  BY <1>1, <1>2 DEF TypeOK, OnPlan
<1>6. QED
  BY <1>1, <1>2, <1>3, <1>4, <1>5

\* A step that writes or removes one of the driver's files, and changes no table but at its
\* driver, is local.
LEMMA ChangesLocally ==
  ASSUME NEW p \in Drivers, UNCHANGED <<private, alone>>, Outcome(p),
         \A q \in Drivers \ {p} :
           entry'[q] = entry[q] /\ segments'[q] = segments[q] /\ qpcs'[q] = qpcs[q],
         \/ UNCHANGED fs
         \/ \E n : /\ n[1] = args[p].base \/ n \in {Constants, ConstantsDesc}
                   /\ fs' = Without(fs, n) \/ \E v : fs' = Put(fs, n, v)
  PROVE  Local(p)
<1>1. SUFFICES ASSUME NEW m, m[1] # args[p].base, m # Constants, m # ConstantsDesc
               PROVE  /\ m \in DOMAIN fs' <=> m \in DOMAIN fs
                      /\ m \in DOMAIN fs => fs'[m] = fs[m]
  BY Zenon DEF Local, Outcome
<1>2. CASE UNCHANGED fs
  BY <1>2
<1>3. CASE \E n : /\ n[1] = args[p].base \/ n \in {Constants, ConstantsDesc}
                  /\ fs' = Without(fs, n) \/ \E v : fs' = Put(fs, n, v)
  <2>1. PICK n : /\ n[1] = args[p].base \/ n \in {Constants, ConstantsDesc}
                 /\ fs' = Without(fs, n) \/ \E v : fs' = Put(fs, n, v)
    BY <1>3
  <2>2. m # n
    BY <1>1, <2>1
  <2>3. CASE fs' = Without(fs, n)
    BY <2>2, <2>3 DEF Without, Restrict
  <2>4. CASE \E v : fs' = Put(fs, n, v)
    BY <2>2, <2>4 DEF Put
  <2>5. QED
    BY <2>1, <2>3, <2>4
<1>4. QED
  BY <1>2, <1>3

\* What a step leaves in the files are contents, if what it writes is one.
LEMMA FilesStayContents ==
  ASSUME TypeOK,
         \/ UNCHANGED fs
         \/ \E n : fs' = Without(fs, n) \/ \E v \in Contents : fs' = Put(fs, n, v)
  PROVE  \A m \in DOMAIN fs' : fs'[m] \in Contents
<1>1. \A m \in DOMAIN fs : fs[m] \in Contents
  BY DEF TypeOK
<1>2. CASE UNCHANGED fs
  BY <1>1, <1>2
<1>3. CASE \E n : fs' = Without(fs, n)
  BY <1>1, <1>3 DEF Without, Restrict
<1>4. CASE \E n : \E v \in Contents : fs' = Put(fs, n, v)
  <2>1. PICK n : \E v \in Contents : fs' = Put(fs, n, v)
    BY <1>4
  <2>2. PICK v \in Contents : fs' = Put(fs, n, v)
    BY <2>1
  <2>3. QED
    BY <1>1, <2>2 DEF Put
<1>5. QED
  BY <1>2, <1>3, <1>4

\* Compiling: an output there is one of this driver's (Compile).
LEMMA CompileKeeps ==
  ASSUME IInv, NEW p \in Drivers, Compile(p)
  PROVE  IInv'
<1>1. /\ At(p, "Compile") /\ UNCHANGED private /\ UNCHANGED <<entry, segments, qpcs, alone>>
      /\ \/ UNCHANGED fs /\ (Fail(p) \/ EndAction(p, "Compile"))
         \/ /\ args[p].base # "" /\ fs' = Put(fs, Output(p), Content(p, 0, 0))
            /\ GoOn(p) /\ UNCHANGED reported
  BY DEF Compile, Write
<1>2. Ends(p)
  BY <1>1 DEF Ends
<1>3. /\ TypeOK /\ result[p] = "running" /\ Active(p) /\ Outcome(p)
      /\ OnPlan(p) /\ OwnFiles(p) /\ ContainerFits(p) /\ SharedFiles(p) /\ Removed(p)
      /\ mode[p] \in CompileModes /\ Place(p) = 1
  BY <1>1, <1>2, AtStep, Numbers DEF ModesWith
<1>4. Output(p)[1] = args[p].base /\ Output(p)' = Output(p) /\ mode' = mode /\ args' = args
  BY <1>1, NamesStay DEF Output
<1>5. Local(p)
  BY <1>1, <1>3, <1>4, ChangesLocally
<1>6. p \in Nat /\ Content(p, 0, 0) \in Contents
  BY DriversAssumption DEF Content, Contents
<1>7. \A n \in DOMAIN fs' : fs'[n] \in Contents
  BY <1>1, <1>3, <1>6, FilesStayContents
<1>8. mode[p] \notin LinkModes /\ mode[p] \notin EmbedModes /\ mode[p] # "QPC"
  BY <1>3 DEF CompileModes, LinkModes, EmbedModes
<1>9. OwnFiles(p)'
  <2>1. CASE reported'[p]
    BY <1>4, <1>8, <2>1 DEF OwnFiles
  <2>2. CASE ~reported'[p]
    <3>1. args[p].base # "" /\ fs' = Put(fs, Output(p), Content(p, 0, 0))
      BY <1>1, <1>3, <2>2 DEF Fail, EndAction, TypeOK
    <3>2. Output(p) \in DOMAIN fs' /\ fs'[Output(p)].of = p
      BY <3>1 DEF Put, Content
    <3>3. QED
      BY <1>4, <1>8, <3>1, <3>2 DEF OwnFiles
  <2>3. QED
    BY <2>1, <2>2
<1>10. ContainerFits(p)'
  BY <1>1, <1>3, <1>8, ContainerStays
<1>11. SharedFiles(p)' /\ Removed(p)'
  BY <1>1, <1>3, <1>4, <1>8 DEF SharedFiles, Removed, Outcome
<1>12. QED
  BY <1>1, <1>3, <1>5, <1>7, <1>9, <1>10, <1>11, StepKeepsInvariant DEF TypeOK

\* Linking: an ELF file there is one of this driver's (Link).
LEMMA LinkKeeps ==
  ASSUME IInv, NEW p \in Drivers, Link(p)
  PROVE  IInv'
<1>1. /\ At(p, "Link") /\ UNCHANGED private /\ UNCHANGED <<entry, segments, qpcs, alone>>
      /\ \/ UNCHANGED fs /\ Fail(p)
         \/ /\ fs' = Put(fs, LinkOutput(p), Content(p, 0, 0))
            /\ GoOn(p) /\ UNCHANGED reported
  BY DEF Link, Write
<1>2. Ends(p)
  BY <1>1 DEF Ends
<1>3. /\ TypeOK /\ result[p] = "running" /\ Active(p) /\ Outcome(p)
      /\ OnPlan(p) /\ OwnFiles(p) /\ ContainerFits(p) /\ SharedFiles(p) /\ Removed(p)
      /\ mode[p] \in LinkModes /\ Place(p) = 1
  BY <1>1, <1>2, AtStep, Numbers DEF ModesWith
<1>4. /\ LinkOutput(p)[1] = args[p].base /\ LinkOutput(p)' = LinkOutput(p) /\ mode' = mode
      /\ Metadata(p)' = Metadata(p) /\ args' = args /\ LinkOutput(p) # Metadata(p)
      /\ LinkOutput(p) # Constants /\ LinkOutput(p) # ConstantsDesc
  BY <1>1, <1>3, NamesStay, NamesApart
<1>5. Local(p)
  BY <1>1, <1>3, <1>4, ChangesLocally
<1>6. p \in Nat /\ Content(p, 0, 0) \in Contents
  BY DriversAssumption DEF Content, Contents
<1>7. \A n \in DOMAIN fs' : fs'[n] \in Contents
  BY <1>1, <1>3, <1>6, FilesStayContents
<1>8. Active(p)' => Place(p)' = 2 /\ fs' = Put(fs, LinkOutput(p), Content(p, 0, 0))
  <2>1. ASSUME Fail(p) PROVE ~Active(p)'
    BY <1>3, <2>1 DEF Fail, Active, TypeOK
  <2>2. ASSUME GoOn(p) PROVE Place(p)' = Place(p) + 1
    BY <1>1, <1>3, <2>2, GoOnMoves
  <2>3. QED
    BY <1>1, <1>3, <2>1, <2>2
<1>9. OwnFiles(p)'
  <2>1. SUFFICES ASSUME Active(p)' PROVE OwnFiles(p)'
    BY DEF OwnFiles
  <2>2. /\ LinkOutput(p) \in DOMAIN fs' /\ fs'[LinkOutput(p)].of = p
        /\ Metadata(p) \in DOMAIN fs' =>
             Metadata(p) \in DOMAIN fs /\ fs'[Metadata(p)] = fs[Metadata(p)]
    BY <1>4, <1>8, <2>1 DEF Put, Content
  <2>3. mode[p] \notin CompileModes
    BY <1>3 DEF CompileModes, LinkModes, EmbedModes
  <2>4. ~(Place(p)' > 2) /\ ~(Place(p)' > 6)
    BY <1>8, <2>1
  <2>5. mode[p] \in EmbedModes /\ Metadata(p) \in DOMAIN fs =>
          fs[Metadata(p)].of = p /\ fs[Metadata(p)].entry = p
    BY <1>3 DEF OwnFiles
  <2>6. QED
    BY <1>4, <2>1, <2>2, <2>3, <2>4, <2>5 DEF OwnFiles
<1>10. ContainerFits(p)'
  BY <1>1, <1>3, ContainerStays
<1>11. SharedFiles(p)'
  <2>1. result'[p] = "running" => Place(p)' \notin 4 .. 9 /\ Place(p)' \notin 5 .. 11
    BY <1>8 DEF Active
  <2>2. \A q \in Drivers \ {p} : result'[q] = result[q]
    BY <1>3 DEF Outcome
  <2>3. QED
    BY <1>1, <1>3, <1>4, <2>1, <2>2 DEF SharedFiles
<1>12. Removed(p)'
  BY <1>1, <1>3, RemovedStay
<1>13. QED
  BY <1>1, <1>3, <1>5, <1>7, <1>9, <1>10, <1>11, <1>12, StepKeepsInvariant DEF TypeOK

\* A driver that fails stops, one that goes on is at the next place (Fail, GoOn).
LEMMA OnOrOut ==
  ASSUME IInv, NEW p \in Drivers, NEW step, At(p, step), UNCHANGED private
  PROVE  /\ Fail(p) => ~Active(p)' /\ reported'[p]
         /\ GoOn(p) => Active(p)' /\ Place(p)' = Place(p) + 1
<1>1. TypeOK /\ OnPlan(p)
  BY DEF IInv, Fits
<1>2. Fail(p) => ~Active(p)' /\ reported'[p]
  BY <1>1 DEF Fail, Active, TypeOK
<1>3. GoOn(p) => Active(p)' /\ Place(p)' = Place(p) + 1
  BY <1>1, GoOnMoves
<1>4. QED
  BY <1>2, <1>3

\* What the invariant says of the files of a driver that links.
LEMMA OwnFilesOfLink ==
  ASSUME NEW p, OwnFiles(p), Active(p), mode[p] \in LinkModes
  PROVE  /\ Place(p) > 1 => LinkOutput(p) \in DOMAIN fs /\ fs[LinkOutput(p)].of = p
         /\ mode[p] \in EmbedModes =>
              /\ Place(p) > 2 => entry[p] = p
              /\ Metadata(p) \in DOMAIN fs => fs[Metadata(p)].of = p /\ fs[Metadata(p)].entry = p
              /\ Place(p) > 6 /\ ~reported[p] => fs[LinkOutput(p)] = Own(p)
  BY DEF OwnFiles

\* The entry point is found in the driver's own ELF file (Extract).
LEMMA ExtractKeeps ==
  ASSUME IInv, NEW p \in Drivers, Extract(p)
  PROVE  IInv'
<1>1. /\ At(p, "Extract") /\ UNCHANGED private /\ UNCHANGED <<segments, fs, qpcs, alone>>
      /\ \/ Fail(p) /\ UNCHANGED entry
         \/ /\ LinkOutput(p) \in DOMAIN fs /\ entry' = [entry EXCEPT ![p] = fs[LinkOutput(p)].of]
            /\ GoOn(p) /\ UNCHANGED reported
  BY DEF Extract
<1>2. Ends(p)
  BY <1>1 DEF Ends
<1>3. /\ TypeOK /\ result[p] = "running" /\ Active(p) /\ Outcome(p)
      /\ OnPlan(p) /\ OwnFiles(p) /\ ContainerFits(p) /\ SharedFiles(p) /\ Removed(p)
      /\ mode[p] \in EmbedModes /\ mode[p] \in LinkModes /\ Place(p) = 2
  BY <1>1, <1>2, AtStep, Numbers DEF ModesWith, LinkModes
<1>4. /\ LinkOutput(p)' = LinkOutput(p) /\ mode' = mode /\ Metadata(p)' = Metadata(p) /\ args' = args
  BY <1>1, NamesStay
<1>5. entry' \in [Drivers -> Nat] /\ \A q \in Drivers \ {p} : entry'[q] = entry[q]
  <2>1. LinkOutput(p) \in DOMAIN fs => fs[LinkOutput(p)].of \in Nat
    BY <1>3 DEF TypeOK, Contents
  <2>2. entry \in [Drivers -> Nat]
    BY <1>3 DEF TypeOK
  <2>3. QED
    BY <1>1, <2>1, <2>2
<1>6. Local(p)
  BY <1>1, <1>3, <1>5, ChangesLocally
<1>7. /\ Active(p)' => Place(p)' = 3 /\ entry'[p] = p
  <2>1. GoOn(p) => Place(p)' = 3 /\ Active(p)'
    BY <1>1, <1>3, OnOrOut
  <2>2. Fail(p) => ~Active(p)'
    BY <1>1, OnOrOut
  <2>3. fs[LinkOutput(p)].of = p
    <3>1. Place(p) > 1
      BY <1>3
    <3>2. QED
      BY <1>3, <3>1, OwnFilesOfLink
  <2>4. p \in DOMAIN entry
    BY <1>3 DEF TypeOK
  <2>5. QED
    BY <1>1, <2>1, <2>2, <2>3, <2>4
<1>8. OwnFiles(p)'
  <2>1. SUFFICES ASSUME Active(p)' PROVE OwnFiles(p)'
    BY DEF OwnFiles
  <2>2. mode[p] \notin CompileModes
    BY <1>3 DEF CompileModes, LinkModes, EmbedModes
  <2>3. ~(Place(p)' > 6)
    BY <1>7, <2>1
  <2>4. /\ LinkOutput(p) \in DOMAIN fs /\ fs[LinkOutput(p)].of = p
        /\ Metadata(p) \in DOMAIN fs => fs[Metadata(p)].of = p /\ fs[Metadata(p)].entry = p
    <3>1. Place(p) > 1
      BY <1>3
    <3>2. QED
      BY <1>3, <3>1, OwnFilesOfLink
  <2>5. QED
    BY <1>1, <1>4, <1>7, <2>1, <2>2, <2>3, <2>4 DEF OwnFiles
<1>9. ContainerFits(p)'
  BY <1>1, <1>3, ContainerStays
<1>10. SharedFiles(p)'
  BY <1>1, <1>3, <1>7, SharedStay
<1>11. Removed(p)'
  BY <1>1, <1>3, RemovedStay
<1>12. QED
  BY <1>1, <1>3, <1>5, <1>6, <1>8, <1>9, <1>10, <1>11, StepKeepsInvariant DEF TypeOK

\* The constants are written by this driver, whatever was there (WriteShared).
LEMMA ConstantsWrittenKeep ==
  ASSUME IInv, NEW p \in Drivers, NEW step, NEW name, WriteShared(p, step, name),
         \/ step = "WriteConstants" /\ name = Constants
         \/ step = "WriteConstantsDesc" /\ name = ConstantsDesc
  PROVE  IInv'
<1>1. /\ At(p, step) /\ UNCHANGED private /\ UNCHANGED <<entry, segments, qpcs, alone>>
      /\ \/ Fail(p) /\ UNCHANGED fs
         \/ fs' = Put(fs, name, Content(p, 0, 0)) /\ GoOn(p) /\ UNCHANGED reported
  BY DEF WriteShared, Write
<1>2. Ends(p)
  BY <1>1 DEF Ends
<1>3. /\ TypeOK /\ result[p] = "running" /\ Active(p) /\ Outcome(p)
      /\ OnPlan(p) /\ OwnFiles(p) /\ ContainerFits(p) /\ SharedFiles(p) /\ Removed(p)
      /\ mode[p] \in EmbedModes /\ mode[p] \in LinkModes
      /\ Place(p) = IF name = Constants THEN 3 ELSE 4
  <2>1. /\ TypeOK /\ result[p] = "running" /\ Active(p) /\ Outcome(p)
        /\ OnPlan(p) /\ OwnFiles(p) /\ ContainerFits(p) /\ SharedFiles(p) /\ Removed(p)
        /\ mode[p] \in ModesWith(step) /\ Place(p) = Number(step)
    BY <1>1, <1>2, AtStep
  <2>2. ModesWith(step) = EmbedModes
    BY DEF ModesWith
  <2>3. mode[p] \in EmbedModes /\ mode[p] \in LinkModes
    BY <2>1, <2>2 DEF LinkModes
  <2>4. Place(p) = IF name = Constants THEN 3 ELSE 4
    BY <2>1, Numbers, SharedNames
  <2>5. QED
    BY <2>1, <2>3, <2>4
<1>4. /\ LinkOutput(p) # name /\ Metadata(p) # name /\ LinkOutput(p) \in DOMAIN fs
      /\ mode' = mode
  <2>1. args[p].base # "" /\ LinkOutput(p)[1] = args[p].base /\ Metadata(p)[1] = args[p].base
    BY <1>3, NamesApart
  <2>2. LinkOutput(p) \in DOMAIN fs
    <3>1. Place(p) > 1
      BY <1>3
    <3>2. QED
      BY <1>3, <3>1, OwnFilesOfLink
  <2>3. QED
    BY <1>1, <2>1, <2>2, SharedNames, NamesStay
<1>5. Local(p)
  BY <1>1, <1>3, ChangesLocally
<1>6. p \in Nat /\ Content(p, 0, 0) \in Contents
  BY DriversAssumption DEF Content, Contents
<1>7. \A n \in DOMAIN fs' : fs'[n] \in Contents
  BY <1>1, <1>3, <1>6, FilesStayContents
<1>8. OwnFiles(p)'
  <2>1. /\ LinkOutput(p) \in DOMAIN fs' /\ fs'[LinkOutput(p)] = fs[LinkOutput(p)]
        /\ Metadata(p) \in DOMAIN fs' =>
             Metadata(p) \in DOMAIN fs /\ fs'[Metadata(p)] = fs[Metadata(p)]
    BY <1>1, <1>4 DEF Put
  <2>2. QED
    BY <1>1, <1>3, <2>1, OwnFilesStay
<1>9. ContainerFits(p)'
  BY <1>1, <1>3, ContainerStays
<1>10. SharedFiles(p)'
  <2>1. SUFFICES ASSUME alone'[p] PROVE SharedFiles(p)'
    BY DEF SharedFiles
  <2>2. result'[p] = "running" => /\ Place(p)' = Place(p) + 1
                                 /\ fs' = Put(fs, name, Content(p, 0, 0))
    BY <1>1, OnOrOut DEF Active
  <2>3. result'[p] = "running" =>
          /\ name \in DOMAIN fs' /\ fs'[name].of = p
          /\ name # Constants /\ Constants \in DOMAIN fs =>
               Constants \in DOMAIN fs' /\ fs'[Constants] = fs[Constants]
    BY <2>2 DEF Put, Content
  <2>4. \A q \in Drivers \ {p} : result'[q] = result[q]
    BY <1>3 DEF Outcome
  <2>5. CASE name = Constants
    <3>1. result'[p] = "running" => Place(p)' = 4
      BY <1>3, <2>2, <2>5
    <3>2. result'[p] = "running" => /\ Constants \in DOMAIN fs' /\ fs'[Constants].of = p
                                   /\ Place(p)' \notin 5 .. 11
      BY <3>1, <2>3, <2>5
    <3>3. QED
      BY <1>1, <1>3, <1>4, <2>1, <2>4, <3>2 DEF SharedFiles
  <2>6. CASE name = ConstantsDesc /\ name # Constants
    <3>1. result'[p] = "running" => ConstantsDesc \in DOMAIN fs' /\ fs'[ConstantsDesc].of = p
      BY <2>3, <2>6
    <3>2. Constants \in DOMAIN fs /\ fs[Constants].of = p
      <4>1. Place(p) = 4 /\ 4 \in 4 .. 9
        BY <1>3, <2>6
      <4>2. QED
        BY <1>1, <1>3, <2>1, <4>1 DEF SharedFiles
    <3>3. QED
      BY <1>1, <1>3, <1>4, <2>1, <2>3, <2>4, <2>6, <3>1, <3>2 DEF SharedFiles
  <2>7. QED
    BY <2>5, <2>6, SharedNames
<1>11. Removed(p)'
  BY <1>1, <1>3, RemovedStay
<1>12. QED
  BY <1>1, <1>3, <1>5, <1>7, <1>8, <1>9, <1>10, <1>11, StepKeepsInvariant DEF TypeOK

\* The metadata written is this driver's, with its entry point; if it could not be written
\* there is none, or the driver's own from before (WriteMetadata).
LEMMA MetadataWrittenKeep ==
  ASSUME IInv, NEW p \in Drivers, WriteMetadata(p)
  PROVE  IInv'
<1>1. /\ At(p, "WriteMetadata") /\ UNCHANGED private /\ GoOn(p)
      /\ UNCHANGED <<entry, segments, qpcs, reported, alone>>
      /\ fs' = Put(fs, Metadata(p), Content(p, entry[p], 0)) \/ UNCHANGED fs
  BY DEF WriteMetadata, Write
<1>2. Ends(p)
  BY <1>1 DEF Ends
<1>3. /\ TypeOK /\ result[p] = "running" /\ Active(p) /\ Outcome(p)
      /\ OnPlan(p) /\ OwnFiles(p) /\ ContainerFits(p) /\ SharedFiles(p) /\ Removed(p)
      /\ mode[p] \in EmbedModes /\ mode[p] \in LinkModes /\ Place(p) = 5
  BY <1>1, <1>2, AtStep, Numbers DEF ModesWith, LinkModes
<1>4. /\ Metadata(p)[1] = args[p].base /\ LinkOutput(p) # Metadata(p)
      /\ Metadata(p) # Constants /\ Metadata(p) # ConstantsDesc
  BY <1>1, <1>3, NamesApart
<1>5. Local(p)
  BY <1>1, <1>3, <1>4, ChangesLocally
<1>6. /\ entry[p] = p /\ LinkOutput(p) \in DOMAIN fs /\ fs[LinkOutput(p)].of = p
      /\ Metadata(p) \in DOMAIN fs => fs[Metadata(p)].of = p /\ fs[Metadata(p)].entry = p
  <2>1. Place(p) > 1 /\ Place(p) > 2
    BY <1>3
  <2>2. QED
    BY <1>3, <2>1, OwnFilesOfLink
<1>7. \A n \in DOMAIN fs' : fs'[n] \in Contents
  <2>1. Content(p, entry[p], 0) \in Contents
    BY <1>6, DriversAssumption DEF Content, Contents
  <2>2. QED
    BY <1>1, <1>3, <2>1, FilesStayContents
<1>8. OwnFiles(p)'
  <2>1. /\ LinkOutput(p)' = LinkOutput(p) /\ Metadata(p)' = Metadata(p) /\ mode' = mode
    BY <1>1, NamesStay
  <2>2. Active(p)' /\ Place(p)' = 6
    BY <1>1, <1>3, OnOrOut
  <2>3. /\ LinkOutput(p) \in DOMAIN fs' /\ fs'[LinkOutput(p)].of = p
        /\ Metadata(p) \in DOMAIN fs' => fs'[Metadata(p)].of = p /\ fs'[Metadata(p)].entry = p
    BY <1>1, <1>4, <1>6 DEF Put, Content
  <2>4. mode[p] \notin CompileModes
    BY <1>3 DEF CompileModes, LinkModes, EmbedModes
  <2>5. ~(Place(p)' > 6)
    BY <2>2
  <2>6. QED
    BY <1>1, <1>6, <2>1, <2>2, <2>3, <2>4, <2>5 DEF OwnFiles
<1>9. ContainerFits(p)'
  BY <1>1, <1>3, ContainerStays
<1>10. SharedFiles(p)'
  <2>1. \A n \in DOMAIN fs : n # Metadata(p) => n \in DOMAIN fs' /\ fs'[n] = fs[n]
    BY <1>1 DEF Put
  <2>2. QED
    BY <1>1, <1>3, <1>4, <2>1, SharedStay
<1>11. Removed(p)'
  BY <1>1, <1>3, RemovedStay
<1>12. QED
  BY <1>1, <1>3, <1>5, <1>7, <1>8, <1>9, <1>10, <1>11, StepKeepsInvariant DEF TypeOK

\* With the metadata embedded the ELF file is the driver's own (Objcopy).
LEMMA ObjcopyKeeps ==
  ASSUME IInv, NEW p \in Drivers, Objcopy(p)
  PROVE  IInv'
<1> DEFINE elf == LinkOutput(p)  meta == Metadata(p)
           embedded == [fs[elf] EXCEPT !.entry = fs[meta].entry, !.meta = fs[meta].of]
<1>1. /\ At(p, "Objcopy") /\ UNCHANGED private /\ UNCHANGED <<entry, segments, qpcs, alone>>
      /\ \/ /\ meta \in DOMAIN fs /\ fs' = Put(fs, elf, embedded)
            /\ GoOn(p) /\ UNCHANGED reported
         \/ Fail(p) /\ (UNCHANGED fs \/ fs' = Without(fs, meta))
         \/ EndAction(p, "RemoveMetadata") /\ UNCHANGED fs
  BY DEF Objcopy, Write
<1>2. Ends(p)
  BY <1>1 DEF Ends
<1>3. /\ TypeOK /\ result[p] = "running" /\ Active(p) /\ Outcome(p)
      /\ OnPlan(p) /\ OwnFiles(p) /\ ContainerFits(p) /\ SharedFiles(p) /\ Removed(p)
      /\ mode[p] \in EmbedModes /\ mode[p] \in LinkModes /\ Place(p) = 6
  BY <1>1, <1>2, AtStep, Numbers DEF ModesWith, LinkModes
<1>4. /\ meta[1] = args[p].base /\ elf[1] = args[p].base /\ elf # meta
      /\ meta # Constants /\ meta # ConstantsDesc /\ elf # Constants /\ elf # ConstantsDesc
  BY <1>1, <1>3, NamesApart
<1>5. /\ entry[p] = p /\ elf \in DOMAIN fs /\ fs[elf].of = p
      /\ meta \in DOMAIN fs => fs[meta].of = p /\ fs[meta].entry = p
  <2>1. Place(p) > 1 /\ Place(p) > 2
    BY <1>3
  <2>2. QED
    BY <1>3, <2>1, OwnFilesOfLink
<1>6. elf' = elf /\ meta' = meta /\ mode' = mode
  BY <1>1, NamesStay
<1>7. meta \in DOMAIN fs => embedded = Own(p) /\ embedded \in Contents
  <2>1. SUFFICES ASSUME meta \in DOMAIN fs PROVE embedded = Own(p) /\ embedded \in Contents
    OBVIOUS
  <2>2. fs[elf] \in [of : Nat, entry : Nat, meta : Nat] /\ p \in Nat
    BY <1>3, <1>5, DriversAssumption DEF TypeOK, Contents
  <2>3. /\ embedded \in [of : Nat, entry : Nat, meta : Nat]
        /\ embedded.of = p /\ embedded.entry = p /\ embedded.meta = p
    BY <1>5, <2>1, <2>2
  <2> HIDE DEF embedded
  <2>4. embedded = [of |-> p, entry |-> p, meta |-> p]
    BY <2>3
  <2>5. QED
    BY <2>3, <2>4 DEF Contents, Own, Content
<1> HIDE DEF elf, meta, embedded
<1>8. Local(p)
  <2>1. UNCHANGED fs \/ fs' = Put(fs, elf, embedded) \/ fs' = Without(fs, meta)
    BY <1>1
  <2>2. \/ UNCHANGED fs
        \/ \E n : /\ n[1] = args[p].base \/ n \in {Constants, ConstantsDesc}
                  /\ fs' = Without(fs, n) \/ \E v : fs' = Put(fs, n, v)
    BY <1>4, <2>1
  <2>3. QED
    BY <1>1, <1>3, <2>2, ChangesLocally
<1>9. \A n \in DOMAIN fs' : fs'[n] \in Contents
  <2>1. \/ UNCHANGED fs
        \/ \E n : fs' = Without(fs, n) \/ \E v \in Contents : fs' = Put(fs, n, v)
    BY <1>1, <1>7
  <2>2. QED
    BY <1>3, <2>1, FilesStayContents
<1>10. OwnFiles(p)'
  <2>1. CASE reported'[p]
    <3>1. /\ elf \in DOMAIN fs'
          /\ \/ fs'[elf] = fs[elf]
             \/ GoOn(p) /\ fs' = Put(fs, elf, embedded) /\ meta \in DOMAIN fs
          /\ meta \in DOMAIN fs' => meta \in DOMAIN fs /\ fs'[meta] = fs[meta]
      BY <1>1, <1>4, <1>5 DEF Put, Without, Restrict
    <3>2. CASE fs'[elf] = fs[elf]
      BY <1>1, <1>3, <2>1, <3>1, <3>2, OwnFilesStay DEF elf, meta
    <3>3. CASE GoOn(p) /\ fs' = Put(fs, elf, embedded) /\ meta \in DOMAIN fs
      <4>1. /\ fs'[elf].of = p
            /\ meta \in DOMAIN fs' => fs'[meta].of = p /\ fs'[meta].entry = p
        BY <1>4, <1>5, <1>7, <3>3 DEF Put, Own, Content
      <4>2. mode[p] \notin CompileModes
        BY <1>3 DEF CompileModes, LinkModes, EmbedModes
      <4>3. entry'[p] = p
        BY <1>1, <1>5
      <4>4. QED
        BY <1>6, <2>1, <3>1, <4>1, <4>2, <4>3 DEF OwnFiles, elf, meta
    <3>4. QED
      BY <3>1, <3>2, <3>3
  <2>2. CASE ~reported'[p]
    <3>1. meta \in DOMAIN fs /\ fs' = Put(fs, elf, embedded)
      BY <1>1, <1>3, <2>2 DEF Fail, EndAction, TypeOK
    <3>2. /\ elf \in DOMAIN fs' /\ fs'[elf] = Own(p) /\ fs'[elf].of = p
          /\ fs'[meta].of = p /\ fs'[meta].entry = p
      BY <1>4, <1>5, <1>7, <3>1 DEF Put, Own, Content
    <3>3. mode[p] \notin CompileModes
      BY <1>3 DEF CompileModes, LinkModes, EmbedModes
    <3>4. QED
      BY <1>1, <1>5, <1>6, <3>2, <3>3 DEF OwnFiles, elf, meta, Own, Content
  <2>3. QED
    BY <2>1, <2>2
<1>11. ContainerFits(p)'
  BY <1>1, <1>3, ContainerStays
<1>12. SharedFiles(p)'
  <2>1. \A n \in DOMAIN fs : n # meta /\ n # elf => n \in DOMAIN fs' /\ fs'[n] = fs[n]
    BY <1>1 DEF Put, Without, Restrict
  <2>2. QED
    BY <1>1, <1>3, <1>4, <2>1, SharedStay
<1>13. Removed(p)'
  BY <1>1, <1>3, RemovedStay
<1>14. QED
  BY <1>1, <1>3, <1>8, <1>9, <1>10, <1>11, <1>12, <1>13, StepKeepsInvariant DEF TypeOK

\* A temporary file is removed, or the action ends with an error (RemoveTemp).
LEMMA RemovalKeeps ==
  ASSUME IInv, NEW p \in Drivers, NEW step, NEW name, NEW last, RemoveTemp(p, step, name, last),
         \/ step = "RemoveMetadata" /\ name = Metadata(p)
         \/ step = "RemoveConstants" /\ name = Constants
         \/ step = "RemoveConstantsDesc" /\ name = ConstantsDesc
  PROVE  IInv'
<1>1. /\ At(p, step) /\ UNCHANGED private /\ UNCHANGED <<entry, segments, qpcs, alone>>
      /\ \/ /\ fs' = IF SavesTemps(p) THEN fs ELSE Without(fs, name)
            /\ GoOn(p) /\ UNCHANGED reported
         \/ EndAction(p, last) /\ UNCHANGED fs
  BY DEF RemoveTemp
<1>2. Ends(p)
  BY <1>1 DEF Ends
<1>3. /\ TypeOK /\ result[p] = "running" /\ Active(p) /\ Outcome(p)
      /\ OnPlan(p) /\ OwnFiles(p) /\ ContainerFits(p) /\ SharedFiles(p) /\ Removed(p)
      /\ mode[p] \in ModesWith(step) /\ Place(p) = Number(step)
  BY <1>1, <1>2, AtStep
<1>4. /\ mode[p] \in EmbedModes /\ mode[p] \in LinkModes
      /\ name = Metadata(p) => step = "RemoveMetadata" \/ Metadata(p)[1] = ""
  BY <1>3, SharedNames DEF ModesWith, LinkModes, EmbedModes
<1>5. /\ Metadata(p)[1] = args[p].base /\ LinkOutput(p)[1] = args[p].base /\ args[p].base # ""
      /\ LinkOutput(p) # name
  BY <1>3, <1>4, NamesApart
<1>6. \/ name = Metadata(p) /\ Place(p) = 7
      \/ name = Constants /\ Place(p) = 10
      \/ name = ConstantsDesc /\ Place(p) = 12
  BY <1>3, Numbers
<1>7. Metadata(p) # Constants /\ Metadata(p) # ConstantsDesc /\ Constants # ConstantsDesc
  BY <1>5, SharedNames
<1>8. UNCHANGED fs \/ fs' = Without(fs, name)
  BY <1>1
<1>9. Local(p)
  <2>1. \/ UNCHANGED fs
        \/ \E n : /\ n[1] = args[p].base \/ n \in {Constants, ConstantsDesc}
                  /\ fs' = Without(fs, n) \/ \E v : fs' = Put(fs, n, v)
    BY <1>5, <1>6, <1>8
  <2>2. QED
    BY <1>1, <1>3, <2>1, ChangesLocally
<1>10. \A n \in DOMAIN fs' : fs'[n] \in Contents
  BY <1>3, <1>8, FilesStayContents
<1>11. /\ \A n \in DOMAIN fs : n # name => n \in DOMAIN fs' /\ fs'[n] = fs[n]
       /\ \A n \in DOMAIN fs' : n \in DOMAIN fs /\ fs'[n] = fs[n]
  BY <1>8 DEF Without, Restrict
<1>12. OwnFiles(p)'
  <2>1. LinkOutput(p) \in DOMAIN fs
    <3>1. Place(p) > 1
      BY <1>6
    <3>2. QED
      BY <1>3, <1>4, <3>1, OwnFilesOfLink
  <2>2. Place(p) > 2 /\ Place(p) # 6
    BY <1>6
  <2>3. QED
    BY <1>1, <1>3, <1>4, <1>5, <1>11, <2>1, <2>2, OwnFilesStay
<1>13. ContainerFits(p)'
  <2>1. Place(p) \notin {8, 9, 11}
    BY <1>6
  <2>2. QED
    BY <1>1, <1>3, <2>1, ContainerStays
<1>14. SharedFiles(p)'
  <2>1. /\ Place(p) > 4
        /\ Place(p) < 10 => name # Constants
        /\ Place(p) < 12 => name # ConstantsDesc
    BY <1>6, <1>7
  <2>2. QED
    BY <1>1, <1>3, <1>11, <2>1, SharedStay
<1>15. Removed(p)'
  <2>1. CASE reported'[p] \/ SavesTemps(p)
    BY <1>1, <1>3, <1>11, <2>1, RemovedStay
  <2>2. CASE ~reported'[p] /\ ~SavesTemps(p)
    <3>1. GoOn(p) /\ fs' = Without(fs, name) /\ ~reported[p]
      BY <1>1, <1>3, <2>2 DEF EndAction, TypeOK
    <3>2. Place(p)' = Place(p) + 1 /\ name \notin DOMAIN fs'
      BY <1>1, <3>1, OnOrOut DEF Without, Restrict
    <3>3. Metadata(p)' = Metadata(p) /\ mode' = mode /\ SavesTemps(p)' = SavesTemps(p)
      BY <1>1, NamesStay
    <3>4. alone[p] /\ mode[p] = "QPC" =>
            /\ Place(p) > 7 => Metadata(p) \notin DOMAIN fs
            /\ Place(p) > 10 => Constants \notin DOMAIN fs
      BY <1>3, <2>2, <3>1 DEF Removed
    <3>5. alone[p] /\ mode[p] = "QPC" =>
            /\ Place(p)' > 7 => Metadata(p) \notin DOMAIN fs'
            /\ Place(p)' > 10 => Constants \notin DOMAIN fs'
            /\ Place(p)' > 12 => ConstantsDesc \notin DOMAIN fs'
      <4>1. CASE name = Metadata(p) /\ Place(p) = 7
        BY <3>2, <4>1
      <4>2. CASE name = Constants /\ Place(p) = 10
        BY <1>11, <3>2, <3>4, <4>2
      <4>3. CASE name = ConstantsDesc /\ Place(p) = 12
        BY <1>11, <3>2, <3>4, <4>3
      <4>4. QED
        BY <1>6, <4>1, <4>2, <4>3
    <3>6. QED
      BY <1>1, <3>3, <3>5 DEF Removed
  <2>3. QED
    BY <2>1, <2>2
<1>16. QED
  BY <1>1, <1>3, <1>9, <1>10, <1>12, <1>13, <1>14, <1>15, StepKeepsInvariant DEF TypeOK

\* What is read into the builder is this driver's (Read).
LEMMA ReadKeeps ==
  ASSUME IInv, NEW p \in Drivers, NEW step, NEW name, NEW segment, Read(p, step, name, segment),
         \/ step = "ReadElf" /\ name = Elf(p) /\ segment = "network.elf"
         \/ step = "ReadConstants" /\ name = Constants /\ segment = "constants.bin"
         \/ step = "ReadConstantsDesc" /\ name = ConstantsDesc /\ segment = "constantsdesc.bin"
  PROVE  IInv'
<1>1. /\ At(p, step) /\ UNCHANGED private /\ UNCHANGED <<entry, fs, qpcs, alone>>
      /\ \/ /\ name \in DOMAIN fs
            /\ segments' = [segments EXCEPT ![p] = Put(segments[p], segment, fs[name])]
            /\ GoOn(p) /\ UNCHANGED reported
         \/ Fail(p) /\ UNCHANGED segments
  BY DEF Read
<1>2. Ends(p)
  BY <1>1 DEF Ends
<1>3. /\ TypeOK /\ result[p] = "running" /\ Active(p) /\ Outcome(p)
      /\ OnPlan(p) /\ OwnFiles(p) /\ ContainerFits(p) /\ SharedFiles(p) /\ Removed(p)
      /\ mode[p] \in ModesWith(step) /\ Place(p) = Number(step)
  BY <1>1, <1>2, AtStep
<1>4. /\ mode[p] = "QPC" /\ mode[p] \in EmbedModes /\ mode[p] \in LinkModes
  BY <1>3 DEF ModesWith, LinkModes, EmbedModes
<1>5. \/ name = Elf(p) /\ segment = "network.elf" /\ Place(p) = 8
      \/ name = Constants /\ segment = "constants.bin" /\ Place(p) = 9
      \/ name = ConstantsDesc /\ segment = "constantsdesc.bin" /\ Place(p) = 11
  BY <1>3, Numbers
<1>6. /\ DOMAIN segments' = Drivers
      /\ \A q \in Drivers \ {p} : segments'[q] = segments[q]
      /\ segments'[p] = segments[p] \/ segments'[p] = Put(segments[p], segment, fs[name])
  BY <1>1, <1>3 DEF TypeOK
<1>7. Local(p)
  BY <1>1, <1>3, <1>6, ChangesLocally
<1>8. OwnFiles(p)'
  <2>1. LinkOutput(p) \in DOMAIN fs
    <3>1. Place(p) > 1
      BY <1>5
    <3>2. QED
      BY <1>3, <1>4, <3>1, OwnFilesOfLink
  <2>2. Place(p) > 2 /\ Place(p) # 6
    BY <1>5
  <2>3. QED
    BY <1>1, <1>3, <1>4, <2>1, <2>2, OwnFilesStay
<1>9. ContainerFits(p)'
  <2>1. IsFiniteSet(DOMAIN segments'[p])
    <3>1. IsFiniteSet(DOMAIN segments[p])
      BY <1>3 DEF ContainerFits
    <3>2. \/ DOMAIN segments'[p] = DOMAIN segments[p]
          \/ DOMAIN segments'[p] = DOMAIN segments[p] \union {segment}
      BY <1>6 DEF Put
    <3>3. QED
      BY <3>1, <3>2, FS_AddElement
  <2>3. ASSUME Active(p)', ~reported'[p]
        PROVE  /\ Place(p)' > 8 => "network.elf" \in DOMAIN segments'[p]
                                   /\ segments'[p]["network.elf"] = Own(p)
               /\ Place(p)' > 9 => "constants.bin" \in DOMAIN segments'[p]
               /\ Place(p)' > 11 => "constantsdesc.bin" \in DOMAIN segments'[p]
    <3>1. /\ segments'[p] = Put(segments[p], segment, fs[name]) /\ ~reported[p]
          /\ Place(p)' = Place(p) + 1
      <4>1. ~Fail(p)
        BY <1>1, <2>3, OnOrOut
      <4>2. QED
        BY <1>1, <1>3, <2>3, <4>1, OnOrOut DEF TypeOK
    <3>2. /\ segment \in DOMAIN segments'[p] /\ segments'[p][segment] = fs[name]
          /\ \A n \in DOMAIN segments[p] :
               n # segment => n \in DOMAIN segments'[p] /\ segments'[p][n] = segments[p][n]
      BY <3>1 DEF Put
    <3>3. /\ Place(p) > 8 => "network.elf" \in DOMAIN segments[p] /\ segments[p]["network.elf"] = Own(p)
          /\ Place(p) > 9 => "constants.bin" \in DOMAIN segments[p]
      BY <1>3, <1>4, <3>1 DEF ContainerFits
    <3>4. CASE Place(p) = 8 /\ name = Elf(p) /\ segment = "network.elf"
      <4>1. LinkOutput(p) = Elf(p)
        BY <1>3, <1>4, NamesApart
      <4>2. Place(p) > 6
        BY <3>4
      <4>3. fs[LinkOutput(p)] = Own(p)
        BY <1>3, <1>4, <3>1, <4>2, OwnFilesOfLink
      <4>4. QED
        BY <3>1, <3>2, <3>4, <4>1, <4>3
    <3>5. CASE Place(p) = 9 /\ segment = "constants.bin"
      BY <3>1, <3>2, <3>3, <3>5
    <3>6. CASE Place(p) = 11 /\ segment = "constantsdesc.bin"
      BY <3>1, <3>2, <3>3, <3>6
    <3>7. QED
      BY <1>5, <3>4, <3>5, <3>6
  <2>4. mode' = mode
    BY <1>1, NamesStay
  <2>5. \/ qpcs'[p] = NoFiles \/ reported'[p]
        \/ /\ {"network.elf", "networkdesc.bin", "constants.bin", "constantsdesc.bin"} \subseteq DOMAIN qpcs'[p]
           /\ IsFiniteSet(DOMAIN qpcs'[p])
           /\ qpcs'[p]["network.elf"] = Own(p) /\ qpcs'[p]["networkdesc.bin"].of = p
    <3>1. reported[p] => reported'[p]
      BY <1>3 DEF Outcome
    <3>2. QED
      BY <1>1, <1>3, <3>1 DEF ContainerFits
  <2>6. QED
    BY <2>1, <2>3, <2>4, <2>5 DEF ContainerFits, Own, Content
<1>10. SharedFiles(p)'
  <2>1. SUFFICES ASSUME alone[p] PROVE SharedFiles(p)'
    BY <1>1 DEF SharedFiles
  <2>2. /\ Place(p) \in 4 .. 9 => Constants \in DOMAIN fs /\ fs[Constants].of = p
        /\ Place(p) \in 5 .. 11 => ConstantsDesc \in DOMAIN fs /\ fs[ConstantsDesc].of = p
        /\ \A q \in Drivers : result[q] = "running" => q = p
        /\ \A n \in {"constants.bin", "constantsdesc.bin"} :
             /\ n \in DOMAIN segments[p] => segments[p][n].of = p
             /\ n \in DOMAIN qpcs[p] => qpcs[p][n].of = p
    BY <1>3, <1>4, <2>1 DEF SharedFiles
  <2>3. result'[p] = "running" => Place(p)' = Place(p) + 1 /\ Place(p) > 7
    BY <1>1, <1>5, OnOrOut DEF Active
  <2>4. result'[p] = "running" =>
          /\ Place(p)' \in 4 .. 9 => Place(p) \in 4 .. 9
          /\ Place(p)' \in 5 .. 11 => Place(p) \in 5 .. 11
    BY <1>5, <2>3
  <2>5. segment \in {"constants.bin", "constantsdesc.bin"} => fs[name].of = p
    <3>1. CASE Place(p) = 8 /\ segment = "network.elf"
      BY <3>1
    <3>2. CASE Place(p) = 9 /\ name = Constants
      BY <2>2, <3>2
    <3>3. CASE Place(p) = 11 /\ name = ConstantsDesc
      BY <2>2, <3>3
    <3>4. QED
      BY <1>5, <3>1, <3>2, <3>3
  <2>6. \A n \in {"constants.bin", "constantsdesc.bin"} :
          n \in DOMAIN segments'[p] => segments'[p][n].of = p
    BY <1>6, <2>2, <2>5 DEF Put
  <2>7. \A q \in Drivers \ {p} : result'[q] = result[q]
    BY <1>3 DEF Outcome
  <2>8. QED
    BY <1>1, <2>2, <2>4, <2>6, <2>7 DEF SharedFiles
<1>11. Removed(p)'
  <2>1. Place(p) \notin {7, 10, 12}
    BY <1>5
  <2>2. QED
    BY <1>1, <1>3, <2>1, RemovedStay
<1>12. QED
  BY <1>1, <1>3, <1>6, <1>7, <1>8, <1>9, <1>10, <1>11, StepKeepsInvariant DEF TypeOK

\* The container gets what the builder holds (WriteQpc).
LEMMA WriteQpcKeeps ==
  ASSUME IInv, NEW p \in Drivers, WriteQpc(p)
  PROVE  IInv'
<1> DEFINE desc == Content(p, 0, 0)
<1>1. /\ At(p, "WriteQpc") /\ UNCHANGED private /\ UNCHANGED <<entry, segments, alone>>
      /\ \/ /\ qpcs' = [qpcs EXCEPT ![p] = Put(segments[p], "networkdesc.bin", desc)]
            /\ fs' = IF SavesTemps(p) THEN Put(fs, NetDesc(p), desc) ELSE fs
            /\ GoOn(p) /\ UNCHANGED reported
         \/ GoOn(p) /\ UNCHANGED <<fs, qpcs, reported>>
         \/ Fail(p) /\ UNCHANGED <<fs, qpcs>>
  BY DEF WriteQpc
<1>2. Ends(p)
  BY <1>1 DEF Ends
<1>3. /\ TypeOK /\ result[p] = "running" /\ Active(p) /\ Outcome(p)
      /\ OnPlan(p) /\ OwnFiles(p) /\ ContainerFits(p) /\ SharedFiles(p) /\ Removed(p)
      /\ mode[p] \in ModesWith("WriteQpc") /\ Place(p) = 13
  BY <1>1, <1>2, AtStep, Numbers
<1>4. /\ mode[p] = "QPC" /\ mode[p] \in EmbedModes /\ mode[p] \in LinkModes
  BY <1>3 DEF ModesWith, LinkModes, EmbedModes
<1>5. /\ NetDesc(p)[1] = args[p].base /\ args[p].base # ""
      /\ LinkOutput(p) # NetDesc(p) /\ Metadata(p) # NetDesc(p)
      /\ NetDesc(p) # Constants /\ NetDesc(p) # ConstantsDesc
  BY <1>3, <1>4, NamesApart
<1>6. /\ DOMAIN qpcs' = Drivers
      /\ \A q \in Drivers \ {p} : qpcs'[q] = qpcs[q]
      /\ \/ qpcs'[p] = qpcs[p]
         \/ ~Fail(p) /\ GoOn(p) /\ qpcs'[p] = Put(segments[p], "networkdesc.bin", desc)
            /\ UNCHANGED reported
  BY <1>1, <1>3, OnOrOut DEF TypeOK
<1>7. UNCHANGED fs \/ (SavesTemps(p) /\ fs' = Put(fs, NetDesc(p), desc))
  BY <1>1
<1>8. Local(p)
  <2>1. \/ UNCHANGED fs
        \/ \E n : /\ n[1] = args[p].base \/ n \in {Constants, ConstantsDesc}
                  /\ fs' = Without(fs, n) \/ \E v : fs' = Put(fs, n, v)
    BY <1>5, <1>7
  <2>2. QED
    BY <1>1, <1>3, <1>6, <2>1, ChangesLocally
<1>9. \A n \in DOMAIN fs' : fs'[n] \in Contents
  <2>1. desc \in Contents
    BY DriversAssumption DEF Content, Contents
  <2> HIDE DEF desc
  <2>2. \/ UNCHANGED fs
        \/ \E n : fs' = Without(fs, n) \/ \E v \in Contents : fs' = Put(fs, n, v)
    BY <1>7, <2>1
  <2>3. QED
    BY <1>3, <2>2, FilesStayContents
<1>10. OwnFiles(p)'
  <2>1. LinkOutput(p) \in DOMAIN fs
    <3>1. Place(p) > 1
      BY <1>3
    <3>2. QED
      BY <1>3, <1>4, <3>1, OwnFilesOfLink
  <2>2. /\ LinkOutput(p) \in DOMAIN fs' /\ fs'[LinkOutput(p)] = fs[LinkOutput(p)]
        /\ Metadata(p) \in DOMAIN fs' =>
             Metadata(p) \in DOMAIN fs /\ fs'[Metadata(p)] = fs[Metadata(p)]
    BY <1>5, <1>7, <2>1 DEF Put
  <2>3. Place(p) > 2 /\ Place(p) # 6
    BY <1>3
  <2>4. QED
    BY <1>1, <1>3, <1>4, <2>2, <2>3, OwnFilesStay
<1>11. ContainerFits(p)'
  <2>1. CASE qpcs'[p] = qpcs[p]
    <3>1. Place(p) \notin {8, 9, 11}
      BY <1>3
    <3>2. QED
      BY <1>1, <1>3, <2>1, <3>1, ContainerStays
  <2>2. CASE /\ GoOn(p) /\ qpcs'[p] = Put(segments[p], "networkdesc.bin", desc) /\ UNCHANGED reported
    <3>1. mode' = mode /\ segments' = segments /\ Place(p)' = Place(p) + 1 /\ Active(p)'
      BY <1>1, <2>2, NamesStay, OnOrOut
    <3>2. IsFiniteSet(DOMAIN segments[p])
      BY <1>3 DEF ContainerFits
    <3>3. IsFiniteSet(DOMAIN qpcs'[p])
      <4>1. DOMAIN qpcs'[p] = DOMAIN segments[p] \union {"networkdesc.bin"}
        BY <2>2 DEF Put
      <4>2. QED
        BY <3>2, <4>1, FS_AddElement
    <3>4. ASSUME ~reported[p]
          PROVE  /\ "network.elf" \in DOMAIN segments[p] /\ segments[p]["network.elf"] = Own(p)
                 /\ "constants.bin" \in DOMAIN segments[p]
                 /\ "constantsdesc.bin" \in DOMAIN segments[p]
      <4>1. Place(p) > 8 /\ Place(p) > 9 /\ Place(p) > 11
        BY <1>3
      <4>2. QED
        BY <1>3, <1>4, <3>4, <4>1 DEF ContainerFits
    <3>5. ~reported[p] =>
            /\ {"network.elf", "networkdesc.bin", "constants.bin", "constantsdesc.bin"}
                 \subseteq DOMAIN qpcs'[p]
            /\ qpcs'[p]["network.elf"] = Own(p) /\ qpcs'[p]["networkdesc.bin"].of = p
      BY <2>2, <3>4 DEF Put, Content
    <3>6. QED
      BY <2>2, <3>1, <3>2, <3>3, <3>4, <3>5 DEF ContainerFits, Own, Content
  <2>3. QED
    BY <1>6, <2>1, <2>2
<1>12. SharedFiles(p)'
  <2>1. SUFFICES ASSUME alone[p] PROVE SharedFiles(p)'
    BY <1>1 DEF SharedFiles
  <2>2. /\ \A q \in Drivers : result[q] = "running" => q = p
        /\ \A n \in {"constants.bin", "constantsdesc.bin"} :
             /\ n \in DOMAIN segments[p] => segments[p][n].of = p
             /\ n \in DOMAIN qpcs[p] => qpcs[p][n].of = p
    BY <1>3, <2>1 DEF SharedFiles
  <2>3. result'[p] = "running" => Place(p)' = Place(p) + 1
    BY <1>1, OnOrOut DEF Active
  <2>4. result'[p] = "running" => Place(p)' \notin 4 .. 9 /\ Place(p)' \notin 5 .. 11
    BY <1>3, <2>3
  <2>5. \A n \in {"constants.bin", "constantsdesc.bin"} :
          n \in DOMAIN qpcs'[p] => qpcs'[p][n].of = p
    BY <1>6, <2>2 DEF Put
  <2>6. \A q \in Drivers \ {p} : result'[q] = result[q]
    BY <1>3 DEF Outcome
  <2>7. QED
    BY <1>1, <2>2, <2>4, <2>5, <2>6 DEF SharedFiles
<1>13. Removed(p)'
  <2>1. Place(p) \notin {7, 10, 12}
    BY <1>3
  <2>2. /\ ~SavesTemps(p) => UNCHANGED fs
        /\ \A n \in {Constants, ConstantsDesc} : n \in DOMAIN fs' => n \in DOMAIN fs
    BY <1>5, <1>7 DEF Put
  <2>3. QED
    BY <1>1, <1>3, <2>1, <2>2, RemovedStay
<1>14. QED
  BY <1>1, <1>3, <1>6, <1>8, <1>9, <1>10, <1>11, <1>12, <1>13, StepKeepsInvariant DEF TypeOK

\* A driver that is killed leaves the others' things alone (Kill).
LEMMA KillKeeps ==
  ASSUME IInv, NEW p \in Drivers, Kill(p)
  PROVE  IInv'
<1>1. /\ TypeOK /\ ContainerFits(p) /\ SharedFiles(p) /\ OnPlan(p) /\ result[p] = "running"
      /\ Active(p)
  BY DEF IInv, Fits, Kill, Active
<1>2. /\ UNCHANGED private /\ UNCHANGED <<entry, segments, fs, qpcs, reported, alone>>
      /\ todo' = [todo EXCEPT ![p] = <<>>] /\ result' = [result EXCEPT ![p] = "killed"]
  BY DEF Kill
<1>3. /\ result'[p] = "killed" /\ ~Active(p)'
      /\ todo' \in [Drivers -> Seq(StepNames)] /\ result' \in [Drivers -> Results]
      /\ reported' \in [Drivers -> BOOLEAN]
      /\ \A q \in Drivers \ {p} : todo'[q] = todo[q] /\ result'[q] = result[q]
  BY <1>1, <1>2 DEF TypeOK, Results, Active
<1>4. Place(p) \in Nat
  <2>1. mode[p] \in CompileModes \union LinkModes
    BY <1>1 DEF OnPlan, TypeOK
  <2>2. Len(Steps(mode[p])) \in Nat
    BY <2>1, StepsAreNumbered
  <2>3. Len(todo[p]) \in Nat /\ Len(todo[p]) <= Len(Steps(mode[p]))
    BY <1>1 DEF TypeOK, OnPlan
  <2>4. QED
    BY <2>2, <2>3 DEF Place
<1>5. Outcome(p)
  BY <1>2, <1>3, <1>4 DEF Outcome, OnPlan
<1>6. Local(p)
  BY <1>2, <1>5, ChangesLocally
<1>7. OwnFiles(p)' /\ Removed(p)'
  BY <1>3 DEF OwnFiles, Removed
<1>8. ContainerFits(p)'
  BY <1>1, <1>2, <1>3 DEF ContainerFits, Own, Content
<1>9. SharedFiles(p)'
  BY <1>1, <1>2, <1>3 DEF SharedFiles
<1>10. QED
  BY <1>1, <1>2, <1>5, <1>6, <1>7, <1>8, <1>9, StepKeepsInvariant DEF TypeOK

\* What modes there are, and that one that is known has steps (DeducedMode).
LEMMA DeducedModes ==
  ASSUME NEW a
  PROVE  DeducedMode(a) \in CompileModes \union LinkModes \union {"Unknown"}
  BY DEF DeducedMode, CompileModes, LinkModes, EmbedModes

\* A driver that starts finds nothing of its own, and nobody is alone from then on if others
\* are at work (Start).
LEMMA StartKeeps ==
  ASSUME IInv, NEW p \in Drivers, Start(p)
  PROVE  IInv'
<1> DEFINE m == DeducedMode(args[p])
           ok == m # "Unknown" /\ args[p].config # "bad"
<1>1. /\ TypeOK /\ FilesHaveOwners /\ \A q \in Drivers : Fits(q)
      /\ result[p] = "new" /\ Unstarted(p) /\ ContainerFits(p)
  BY DEF IInv, Start, Fits
<1>2. m \in CompileModes \union LinkModes \union {"Unknown"}
  BY DeducedModes
<1>3. /\ mode' = [mode EXCEPT ![p] = m]
      /\ result' = [result EXCEPT ![p] = IF ok THEN "running" ELSE "failed"]
      /\ todo' = [todo EXCEPT ![p] = IF ok THEN Steps(m) ELSE <<>>]
      /\ reported' = [reported EXCEPT ![p] = ~ok]
      /\ alone' = IF ok /\ Running # {}
                  THEN [q \in Drivers |-> alone[q] /\ q \notin Running \union {p}] ELSE alone
      /\ UNCHANGED <<args, entry, segments, fs, qpcs>>
  <2>1. mode' = [mode EXCEPT ![p] = m]
    BY DEF Start
  <2>2. mode'[p] = m
    BY <1>1, <2>1 DEF TypeOK
  <2>3. QED
    BY <2>1, <2>2 DEF Start
<1>4. ok => m # "Unknown"
  OBVIOUS
<1> HIDE DEF m, ok
<1>12. ASSUME ok
       PROVE  /\ Steps(m) \in Seq(StepNames) /\ Len(Steps(m)) \in Nat /\ Len(Steps(m)) > 0
              /\ m \in CompileModes \union LinkModes
  <2>1. m \in CompileModes \union LinkModes
    BY <1>2, <1>4, <1>12
  <2>2. Len(Steps(m)) \in {1, 7, 13} /\ Steps(m) \in Seq(StepNames)
    BY <2>1, StepsAreNumbered
  <2>3. \A k \in {1, 7, 13} : k \in Nat /\ k > 0
    OBVIOUS
  <2>4. QED
    BY <2>1, <2>2, <2>3, Zenon
<1>5. /\ mode'[p] = m /\ result'[p] = (IF ok THEN "running" ELSE "failed")
      /\ todo'[p] = (IF ok THEN Steps(m) ELSE <<>>) /\ reported'[p] = ~ok
      /\ \A q \in Drivers \ {p} : /\ mode'[q] = mode[q] /\ result'[q] = result[q]
                                  /\ todo'[q] = todo[q] /\ reported'[q] = reported[q]
  BY <1>1, <1>3 DEF TypeOK
<1>13. \A q \in Drivers : alone'[q] => alone[q]
  BY <1>3
<1>14. ASSUME ok, NEW r \in Running, NEW q \in Drivers, q = p \/ q \in Running PROVE ~alone'[q]
  BY <1>3, <1>14
<1>6. TypeOK'
  <2>1. todo' \in [Drivers -> Seq(StepNames)]
    BY <1>1, <1>3, <1>12 DEF TypeOK
  <2>2. mode' \in [Drivers -> CompileModes \union LinkModes \union {"Unknown"}]
    BY <1>1, <1>2, <1>3 DEF TypeOK, m
  <2>3. result' \in [Drivers -> Results]
    BY <1>1, <1>3 DEF TypeOK, Results
  <2>4. reported' \in [Drivers -> BOOLEAN] /\ alone' \in [Drivers -> BOOLEAN]
    BY <1>1, <1>3 DEF TypeOK, ok
  <2>5. QED
    BY <1>1, <1>3, <2>1, <2>2, <2>3, <2>4 DEF TypeOK
<1>7. FilesHaveOwners'
  <2>1. SUFFICES ASSUME NEW n \in DOMAIN fs, n[1] # ""
                 PROVE  \E q \in Drivers : args[q].base = n[1] /\ result'[q] # "new"
    BY <1>3 DEF FilesHaveOwners
  <2>2. PICK q \in Drivers : args[q].base = n[1] /\ result[q] # "new"
    BY <1>1, <2>1 DEF FilesHaveOwners
  <2>3. QED
    BY <1>1, <1>5, <2>2
<1>8. ASSUME NEW q \in Drivers, q # p PROVE Fits(q)'
  <2>1. /\ OnPlan(q) /\ OwnFiles(q) /\ ContainerFits(q) /\ SharedFiles(q) /\ Removed(q)
        /\ Unstarted(q)
    BY <1>1 DEF Fits
  <2>2. /\ todo'[q] = todo[q] /\ result'[q] = result[q] /\ reported'[q] = reported[q]
        /\ mode'[q] = mode[q]
        /\ alone'[q] => alone[q]
    BY <1>5, <1>8, <1>13
  <2>3. /\ args' = args /\ entry' = entry /\ segments' = segments /\ fs' = fs /\ qpcs' = qpcs
    BY <1>3
  <2>4. Active(q)' = Active(q) /\ Place(q)' = Place(q)
    BY <2>2 DEF Active, Place
  <2>5. /\ LinkOutput(q)' = LinkOutput(q) /\ Output(q)' = Output(q) /\ Metadata(q)' = Metadata(q)
        /\ SavesTemps(q)' = SavesTemps(q)
    BY <2>2, <2>3 DEF LinkOutput, Output, Metadata, Elf, SavesTemps
  <2>6. OnPlan(q)'
    BY <2>1, <2>2, <2>3, <2>4 DEF OnPlan
  <2>7. OwnFiles(q)'
    BY <2>1, <2>2, <2>3, <2>4, <2>5 DEF OwnFiles, Own, Content
  <2>8. ContainerFits(q)'
    BY <2>1, <2>2, <2>3, <2>4 DEF ContainerFits, Own, Content
  <2>9. ASSUME alone'[q], result'[q] = "running", NEW r \in Drivers, result'[r] = "running" PROVE r = q
    <3>1. q \in Running
      BY <2>2, <2>9 DEF Running
    <3>2. ~ok
      BY <1>14, <2>9, <3>1
    <3>3. r # p
      BY <1>5, <2>9, <3>2
    <3>4. result[r] = "running"
      BY <1>5, <2>9, <3>3
    <3>5. QED
      BY <2>1, <2>2, <2>9, <3>4 DEF SharedFiles
  <2>10. SharedFiles(q)'
    BY <2>1, <2>2, <2>3, <2>4, <2>9 DEF SharedFiles
  <2>11. Removed(q)' /\ Unstarted(q)'
    BY <2>1, <2>2, <2>3, <2>4, <2>5 DEF Removed, Unstarted
  <2>12. QED
    BY <2>6, <2>7, <2>8, <2>10, <2>11 DEF Fits
<1>9. CASE ~ok
  <2>1. result'[p] = "failed" /\ ~Active(p)'
    BY <1>5, <1>9 DEF Active
  <2>2. OnPlan(p)' /\ OwnFiles(p)' /\ Removed(p)' /\ Unstarted(p)'
    BY <2>1 DEF OnPlan, OwnFiles, Removed, Unstarted
  <2>3. segments'[p] = NoFiles /\ qpcs'[p] = NoFiles /\ DOMAIN NoFiles = {}
    BY <1>1, <1>3 DEF Unstarted, NoFiles
  <2>4. ContainerFits(p)' /\ SharedFiles(p)'
    BY <2>1, <2>3, FS_EmptySet DEF ContainerFits, SharedFiles
  <2>5. Fits(p)'
    BY <2>2, <2>4 DEF Fits
  <2>6. QED
    BY <1>6, <1>7, <1>8, <2>5 DEF IInv
<1>10. CASE ok
  <2>1. /\ result'[p] = "running" /\ Active(p)' /\ mode'[p] = m /\ m # "Unknown" /\ ~reported'[p]
        /\ todo'[p] = Steps(m)
    BY <1>4, <1>5, <1>10 DEF Active
  <2>2. Place(p)' = 1
    BY <1>12, <1>10, <2>1 DEF Place
  <2>3. OnPlan(p)'
    <3>1. \A j \in 1 .. Len(todo'[p]) : todo'[p][j] = Steps(m)[Place(p)' + j - 1]
      BY <1>12, <1>10, <2>1, <2>2
    <3>2. QED
      BY <1>3, <1>4, <1>12, <1>10, <2>1, <3>1 DEF OnPlan, m
  <2>4. OwnFiles(p)'
    <3>1. ASSUME m \in EmbedModes PROVE Metadata(p)' \notin DOMAIN fs'
      <4>1. m \in LinkModes
        BY <3>1 DEF LinkModes
      <4>2. args[p].base # ""
        BY <4>1, LinkModesDeduced DEF m
      <4>3. Metadata(p)'[1] = args[p].base
        BY <1>3 DEF Metadata
      <4>4. ASSUME Metadata(p)' \in DOMAIN fs' PROVE FALSE
        <5>1. PICK q \in Drivers : args[q].base = args[p].base /\ result[q] # "new"
          BY <1>1, <1>3, <4>2, <4>3, <4>4 DEF FilesHaveOwners
        <5>2. q # p
          BY <1>1, <5>1
        <5>3. args[p] \in ArgsOf(p) /\ args[q] \in ArgsOf(q)
          BY <1>1 DEF TypeOK
        <5>4. QED
          BY <4>2, <5>1, <5>2, <5>3, BasesAssumption
      <4>5. QED
        BY <4>4
    <3>2. ~(Place(p)' > 1) /\ ~(Place(p)' > 2) /\ ~(Place(p)' > 6)
      BY <2>2
    <3>3. QED
      BY <2>1, <3>1, <3>2 DEF OwnFiles
  <2>5. segments'[p] = NoFiles /\ qpcs'[p] = NoFiles /\ DOMAIN NoFiles = {}
    BY <1>1, <1>3 DEF Unstarted, NoFiles
  <2>6. ContainerFits(p)'
    <3>1. ~(Place(p)' > 8) /\ ~(Place(p)' > 9) /\ ~(Place(p)' > 11)
      BY <2>2
    <3>2. QED
      BY <2>5, <3>1, FS_EmptySet DEF ContainerFits
  <2>7. ASSUME alone'[p], NEW q \in Drivers, result'[q] = "running" PROVE q = p
    <3>1. Running = {}
      BY <1>10, <1>14, <2>7
    <3>2. QED
      BY <1>5, <2>7, <3>1 DEF Running
  <2>8. SharedFiles(p)'
    <3>1. Place(p)' \notin 4 .. 9 /\ Place(p)' \notin 5 .. 11
      BY <2>2
    <3>2. QED
      BY <2>5, <2>7, <3>1 DEF SharedFiles
  <2>9. Removed(p)' /\ Unstarted(p)'
    <3>1. ~(Place(p)' > 7) /\ ~(Place(p)' > 10) /\ ~(Place(p)' > 12)
      BY <2>2
    <3>2. QED
      BY <2>1, <3>1 DEF Removed, Unstarted
  <2>10. Fits(p)'
    BY <2>3, <2>4, <2>6, <2>8, <2>9 DEF Fits
  <2>11. QED
    BY <1>6, <1>7, <1>8, <2>10 DEF IInv
<1>11. QED
  BY <1>9, <1>10

-----------------------------------------------------------------------------
(* The theorems.                                                           *)

\* The invariant holds at the start.
LEMMA InitInvariant == Init => IInv
<1>1. SUFFICES ASSUME Init PROVE IInv
  OBVIOUS
<1>2. /\ DOMAIN NoFiles = {} /\ fs = NoFiles /\ 0 \in Nat
      /\ \A p \in Drivers : /\ result[p] = "new" /\ segments[p] = NoFiles /\ qpcs[p] = NoFiles
                             /\ ~Active(p)
  BY <1>1 DEF Init, NoFiles, Active
<1>3. TypeOK
  <2>1. /\ args \in [Drivers -> UNION {ArgsOf(p) : p \in Drivers}]
        /\ \A p \in Drivers : args[p] \in ArgsOf(p)
    BY <1>1 DEF Init
  <2>2. todo \in [Drivers -> Seq(StepNames)]
    BY <1>1, EmptySeq DEF Init
  <2>3. /\ mode \in [Drivers -> CompileModes \union LinkModes \union {"Unknown"}]
        /\ result \in [Drivers -> Results] /\ entry \in [Drivers -> Nat]
        /\ DOMAIN segments = Drivers /\ DOMAIN qpcs = Drivers
        /\ reported \in [Drivers -> BOOLEAN] /\ alone \in [Drivers -> BOOLEAN]
    BY <1>1 DEF Init, Results
  <2>4. QED
    BY <1>2, <2>1, <2>2, <2>3 DEF TypeOK
<1>4. FilesHaveOwners
  BY <1>2 DEF FilesHaveOwners
<1>5. ASSUME NEW p \in Drivers PROVE Fits(p)
  BY <1>2, FS_EmptySet DEF Fits, OnPlan, OwnFiles, ContainerFits, SharedFiles, Removed, Unstarted
<1>6. QED
  BY <1>3, <1>4, <1>5 DEF IInv

\* Every step of every driver keeps the invariant.
LEMMA NextKeeps == IInv /\ [Next]_vars => IInv'
<1>1. SUFFICES ASSUME IInv, [Next]_vars PROVE IInv'
  OBVIOUS
<1>2. CASE UNCHANGED vars
  <2>1. /\ UNCHANGED <<args, mode, todo, result, entry>>
        /\ UNCHANGED <<segments, fs, qpcs, reported, alone>>
    BY <1>2 DEF vars
  <2>2. TypeOK' /\ FilesHaveOwners'
    BY <1>1, <2>1 DEF IInv, TypeOK, FilesHaveOwners
  <2>3. ASSUME NEW p \in Drivers PROVE Fits(p)'
    <3>1. /\ OnPlan(p) /\ OwnFiles(p) /\ ContainerFits(p) /\ SharedFiles(p) /\ Removed(p)
          /\ Unstarted(p)
      BY <1>1 DEF IInv, Fits
    <3>2. /\ Active(p)' = Active(p) /\ Place(p)' = Place(p) /\ Output(p)' = Output(p)
          /\ LinkOutput(p)' = LinkOutput(p) /\ Metadata(p)' = Metadata(p)
          /\ SavesTemps(p)' = SavesTemps(p)
      BY <2>1 DEF Active, Place, LinkOutput, Output, Elf, Metadata, SavesTemps
    <3>3. OnPlan(p)'
      BY <2>1, <3>1, <3>2 DEF OnPlan
    <3>4. OwnFiles(p)'
      BY <2>1, <3>1, <3>2 DEF OwnFiles, Own, Content
    <3>5. ContainerFits(p)'
      BY <2>1, <3>1, <3>2 DEF ContainerFits, Own, Content
    <3>6. SharedFiles(p)' /\ Removed(p)' /\ Unstarted(p)'
      BY <2>1, <3>1, <3>2 DEF SharedFiles, Removed, Unstarted
    <3>7. QED
      BY <3>1, <3>3, <3>4, <3>5, <3>6 DEF Fits
  <2>4. QED
    BY <2>2, <2>3 DEF IInv
<1>3. ASSUME NEW p \in Drivers, Start(p) PROVE IInv'
  BY <1>1, <1>3, StartKeeps
<1>4. ASSUME NEW p \in Drivers, Step(p) PROVE IInv'
  <2>1. CASE Compile(p)
    BY <1>1, <2>1, CompileKeeps
  <2>2. CASE Link(p)
    BY <1>1, <2>2, LinkKeeps
  <2>3. CASE Extract(p)
    BY <1>1, <2>3, ExtractKeeps
  <2>4. CASE WriteShared(p, "WriteConstants", Constants)
    BY <1>1, <2>4, ConstantsWrittenKeep
  <2>5. CASE WriteShared(p, "WriteConstantsDesc", ConstantsDesc)
    BY <1>1, <2>5, ConstantsWrittenKeep
  <2>6. CASE WriteMetadata(p)
    BY <1>1, <2>6, MetadataWrittenKeep
  <2>7. CASE Objcopy(p)
    BY <1>1, <2>7, ObjcopyKeeps
  <2>8. CASE RemoveTemp(p, "RemoveMetadata", Metadata(p), "RemoveMetadata")
    BY <1>1, <2>8, RemovalKeeps
  <2>9. CASE Read(p, "ReadElf", Elf(p), "network.elf")
    BY <1>1, <2>9, ReadKeeps
  <2>10. CASE Read(p, "ReadConstants", Constants, "constants.bin")
    BY <1>1, <2>10, ReadKeeps
  <2>11. CASE RemoveTemp(p, "RemoveConstants", Constants, "WriteQpc")
    BY <1>1, <2>11, RemovalKeeps
  <2>12. CASE Read(p, "ReadConstantsDesc", ConstantsDesc, "constantsdesc.bin")
    BY <1>1, <2>12, ReadKeeps
  <2>13. CASE RemoveTemp(p, "RemoveConstantsDesc", ConstantsDesc, "WriteQpc")
    BY <1>1, <2>13, RemovalKeeps
  <2>14. CASE WriteQpc(p)
    BY <1>1, <2>14, WriteQpcKeeps
  <2>15. QED
    BY <1>4, <2>1, <2>2, <2>3, <2>4, <2>5, <2>6, <2>7, <2>8, <2>9, <2>10, <2>11, <2>12, <2>13,
       <2>14 DEF Step
<1>5. ASSUME NEW p \in Drivers, Kill(p) PROVE IInv'
  BY <1>1, <1>5, KillKeeps
<1>6. QED
  BY <1>1, <1>2, <1>3, <1>4, <1>5 DEF Next

\* Every reachable state is type correct, every driver is at a step of its mode's plan, and
\* the files are what the steps done so far make them.
THEOREM InvariantHolds == Spec => []IInv
<1>1. Init => IInv
  BY InitInvariant
<1>2. IInv /\ [Next]_vars => IInv'
  BY NextKeeps
<1>3. QED
  BY <1>1, <1>2, PTL DEF Spec

\* A run that ends well without an error made its output from its own inputs, metadata and
\* entry point, and a container it wrote is complete (OutputIsOwn).
LEMMA OutputFollows == IInv => OutputIsOwn
<1>1. SUFFICES ASSUME IInv, NEW p \in Drivers, result[p] = "ok", ~reported[p]
               PROVE  CASE mode[p] \in {"PreProcess", "Compile", "Assemble", "Link"} ->
                             fs[Output(p)].of = p
                        [] mode[p] = "LinkWithMetadata" -> fs[Output(p)] = Own(p)
                        [] OTHER -> \/ qpcs[p] = NoFiles
                                    \/ /\ ValidateQPC(DOMAIN qpcs[p])
                                       /\ qpcs[p]["network.elf"] = Own(p)
                                       /\ qpcs[p]["networkdesc.bin"].of = p
  BY Zenon DEF OutputIsOwn
<1>2. /\ TypeOK /\ OnPlan(p) /\ OwnFiles(p) /\ ContainerFits(p) /\ Active(p)
  BY <1>1 DEF IInv, Fits, Active
<1>3. mode[p] \in CompileModes \union LinkModes
  BY <1>2 DEF TypeOK, OnPlan
<1>4. Place(p) = Len(Steps(mode[p])) + 1
  <2>1. Len(todo[p]) = 0
    BY <1>1, <1>2 DEF OnPlan
  <2>2. Len(Steps(mode[p])) \in Nat
    BY <1>3, StepsAreNumbered
  <2>3. QED
    BY <2>1, <2>2 DEF Place
<1>5. CASE mode[p] \in CompileModes
  <2>1. Len(Steps(mode[p])) = 1
    BY <1>3, <1>5, StepsAreNumbered DEF CompileModes
  <2>2. Place(p) > 1
    BY <1>4, <2>1
  <2>3. fs[Output(p)].of = p
    BY <1>1, <1>2, <1>5, <2>2 DEF OwnFiles
  <2>4. QED
    BY <1>5, <2>3 DEF CompileModes
<1>6. CASE mode[p] = "Link"
  <2>1. Len(Steps(mode[p])) = 1 /\ mode[p] \in LinkModes
    BY <1>3, <1>6, StepsAreNumbered DEF LinkModes
  <2>2. Place(p) > 1
    BY <1>4, <2>1
  <2>3. LinkOutput(p) = Output(p)
    BY <1>2, <1>6, <2>1, NamesApart
  <2>4. fs[Output(p)].of = p
    BY <1>2, <2>1, <2>2, <2>3, OwnFilesOfLink
  <2>5. QED
    BY <1>6, <2>4
<1>7. CASE mode[p] = "LinkWithMetadata"
  <2>1. Len(Steps(mode[p])) = 7 /\ mode[p] \in LinkModes /\ mode[p] \in EmbedModes
    BY <1>3, <1>7, StepsAreNumbered DEF LinkModes, EmbedModes
  <2>2. Place(p) > 6
    BY <1>4, <2>1
  <2>3. LinkOutput(p) = Output(p)
    BY <1>2, <1>7, <2>1, NamesApart
  <2>4. fs[Output(p)] = Own(p)
    BY <1>1, <1>2, <2>1, <2>2, <2>3, OwnFilesOfLink
  <2>5. QED
    BY <1>7, <2>4
<1>8. CASE mode[p] = "QPC"
  <2>1. CASE qpcs[p] = NoFiles
    BY <1>8, <2>1
  <2>2. CASE qpcs[p] # NoFiles
    <3>1. /\ {"network.elf", "networkdesc.bin", "constants.bin", "constantsdesc.bin"}
               \subseteq DOMAIN qpcs[p]
          /\ IsFiniteSet(DOMAIN qpcs[p])
          /\ qpcs[p]["network.elf"] = Own(p) /\ qpcs[p]["networkdesc.bin"].of = p
      BY <1>1, <1>2, <2>2 DEF ContainerFits
    <3>2. Cardinality(DOMAIN qpcs[p]) >= 2
      <4>1. {"network.elf"} \union {"networkdesc.bin"} \subseteq DOMAIN qpcs[p]
        BY <3>1
      <4>2. /\ IsFiniteSet({"network.elf"}) /\ Cardinality({"network.elf"}) = 1
        BY FS_Singleton
      <4>3. Cardinality({"network.elf"} \union {"networkdesc.bin"}) = 2
        BY <4>2, FS_AddElement
      <4>4. /\ Cardinality({"network.elf"} \union {"networkdesc.bin"})
                  <= Cardinality(DOMAIN qpcs[p])
        BY <3>1, <4>1, FS_Subset
      <4>5. Cardinality(DOMAIN qpcs[p]) \in Nat
        BY <3>1, FS_CardinalityType
      <4>6. QED
        BY <4>3, <4>4, <4>5
    <3>3. ValidateQPC(DOMAIN qpcs[p])
      BY <3>1, <3>2 DEF ValidateQPC
    <3>4. QED
      BY <1>8, <3>1, <3>3
  <2>3. QED
    BY <2>1, <2>2
<1>9. QED
  BY <1>3, <1>5, <1>6, <1>7, <1>8 DEF LinkModes, EmbedModes

\* OutputIsOwn holds whoever else works, fails or dies in the same directory.
THEOREM OutputAlwaysOwn == Spec => []OutputIsOwn
  BY InvariantHolds, OutputFollows, PTL

\* The constants in a container are its program's if no other driver ran meanwhile: what
\* earlier runs left in the directory does not get in (ConstantsAreOwn).
THEOREM ConstantsAlwaysOwn == Spec => []ConstantsAreOwn
<1>1. IInv => ConstantsAreOwn
  BY DEF IInv, Fits, SharedFiles, ConstantsAreOwn
<1>2. QED
  BY <1>1, InvariantHolds, PTL

\* A container run that comes to its end without an error does so with its last step.
LEMMA LastStep ==
  ASSUME IInv, NEW p \in Drivers, Step(p), result[p] = "running", result'[p] = "ok", mode[p] = "QPC",
         ~reported'[p]
  PROVE  WriteQpc(p)
<1>1. TypeOK /\ OnPlan(p)
  BY DEF IInv, Fits
<1>2. ASSUME NEW step, step # "WriteQpc", At(p, step), UNCHANGED private, Ends(p) PROVE Number(step) = 13
  <2>1. GoOn(p)
    BY <1>1, <1>2 DEF Ends, Fail, EndAction, TypeOK
  <2>2. Place(p) = Len(Steps(mode[p]))
    BY <1>1, <1>2, <2>1, GoOnMoves
  <2>3. Len(Steps(mode[p])) = 13
    BY StepsAreNumbered DEF LinkModes, EmbedModes
  <2>4. QED
    BY <1>1, <1>2, <2>2, <2>3, PlaceOfStep
<1>3. ASSUME NEW step, step \in StepNames \ {"WriteQpc"} PROVE Number(step) # 13
  BY <1>3, Numbers DEF StepNames
<1>4. ASSUME NEW step, step \in StepNames \ {"WriteQpc"}, At(p, step), UNCHANGED private, Ends(p)
      PROVE  FALSE
  BY <1>2, <1>3, <1>4
<1>5. CASE Compile(p)
  <2>1. At(p, "Compile") /\ UNCHANGED private /\ Ends(p)
    BY <1>5 DEF Compile, Ends
  <2>2. QED
    BY <1>4, <2>1 DEF StepNames
<1>6. CASE Link(p)
  <2>1. At(p, "Link") /\ UNCHANGED private /\ Ends(p)
    BY <1>6 DEF Link, Ends
  <2>2. QED
    BY <1>4, <2>1 DEF StepNames
<1>7. CASE Extract(p)
  <2>1. At(p, "Extract") /\ UNCHANGED private /\ Ends(p)
    BY <1>7 DEF Extract, Ends
  <2>2. QED
    BY <1>4, <2>1 DEF StepNames
<1>8. ASSUME NEW step \in StepNames \ {"WriteQpc"}, NEW name, WriteShared(p, step, name) PROVE FALSE
  <2>1. At(p, step) /\ UNCHANGED private /\ Ends(p)
    BY <1>8 DEF WriteShared, Ends
  <2>2. QED
    BY <1>4, <2>1
<1>9. CASE WriteMetadata(p)
  <2>1. At(p, "WriteMetadata") /\ UNCHANGED private /\ Ends(p)
    BY <1>9 DEF WriteMetadata, Ends
  <2>2. QED
    BY <1>4, <2>1 DEF StepNames
<1>10. CASE Objcopy(p)
  <2>1. At(p, "Objcopy") /\ UNCHANGED private /\ Ends(p)
    BY <1>10 DEF Objcopy, Ends
  <2>2. QED
    BY <1>4, <2>1 DEF StepNames
<1>11. ASSUME NEW step \in StepNames \ {"WriteQpc"}, NEW name, NEW last, RemoveTemp(p, step, name, last)
       PROVE  FALSE
  <2>1. At(p, step) /\ UNCHANGED private /\ Ends(p)
    BY <1>11 DEF RemoveTemp, Ends
  <2>2. QED
    BY <1>4, <2>1
<1>12. ASSUME NEW step \in StepNames \ {"WriteQpc"}, NEW name, NEW segment, Read(p, step, name, segment)
       PROVE  FALSE
  <2>1. At(p, step) /\ UNCHANGED private /\ Ends(p)
    BY <1>12 DEF Read, Ends
  <2>2. QED
    BY <1>4, <2>1
<1>13. /\ {"WriteConstants", "WriteConstantsDesc"} \subseteq StepNames \ {"WriteQpc"}
       /\ {"RemoveMetadata", "RemoveConstants", "RemoveConstantsDesc"} \subseteq StepNames \ {"WriteQpc"}
       /\ {"ReadElf", "ReadConstants", "ReadConstantsDesc"} \subseteq StepNames \ {"WriteQpc"}
  BY DEF StepNames
<1>14. QED
  BY <1>5, <1>6, <1>7, <1>8, <1>9, <1>10, <1>11, <1>12, <1>13 DEF Step

\* A step that ends a container run of a driver on its own leaves no temporary file.
LEMMA EndLeavesNothing ==
  ASSUME IInv, Next, NEW p \in Drivers, result[p] = "running", result'[p] = "ok", mode[p] = "QPC",
         alone[p], ~reported'[p], ~SavesTemps(p)
  PROVE  DOMAIN fs' \intersect {Metadata(p), Constants, ConstantsDesc} = {}
<1>1. TypeOK /\ OnPlan(p) /\ Removed(p)
  BY DEF IInv, Fits
<1>2. PICK q \in Drivers : Start(q) \/ Step(q) \/ Kill(q)
  BY DEF Next
<1>3. ASSUME q # p PROVE FALSE
  <2>1. \E r : result' = [result EXCEPT ![q] = r]
    BY <1>2 DEF Start, Step, Kill, Compile, Link, Extract, WriteShared, WriteMetadata, Objcopy,
       RemoveTemp, Read, WriteQpc, GoOn, Fail, EndAction
  <2>2. QED
    BY <1>1, <1>3, <2>1 DEF TypeOK
<1>4. q = p /\ Step(p)
  <2>1. ~Start(p)
    BY DEF Start
  <2>2. ~Kill(p)
    BY <1>1 DEF Kill, TypeOK
  <2>3. QED
    BY <1>2, <1>3, <2>1, <2>2
<1>5. WriteQpc(p)
  BY <1>4, LastStep
<1>6. Place(p) = 13 /\ ~reported[p] /\ UNCHANGED fs
  <2>1. At(p, "WriteQpc") /\ UNCHANGED fs
    BY <1>5 DEF WriteQpc
  <2>2. reported' = reported
    BY <1>1, <1>5 DEF WriteQpc, Fail, TypeOK
  <2>3. QED
    BY <1>1, <2>1, <2>2, PlaceOfStep, Numbers
<1>7. Place(p) > 7 /\ Place(p) > 10 /\ Place(p) > 12
  BY <1>6
<1>8. /\ Metadata(p) \notin DOMAIN fs /\ Constants \notin DOMAIN fs /\ ConstantsDesc \notin DOMAIN fs
  BY <1>1, <1>6, <1>7 DEF Removed
<1>9. QED
  BY <1>6, <1>8

\* A container run that ends well on its own has removed its temporary files and the shared
\* ones (NothingLeftBehind).
THEOREM NothingIsLeftBehind == Spec => NothingLeftBehind
<1> DEFINE Clean ==
       \A p \in Drivers :
         /\ result[p] = "running" /\ result'[p] = "ok" /\ mode[p] = "QPC"
         /\ alone[p] /\ ~reported'[p] /\ ~SavesTemps(p)
         => DOMAIN fs' \intersect {Metadata(p), Constants, ConstantsDesc} = {}
<1>1. IInv /\ [Next]_vars => [Clean]_vars
  BY EndLeavesNothing
<1>2. NothingLeftBehind <=> [][Clean]_vars
  BY DEF NothingLeftBehind
<1> HIDE DEF Clean
<1>3. QED
  BY <1>1, <1>2, InvariantHolds, PTL DEF Spec

-----------------------------------------------------------------------------
(* Induction over the length of a command line.                            *)

\* Induction: a set with 0 that is closed under successor holds every natural number.
LEMMA SetInduction ==
  ASSUME NEW S, 0 \in S, \A n \in Nat : n \in S => n + 1 \in S
  PROVE  Nat \subseteq S
<1> DEFINE Less == OpToRel(<, Nat)
<1>1. IsWellFoundedOn(Less, Nat)
  BY NatLessThanWellFounded
<1>2. \A m, n \in Nat : m < n => <<m, n>> \in Less
  BY DEF OpToRel
<1> HIDE DEF Less
<1>3. SUFFICES ASSUME Nat \ S # {} PROVE FALSE
  OBVIOUS
<1>4. PICK x \in Nat \ S : \A y \in Nat \ S : ~ (<<y, x>> \in Less)
  BY <1>1, <1>3, WFMin
<1>5. x - 1 \in Nat /\ x - 1 < x
  BY <1>4
<1>6. x - 1 \in S
  BY <1>2, <1>4, <1>5
<1>7. x - 1 + 1 \in S
  BY <1>5, <1>6
<1> QED
  BY <1>7, <1>4

\* The same up to a number.
LEMMA FromZero ==
  ASSUME NEW n \in Nat, NEW S, 0 \in S, \A i \in 1 .. n : i - 1 \in S => i \in S
  PROVE  0 .. n \subseteq S
<1> DEFINE T == {k \in Nat : k <= n => k \in S}
<1>1. 0 \in T
  OBVIOUS
<1>2. ASSUME NEW k \in Nat, k \in T PROVE k + 1 \in T
  <2> SUFFICES ASSUME k + 1 <= n PROVE k + 1 \in S
    OBVIOUS
  <2>1. k \in S /\ k + 1 \in 1 .. n /\ k + 1 - 1 = k
    BY <1>2
  <2> QED
    BY <2>1
<1> HIDE DEF T
<1>3. Nat \subseteq T
  BY <1>1, <1>2, SetInduction
<1> QED
  BY <1>3 DEF T

\* f is defined by recursion over 0 .. n.
DefinedFromZero(f, n, a, step) == f[0] = a /\ \A i \in 1 .. n : f[i] = step[<<f[i - 1], i>>]

\* Such a function exists.
LEMMA RecursionFromZero ==
  ASSUME NEW n \in Nat, NEW V, NEW a \in V, NEW step \in [V \X Nat -> V]
  PROVE  \E f \in [0 .. n -> V] : DefinedFromZero(f, n, a, step)
<1> DEFINE IsThere(m) == \E f \in [0 .. m -> V] : DefinedFromZero(f, m, a, step)
           S == {m \in Nat : IsThere(m)}
<1>1. IsThere(0)
  <2> DEFINE e == [i \in 0 .. 0 |-> a]
  <2>1. e \in [0 .. 0 -> V] /\ e[0] = a /\ 1 .. 0 = {}
    OBVIOUS
  <2>2. DefinedFromZero(e, 0, a, step)
    BY <2>1 DEF DefinedFromZero
  <2> QED
    BY <2>1, <2>2
<1>2. ASSUME NEW m \in Nat, IsThere(m) PROVE IsThere(m + 1)
  <2>1. PICK f \in [0 .. m -> V] : DefinedFromZero(f, m, a, step)
    BY <1>2
  <2> DEFINE v == step[<<f[m], m + 1>>]
             g == [i \in 0 .. m + 1 |-> IF i = m + 1 THEN v ELSE f[i]]
  <2>2. f[m] \in V /\ m + 1 \in Nat /\ m + 1 # 0 /\ 0 \in 0 .. m
    OBVIOUS
  <2>3. v \in V
    BY <2>2
  <2> HIDE DEF v
  <2>4. \A i \in 0 .. m + 1 : i = m + 1 \/ (i # m + 1 /\ i \in 0 .. m)
    OBVIOUS
  <2>5. g \in [0 .. m + 1 -> V]
    BY <2>3, <2>4
  <2>6. g[0] = a
    <3>1. 0 \in 0 .. m + 1 /\ 0 # m + 1
      OBVIOUS
    <3> QED
      BY <2>1, <3>1 DEF DefinedFromZero
  <2>7. ASSUME NEW i \in 1 .. m + 1 PROVE g[i] = step[<<g[i - 1], i>>]
    <3>1. i \in 0 .. m + 1 /\ i - 1 \in 0 .. m + 1 /\ i - 1 # m + 1
      OBVIOUS
    <3>2. g[i - 1] = f[i - 1]
      BY <3>1
    <3>3. CASE i = m + 1
      <4>1. i - 1 = m
        BY <3>3
      <4> QED
        BY <3>1, <3>2, <3>3, <4>1 DEF v
    <3>4. CASE i # m + 1
      <4>1. i \in 1 .. m
        BY <3>4
      <4>2. f[i] = step[<<f[i - 1], i>>]
        BY <2>1, <4>1 DEF DefinedFromZero
      <4> QED
        BY <3>1, <3>2, <3>4, <4>2
    <3> QED
      BY <3>3, <3>4
  <2> HIDE DEF g
  <2>8. DefinedFromZero(g, m + 1, a, step)
    BY <2>6, <2>7 DEF DefinedFromZero
  <2> QED
    BY <2>5, <2>8
<1>3. 0 \in S
  BY <1>1
<1>4. ASSUME NEW m \in Nat, m \in S PROVE m + 1 \in S
  BY <1>2, <1>4
<1> HIDE DEF S
<1>5. Nat \subseteq S
  BY <1>3, <1>4, SetInduction
<1>6. n \in S
  BY <1>5
<1> QED
  BY <1>6 DEF S

-----------------------------------------------------------------------------
(* Brackets on a linker line.                                              *)

\* A bracket is open behind the first n words.
OpenUpTo(line, n, open, close) == \E j \in 1 .. n : line[j] = open /\ \A k \in j + 1 .. n : line[k] # close

\* A line whose brackets of one kind are in turn, and whether one is open at its end.
Bracketed(line, in, open, close) ==
  Alternate(line, open, close) /\ (in <=> OpenUpTo(line, Len(line), open, close))

\* A word added to a line.
LEMMA WordAdded ==
  ASSUME NEW V, NEW line \in Seq(V), NEW w \in V, NEW n, n = Len(line), NEW new, new = line \o <<w>>
  PROVE  /\ n \in Nat /\ new \in Seq(V) /\ Len(new) = n + 1
         /\ DOMAIN new = 1 .. n + 1 /\ DOMAIN line = 1 .. n
         /\ new[n + 1] = w /\ \A j \in 1 .. n : new[j] = line[j]
<1>1. n \in Nat /\ DOMAIN line = 1 .. n
  OBVIOUS
<1>2. new = Append(line, w)
  OBVIOUS
<1>3. /\ new \in Seq(V) /\ Len(new) = n + 1
      /\ new[n + 1] = w /\ \A j \in 1 .. n : new[j] = line[j]
  BY <1>1, <1>2
<1>4. DOMAIN new = 1 .. Len(new)
  BY <1>3
<1> QED
  BY <1>1, <1>3, <1>4

\* Two lines that have their first n words in common.
SameUpTo(new, line, n) == \A j \in 1 .. n : new[j] = line[j]

\* What is open up to a place inside a line stays so when a word is added.
LEMMA OpenInside ==
  ASSUME NEW n \in Nat, NEW line, NEW new, SameUpTo(new, line, n),
         NEW m \in 0 .. n, NEW open, NEW close
  PROVE  OpenUpTo(new, m, open, close) <=> OpenUpTo(line, m, open, close)
<1>1. \A j \in 1 .. m : j \in 1 .. n /\ \A k \in j + 1 .. m : k \in 1 .. n
  OBVIOUS
<1> QED
  BY <1>1 DEF OpenUpTo, SameUpTo

\* What is open behind the word.
LEMMA OpenBehind ==
  ASSUME NEW n \in Nat, NEW m, m = n + 1, NEW line, NEW new, NEW w, new[m] = w,
         SameUpTo(new, line, n),
         NEW open, NEW close, open # close
  PROVE  OpenUpTo(new, m, open, close) <=> (w = open \/ (w # close /\ OpenUpTo(line, n, open, close)))
<1>1. /\ \A j \in 1 .. m : j = m \/ j \in 1 .. n
      /\ \A j \in 1 .. n : j \in 1 .. m /\ m \in j + 1 .. m
      /\ \A j \in 1 .. n : \A k \in j + 1 .. n : k \in j + 1 .. m /\ k \in 1 .. n
      /\ \A j \in 1 .. n : \A k \in j + 1 .. m : k = m \/ k \in j + 1 .. n
      /\ m \in 1 .. m /\ m + 1 .. m = {}
  OBVIOUS
<1>2. ASSUME w = open PROVE OpenUpTo(new, m, open, close)
  BY <1>1, <1>2 DEF OpenUpTo
<1>3. ASSUME w # close, OpenUpTo(line, n, open, close) PROVE OpenUpTo(new, m, open, close)
  <2>1. PICK j \in 1 .. n : line[j] = open /\ \A k \in j + 1 .. n : line[k] # close
    BY <1>3 DEF OpenUpTo
  <2>2. new[j] = open /\ j \in 1 .. m
    BY <1>1, <2>1 DEF SameUpTo
  <2>3. \A k \in j + 1 .. m : new[k] # close
    BY <1>1, <1>3, <2>1 DEF SameUpTo
  <2> QED
    BY <2>2, <2>3 DEF OpenUpTo
<1>4. ASSUME OpenUpTo(new, m, open, close), w # open
      PROVE  w # close /\ OpenUpTo(line, n, open, close)
  <2>1. PICK j \in 1 .. m : new[j] = open /\ \A k \in j + 1 .. m : new[k] # close
    BY <1>4 DEF OpenUpTo
  <2>2. j \in 1 .. n
    BY <1>1, <1>4, <2>1
  <2>3. w # close
    BY <1>1, <2>1, <2>2
  <2>4. line[j] = open /\ \A k \in j + 1 .. n : line[k] # close
    BY <1>1, <2>1, <2>2 DEF SameUpTo
  <2> QED
    BY <2>2, <2>3, <2>4 DEF OpenUpTo
<1> QED
  BY <1>2, <1>3, <1>4

\* A word may come at the end of a line where the brackets stand as they do.
WordFits(w, in, out, open, close) ==
  \/ w \notin {open, close} /\ (out <=> in)
  \/ w = open /\ ~in /\ out
  \/ w = close /\ in /\ ~out

\* A word that fits keeps the brackets in turn.
LEMMA WordKeeps ==
  ASSUME NEW V, NEW line \in Seq(V), NEW w \in V, NEW open, NEW close, open # close,
         NEW in \in BOOLEAN, Bracketed(line, in, open, close), NEW out \in BOOLEAN, WordFits(w, in, out, open, close)
  PROVE  Bracketed(line \o <<w>>, out, open, close)
<1> DEFINE n == Len(line)
           new == line \o <<w>>
<1>1. /\ n \in Nat /\ Len(new) = n + 1 /\ DOMAIN new = 1 .. n + 1 /\ DOMAIN line = 1 .. n
      /\ new[n + 1] = w /\ \A j \in 1 .. n : new[j] = line[j]
  <2> HIDE DEF new, n
  <2>1. n = Len(line) /\ new = line \o <<w>>
    BY DEF new, n
  <2> QED
    BY <2>1, WordAdded
<1>2. n + 1 - 1 = n /\ \A i \in 1 .. n + 1 : i - 1 \in 0 .. n /\ (i = n + 1 \/ i \in 1 .. n)
  BY <1>1
<1>3. Alternate(line, open, close) /\ (in <=> OpenUpTo(line, n, open, close))
  BY DEF Bracketed
<1> HIDE DEF new, n
<1>4. OpenUpTo(new, Len(new), open, close) <=> (w = open \/ (w # close /\ OpenUpTo(line, n, open, close)))
  <2>1. n \in Nat /\ Len(new) = n + 1 /\ new[Len(new)] = w /\ SameUpTo(new, line, n)
    BY <1>1 DEF SameUpTo
  <2> QED
    BY <2>1, OpenBehind
<1>5. \A i \in 1 .. n + 1 : IsOpen(new, i, open, close) <=> OpenUpTo(line, i - 1, open, close)
  <2> SUFFICES ASSUME NEW i \in 1 .. n + 1
               PROVE  IsOpen(new, i, open, close) <=> OpenUpTo(line, i - 1, open, close)
    OBVIOUS
  <2>1. IsOpen(new, i, open, close) <=> OpenUpTo(new, i - 1, open, close)
    BY DEF IsOpen, OpenUpTo
  <2>2. i - 1 \in 0 .. n
    BY <1>2
  <2> QED
    BY <1>1, <2>1, <2>2, OpenInside DEF SameUpTo
<1>6. \A i \in 1 .. n : IsOpen(line, i, open, close) <=> OpenUpTo(line, i - 1, open, close)
  BY DEF IsOpen, OpenUpTo
<1>7. ASSUME NEW i \in 1 .. n + 1, new[i] \in {open, close}
      PROVE  new[i] = close <=> IsOpen(new, i, open, close)
  <2>1. CASE i = n + 1
    <3>1. new[i] = w
      BY <1>1, <2>1
    <3>2. i - 1 = n
      BY <1>1, <2>1
    <3>3. IsOpen(new, i, open, close) <=> OpenUpTo(line, n, open, close)
      BY <1>5, <3>2
    <3> QED
      BY <1>3, <1>7, <3>1, <3>3 DEF WordFits
  <2>2. CASE i \in 1 .. n
    BY <1>1, <1>3, <1>5, <1>6, <1>7, <2>2 DEF Alternate
  <2> QED
    BY <1>2, <2>1, <2>2
<1>8. Alternate(new, open, close)
  BY <1>1, <1>7 DEF Alternate
<1>9. out <=> OpenUpTo(new, Len(new), open, close)
  <2>1. out <=> (w = open \/ (w # close /\ OpenUpTo(line, n, open, close)))
    BY <1>3 DEF WordFits
  <2> QED
    BY <1>1, <1>4, <2>1
<1> QED
  BY <1>8, <1>9 DEF Bracketed, new

\* The words of a linker line, as far as the model tells them apart.
LinkWords == {"INPUT", "l", "L", "-lqaicrt", "-ldevRuntime",
              "--start-group", "--end-group", "--whole-archive", "--no-whole-archive"}
Linkers == [line : Seq(LinkWords), group : BOOLEAN, whole : BOOLEAN]

\* A linker that knows which brackets are open on its line.
LinkerOK(linker) ==
  /\ linker \in Linkers
  /\ Bracketed(linker.line, linker.group, "--start-group", "--end-group")
  /\ Bracketed(linker.line, linker.whole, "--whole-archive", "--no-whole-archive")

\* One more word.
LEMMA LinkerTakesWord ==
  ASSUME NEW linker, LinkerOK(linker), NEW w \in LinkWords, NEW new \in Linkers,
         new.line = linker.line \o <<w>>,
         WordFits(w, linker.group, new.group, "--start-group", "--end-group"),
         WordFits(w, linker.whole, new.whole, "--whole-archive", "--no-whole-archive")
  PROVE  LinkerOK(new)
<1>1. /\ linker.line \in Seq(LinkWords) /\ linker.group \in BOOLEAN /\ linker.whole \in BOOLEAN
      /\ new.group \in BOOLEAN /\ new.whole \in BOOLEAN
  BY DEF LinkerOK, Linkers
<1>2. Bracketed(new.line, new.group, "--start-group", "--end-group")
  <2>1. "--start-group" # "--end-group"
    OBVIOUS
  <2> QED
    BY <1>1, <2>1, WordKeeps DEF LinkerOK
<1>3. Bracketed(new.line, new.whole, "--whole-archive", "--no-whole-archive")
  <2>1. "--whole-archive" # "--no-whole-archive"
    OBVIOUS
  <2> QED
    BY <1>1, <2>1, WordKeeps DEF LinkerOK
<1> QED
  BY <1>2, <1>3 DEF LinkerOK

\* Emit changes the line only.
LEMMA EmitLine ==
  ASSUME NEW V, NEW linker \in [line : Seq(V), group : BOOLEAN, whole : BOOLEAN], NEW words \in Seq(V)
  PROVE  /\ Emit(linker, words) \in [line : Seq(V), group : BOOLEAN, whole : BOOLEAN]
         /\ Emit(linker, words).line = linker.line \o words
         /\ Emit(linker, words).group = linker.group
         /\ Emit(linker, words).whole = linker.whole
<1>1. linker.line \o words \in Seq(V)
  OBVIOUS
<1>2. /\ Emit(linker, words) \in [line : Seq(V), group : BOOLEAN, whole : BOOLEAN]
      /\ Emit(linker, words).line = linker.line \o words
  BY <1>1 DEF Emit
<1>3. Emit(linker, words).group = linker.group
  BY DEF Emit
<1>4. Emit(linker, words).whole = linker.whole
  BY DEF Emit
<1> QED
  BY <1>2, <1>3, <1>4

\* A bracket noted and a word emitted.
LEMMA MarkedLine ==
  ASSUME NEW linker \in Linkers, NEW b \in BOOLEAN, NEW w \in LinkWords
  PROVE  /\ Emit([linker EXCEPT !.group = b], <<w>>) \in Linkers
         /\ Emit([linker EXCEPT !.group = b], <<w>>).line = linker.line \o <<w>>
         /\ Emit([linker EXCEPT !.group = b], <<w>>).group = b
         /\ Emit([linker EXCEPT !.group = b], <<w>>).whole = linker.whole
         /\ Emit([linker EXCEPT !.whole = b], <<w>>) \in Linkers
         /\ Emit([linker EXCEPT !.whole = b], <<w>>).line = linker.line \o <<w>>
         /\ Emit([linker EXCEPT !.whole = b], <<w>>).group = linker.group
         /\ Emit([linker EXCEPT !.whole = b], <<w>>).whole = b
<1> DEFINE g == [linker EXCEPT !.group = b]
           h == [linker EXCEPT !.whole = b]
<1>1. <<w>> \in Seq(LinkWords)
  OBVIOUS
<1>2. g \in Linkers /\ g.line = linker.line /\ g.group = b /\ g.whole = linker.whole
  BY DEF Linkers
<1>3. h \in Linkers /\ h.line = linker.line /\ h.group = linker.group /\ h.whole = b
  BY DEF Linkers
<1> HIDE DEF g, h
<1>4. /\ Emit(g, <<w>>) \in Linkers /\ Emit(g, <<w>>).line = g.line \o <<w>>
      /\ Emit(g, <<w>>).group = g.group /\ Emit(g, <<w>>).whole = g.whole
  BY <1>1, <1>2, EmitLine DEF Linkers
<1>5. /\ Emit(h, <<w>>) \in Linkers /\ Emit(h, <<w>>).line = h.line \o <<w>>
      /\ Emit(h, <<w>>).group = h.group /\ Emit(h, <<w>>).whole = h.whole
  BY <1>1, <1>3, EmitLine DEF Linkers
<1> QED
  BY <1>2, <1>3, <1>4, <1>5 DEF g, h

\* The words that are not brackets.
Plain(w) ==
  /\ w \in LinkWords
  /\ w \notin {"--start-group", "--end-group", "--whole-archive", "--no-whole-archive"}

\* Plain words go on any line.
LEMMA PlainWordKeeps ==
  ASSUME NEW linker, LinkerOK(linker), NEW w, Plain(w)
  PROVE  LinkerOK(Emit(linker, <<w>>)) /\ Emit(linker, <<w>>).group = linker.group
<1> DEFINE new == Emit(linker, <<w>>)
<1>1. linker \in Linkers /\ w \in LinkWords /\ <<w>> \in Seq(LinkWords)
  BY DEF LinkerOK, Plain
<1>2. /\ new \in Linkers /\ new.line = linker.line \o <<w>>
      /\ new.group = linker.group /\ new.whole = linker.whole
  BY <1>1, EmitLine DEF Linkers
<1> HIDE DEF new
<1>3. /\ WordFits(w, linker.group, new.group, "--start-group", "--end-group")
      /\ WordFits(w, linker.whole, new.whole, "--whole-archive", "--no-whole-archive")
  BY <1>2 DEF WordFits, Plain
<1>4. LinkerOK(new)
  BY <1>1, <1>2, <1>3, LinkerTakesWord
<1> QED
  BY <1>2, <1>4 DEF new

\* The brackets are words.
LEMMA BracketWords ==
  /\ "--start-group" \in LinkWords /\ "--end-group" \in LinkWords
  /\ "--whole-archive" \in LinkWords /\ "--no-whole-archive" \in LinkWords
<1>1. "--start-group" \in LinkWords
  BY DEF LinkWords
<1>2. "--end-group" \in LinkWords
  BY DEF LinkWords
<1>3. "--whole-archive" \in LinkWords
  BY DEF LinkWords
<1>4. "--no-whole-archive" \in LinkWords
  BY DEF LinkWords
<1> QED
  BY <1>1, <1>2, <1>3, <1>4

\* A group is opened only when none is open, and closed only when one is.
LEMMA GroupsKeep ==
  ASSUME NEW linker, LinkerOK(linker)
  PROVE  /\ LinkerOK(StartGroup(linker)) /\ StartGroup(linker).group
         /\ LinkerOK(EndGroup(linker)) /\ ~EndGroup(linker).group
<1>1. linker \in Linkers /\ TRUE \in BOOLEAN /\ FALSE \in BOOLEAN
  BY DEF LinkerOK
<1>2. CASE linker.group
  <2> DEFINE new == Emit([linker EXCEPT !.group = FALSE], <<"--end-group">>)
  <2>1. StartGroup(linker) = linker
    BY <1>2 DEF StartGroup
  <2>2. EndGroup(linker) = new
    BY <1>2 DEF EndGroup
  <2>3. /\ new \in Linkers /\ new.line = linker.line \o <<"--end-group">>
        /\ new.group = FALSE /\ new.whole = linker.whole
    BY <1>1, BracketWords, MarkedLine
  <2> HIDE DEF new
  <2>4. WordFits("--end-group", linker.group, new.group, "--start-group", "--end-group")
    BY <1>2, <2>3 DEF WordFits
  <2>5. WordFits("--end-group", linker.whole, new.whole, "--whole-archive", "--no-whole-archive")
    BY <2>3 DEF WordFits
  <2>6. LinkerOK(new)
    BY <2>3, <2>4, <2>5, BracketWords, LinkerTakesWord
  <2> QED
    BY <1>2, <2>1, <2>2, <2>3, <2>6
<1>3. CASE ~linker.group
  <2> DEFINE new == Emit([linker EXCEPT !.group = TRUE], <<"--start-group">>)
  <2>1. EndGroup(linker) = linker
    BY <1>3 DEF EndGroup
  <2>2. StartGroup(linker) = new
    BY <1>3 DEF StartGroup
  <2>3. /\ new \in Linkers /\ new.line = linker.line \o <<"--start-group">>
        /\ new.group = TRUE /\ new.whole = linker.whole
    BY <1>1, BracketWords, MarkedLine
  <2> HIDE DEF new
  <2>4. WordFits("--start-group", linker.group, new.group, "--start-group", "--end-group")
    BY <1>3, <2>3 DEF WordFits
  <2>5. WordFits("--start-group", linker.whole, new.whole, "--whole-archive", "--no-whole-archive")
    BY <2>3 DEF WordFits
  <2>6. LinkerOK(new)
    BY <2>3, <2>4, <2>5, BracketWords, LinkerTakesWord
  <2> QED
    BY <1>3, <2>1, <2>2, <2>3, <2>6
<1> QED
  BY <1>2, <1>3

\* The same for whole archives.
LEMMA ArchivesKeep ==
  ASSUME NEW linker, LinkerOK(linker)
  PROVE  LinkerOK(StartWholeArchive(linker)) /\ LinkerOK(EndWholeArchive(linker))
<1>1. linker \in Linkers /\ TRUE \in BOOLEAN /\ FALSE \in BOOLEAN
  BY DEF LinkerOK
<1>2. CASE linker.whole
  <2> DEFINE new == Emit([linker EXCEPT !.whole = FALSE], <<"--no-whole-archive">>)
  <2>1. StartWholeArchive(linker) = linker
    BY <1>2 DEF StartWholeArchive
  <2>2. EndWholeArchive(linker) = new
    BY <1>2 DEF EndWholeArchive
  <2>3. /\ new \in Linkers /\ new.line = linker.line \o <<"--no-whole-archive">>
        /\ new.whole = FALSE /\ new.group = linker.group
    BY <1>1, BracketWords, MarkedLine
  <2> HIDE DEF new
  <2>4. WordFits("--no-whole-archive", linker.whole, new.whole, "--whole-archive", "--no-whole-archive")
    BY <1>2, <2>3 DEF WordFits
  <2>5. WordFits("--no-whole-archive", linker.group, new.group, "--start-group", "--end-group")
    BY <2>3 DEF WordFits
  <2>6. LinkerOK(new)
    BY <2>3, <2>4, <2>5, BracketWords, LinkerTakesWord
  <2> QED
    BY <1>2, <2>1, <2>2, <2>3, <2>6
<1>3. CASE ~linker.whole
  <2> DEFINE new == Emit([linker EXCEPT !.whole = TRUE], <<"--whole-archive">>)
  <2>1. EndWholeArchive(linker) = linker
    BY <1>3 DEF EndWholeArchive
  <2>2. StartWholeArchive(linker) = new
    BY <1>3 DEF StartWholeArchive
  <2>3. /\ new \in Linkers /\ new.line = linker.line \o <<"--whole-archive">>
        /\ new.whole = TRUE /\ new.group = linker.group
    BY <1>1, BracketWords, MarkedLine
  <2> HIDE DEF new
  <2>4. WordFits("--whole-archive", linker.whole, new.whole, "--whole-archive", "--no-whole-archive")
    BY <1>3, <2>3 DEF WordFits
  <2>5. WordFits("--whole-archive", linker.group, new.group, "--start-group", "--end-group")
    BY <2>3 DEF WordFits
  <2>6. LinkerOK(new)
    BY <2>3, <2>4, <2>5, BracketWords, LinkerTakesWord
  <2> QED
    BY <1>3, <2>1, <2>2, <2>3, <2>6
<1> QED
  BY <1>2, <1>3

\* Inputs and libraries are plain words.
LEMMA PlainNames == Plain("INPUT") /\ Plain("l") /\ Plain("L")
<1>1. "INPUT" \in LinkWords
  BY DEF LinkWords
<1>2. "l" \in LinkWords
  BY DEF LinkWords
<1>3. "L" \in LinkWords
  BY DEF LinkWords
<1> QED
  BY <1>1, <1>2, <1>3 DEF Plain

\* Whatever the driver's next argument is, the brackets stay in turn (TakeLinkOption).
LEMMA OptionKeeps ==
  ASSUME NEW linker, LinkerOK(linker), NEW o
  PROVE  LinkerOK(TakeLinkOption(linker, o))
<1>1. CASE o.name \in {"INPUT", "l"}
  <2>1. TakeLinkOption(linker, o) = Emit(linker, <<o.name>>)
    BY <1>1 DEF TakeLinkOption
  <2>2. Plain(o.name)
    BY <1>1, PlainNames
  <2> QED
    BY <2>1, <2>2, PlainWordKeeps
<1>2. CASE o.name \notin {"INPUT", "l"}
  <2>1. TakeLinkOption(linker, o) \in
          {StartWholeArchive(linker), EndWholeArchive(linker), StartGroup(linker), EndGroup(linker), linker}
    BY <1>2 DEF TakeLinkOption
  <2> QED
    BY <2>1, GroupsKeep, ArchivesKeep
<1> QED
  BY <1>1, <1>2

\* EmitLine for the words the model knows.
LEMMA LinkerEmits ==
  ASSUME NEW linker \in Linkers, NEW words \in Seq(LinkWords)
  PROVE  /\ Emit(linker, words) \in Linkers /\ Emit(linker, words).line = linker.line \o words
         /\ Emit(linker, words).group = linker.group /\ Emit(linker, words).whole = linker.whole
  BY EmitLine DEF Linkers

\* What is said of an option.
OptionType == [name : STRING, values : SUBSET STRING]
GoodLinkers == {linker \in Linkers : LinkerOK(linker)}

\* The linkers between the options, by recursion (AfterLinkOptions).
LinkersOf(first, options) ==
  CHOOSE f : f = [i \in 0 .. Len(options) |-> IF i = 0 THEN first ELSE TakeLinkOption(f[i - 1], options[i])]

\* The last of them has its brackets in turn.
LEMMA LastLinker ==
  ASSUME NEW options \in Seq(OptionType), NEW first, LinkerOK(first)
  PROVE  LinkerOK(AfterLinkOptions(first, options))
<1> DEFINE n == Len(options)
           step == [x \in GoodLinkers \X Nat |-> TakeLinkOption(x[1], options[x[2]])]
           Solves(f) == f = [i \in 0 .. n |-> IF i = 0 THEN first ELSE TakeLinkOption(f[i - 1], options[i])]
<1>1. n \in Nat
  OBVIOUS
<1> HIDE DEF n
<1>2. \A linker : LinkerOK(linker) <=> linker \in GoodLinkers
  BY DEF GoodLinkers, LinkerOK
<1>3. step \in [GoodLinkers \X Nat -> GoodLinkers]
  <2>1. ASSUME NEW x \in GoodLinkers \X Nat PROVE TakeLinkOption(x[1], options[x[2]]) \in GoodLinkers
    <3>1. LinkerOK(x[1])
      BY <1>2
    <3> QED
      BY <1>2, <3>1, OptionKeeps
  <2> QED
    BY <2>1
<1>4. ASSUME NEW linker \in GoodLinkers, NEW i \in 1 .. n PROVE step[<<linker, i>>] = TakeLinkOption(linker, options[i])
  <2>1. <<linker, i>> \in GoodLinkers \X Nat
    BY <1>1
  <2> QED
    BY <2>1
<1> HIDE DEF step
<1>5. PICK g \in [0 .. n -> GoodLinkers] : DefinedFromZero(g, n, first, step)
  BY <1>1, <1>2, <1>3, RecursionFromZero
<1>6. \A i \in 0 .. n : g[i] = IF i = 0 THEN first ELSE TakeLinkOption(g[i - 1], options[i])
  <2> TAKE i \in 0 .. n
  <2>1. CASE i = 0
    BY <1>5, <2>1 DEF DefinedFromZero
  <2>2. CASE i # 0
    <3>1. i \in 1 .. n /\ i - 1 \in 0 .. n
      BY <1>1, <2>2
    <3>2. g[i] = step[<<g[i - 1], i>>] /\ g[i - 1] \in GoodLinkers
      BY <1>5, <3>1 DEF DefinedFromZero
    <3> QED
      BY <1>4, <2>2, <3>1, <3>2
  <2> QED
    BY <2>1, <2>2
<1>7. Solves(g)
  BY <1>6
<1>8. ASSUME NEW f, Solves(f) PROVE LinkerOK(f[n])
  <2> DEFINE S == {i \in Nat : LinkerOK(f[i])}
  <2>1. \A i \in 0 .. n : f[i] = IF i = 0 THEN first ELSE TakeLinkOption(f[i - 1], options[i])
    BY <1>8
  <2>2. 0 \in 0 .. n /\ n \in 0 .. n /\ \A i \in 1 .. n : i \in 0 .. n /\ i # 0 /\ i \in Nat
    BY <1>1
  <2>3. 0 \in S
    BY <2>1, <2>2
  <2>4. ASSUME NEW i \in 1 .. n, i - 1 \in S PROVE i \in S
    <3>1. f[i] = TakeLinkOption(f[i - 1], options[i])
      BY <2>1, <2>2
    <3> QED
      BY <2>2, <2>4, <3>1, OptionKeeps
  <2> HIDE DEF S
  <2>5. 0 .. n \subseteq S
    BY <1>1, <2>3, <2>4, FromZero
  <2> QED
    BY <2>2, <2>5 DEF S
<1>9. Solves(CHOOSE f : Solves(f))
  BY <1>7
<1>10. (CHOOSE f : Solves(f)) = LinkersOf(first, options)
  BY DEF LinkersOf, n
<1>11. AfterLinkOptions(first, options) = LinkersOf(first, options)[n]
  BY DEF AfterLinkOptions, LinkersOf, n
<1> HIDE DEF Solves
<1> QED
  BY <1>8, <1>9, <1>10, <1>11

\* A line of plain words has nothing open.
LEMMA PlainLine ==
  ASSUME NEW line \in Seq({"L"}), NEW linker \in Linkers, linker.line = line, ~linker.group, ~linker.whole
  PROVE  LinkerOK(linker)
<1>1. \A i \in DOMAIN line : line[i] = "L"
  OBVIOUS
<1>2. DOMAIN line = 1 .. Len(line) /\ Len(line) \in Nat
  OBVIOUS
<1>3. Bracketed(line, FALSE, "--start-group", "--end-group")
  BY <1>1, <1>2 DEF Bracketed, Alternate, OpenUpTo
<1>4. Bracketed(line, FALSE, "--whole-archive", "--no-whole-archive")
  BY <1>1, <1>2 DEF Bracketed, Alternate, OpenUpTo
<1>5. linker.group = FALSE /\ linker.whole = FALSE
  BY DEF Linkers
<1> QED
  BY <1>3, <1>4, <1>5 DEF LinkerOK

\* Where the line starts: the library paths.
LEMMA FirstLinker ==
  ASSUME NEW options \in Seq(OptionType)
  PROVE  LET paths == [k \in 1 .. Cardinality({i \in DOMAIN options : options[i].name = "L"}) |-> "L"]
             defaults == IF Has(options, "no-defaultlib-paths") THEN <<>> ELSE <<"L">>
         IN LinkerOK(Emit(NewLinker, defaults \o paths))
<1> DEFINE asked == {i \in DOMAIN options : options[i].name = "L"}
           paths == [k \in 1 .. Cardinality(asked) |-> "L"]
           defaults == IF Has(options, "no-defaultlib-paths") THEN <<>> ELSE <<"L">>
<1>1. Cardinality(asked) \in Nat
  <2>1. DOMAIN options = 1 .. Len(options) /\ Len(options) \in Nat
    OBVIOUS
  <2>2. IsFiniteSet(DOMAIN options)
    BY <2>1, FS_Interval
  <2>3. IsFiniteSet(asked)
    BY <2>2, FS_Subset
  <2> QED
    BY <2>3, FS_CardinalityType
<1> HIDE DEF asked
<1>2. paths \in Seq({"L"})
  BY <1>1
<1>3. defaults \in Seq({"L"})
  <2>1. <<>> \in Seq({"L"})
    OBVIOUS
  <2>2. <<"L">> \in Seq({"L"})
    OBVIOUS
  <2> QED
    BY <2>1, <2>2
<1> HIDE DEF paths, defaults
<1>4. defaults \o paths \in Seq({"L"})
  BY <1>2, <1>3
<1> DEFINE words == defaults \o paths
<1> HIDE DEF words
<1>5. words \in Seq({"L"}) /\ words \in Seq(LinkWords) /\ <<>> \o words = words
  <2>1. words \in Seq({"L"})
    BY <1>4 DEF words
  <2>2. {"L"} \subseteq LinkWords
    BY DEF LinkWords
  <2>3. words \in Seq(LinkWords)
    BY <2>1, <2>2
  <2> QED
    BY <2>1, <2>3
<1>6. NewLinker \in Linkers /\ NewLinker.line = <<>> /\ ~NewLinker.group /\ ~NewLinker.whole
  BY DEF NewLinker, Linkers
<1> DEFINE new == Emit(NewLinker, words)
<1>7. new \in Linkers /\ new.line = words /\ ~new.group /\ ~new.whole
  <2>1. /\ new \in Linkers /\ new.line = NewLinker.line \o words
        /\ new.group = NewLinker.group /\ new.whole = NewLinker.whole
    BY <1>5, <1>6, LinkerEmits
  <2> HIDE DEF new
  <2> QED
    BY <1>5, <1>6, <2>1
<1> HIDE DEF new
<1>8. LinkerOK(new)
  BY <1>5, <1>7, PlainLine
<1> QED
  BY <1>8 DEF new, words, paths, defaults, asked

\* The runtime is two plain words.
LEMMA RuntimeWords ==
  ASSUME NEW linker, LinkerOK(linker), linker.group
  PROVE  LinkerOK(Emit(linker, <<"-lqaicrt", "-ldevRuntime">>)) /\ Emit(linker, <<"-lqaicrt", "-ldevRuntime">>).group
<1> DEFINE one == Emit(linker, <<"-lqaicrt">>)
           two == Emit(one, <<"-ldevRuntime">>)
           both == Emit(linker, <<"-lqaicrt", "-ldevRuntime">>)
<1>1. Plain("-lqaicrt") /\ Plain("-ldevRuntime")
  BY DEF Plain, LinkWords
<1>2. LinkerOK(one) /\ one.group
  BY <1>1, PlainWordKeeps
<1> HIDE DEF one
<1>3. LinkerOK(two) /\ two.group
  BY <1>1, <1>2, PlainWordKeeps
<1>4. /\ "-lqaicrt" \in LinkWords /\ "-ldevRuntime" \in LinkWords
      /\ linker \in Linkers /\ linker.line \in Seq(LinkWords) /\ one \in Linkers
  BY <1>2 DEF LinkWords, LinkerOK, Linkers
<1>5. /\ <<"-lqaicrt">> \in Seq(LinkWords) /\ <<"-ldevRuntime">> \in Seq(LinkWords)
      /\ <<"-lqaicrt", "-ldevRuntime">> \in Seq(LinkWords)
  BY <1>4
<1>6. /\ one.line = linker.line \o <<"-lqaicrt">>
      /\ one.group = linker.group /\ one.whole = linker.whole
  BY <1>4, <1>5, EmitLine DEF one, Linkers
<1>7. /\ two.line = one.line \o <<"-ldevRuntime">>
      /\ two.group = one.group /\ two.whole = one.whole
  BY <1>4, <1>5, LinkerEmits
<1>8. /\ both \in Linkers
      /\ both.line = linker.line \o <<"-lqaicrt", "-ldevRuntime">>
      /\ both.group = linker.group /\ both.whole = linker.whole
  BY <1>4, <1>5, LinkerEmits
<1>9. linker.line \o <<"-lqaicrt", "-ldevRuntime">> = (linker.line \o <<"-lqaicrt">>) \o <<"-ldevRuntime">>
  <2> DEFINE line == linker.line
  <2>1. line \in Seq(LinkWords)
    BY <1>4
  <2> HIDE DEF line
  <2>2. ASSUME NEW V, NEW a \in V, NEW b \in V, NEW s \in Seq(V)
        PROVE  s \o <<a, b>> = (s \o <<a>>) \o <<b>>
    <3>1. <<a>> \in Seq(V) /\ <<b>> \in Seq(V) /\ <<a, b>> = <<a>> \o <<b>>
      <4> DEFINE x == <<a>>
                 y == <<b>>
                 z == <<a, b>>
      <4>1. x \in Seq(V) /\ Len(x) = 1 /\ x[1] = a
        OBVIOUS
      <4>2. y \in Seq(V) /\ Len(y) = 1 /\ y[1] = b
        OBVIOUS
      <4>3. z \in Seq(V) /\ Len(z) = 2 /\ z[1] = a /\ z[2] = b
        OBVIOUS
      <4> HIDE DEF x, y, z
      <4>4. /\ x \o y \in Seq(V) /\ Len(x \o y) = 2
            /\ (x \o y)[1] = a /\ (x \o y)[2] = b
        <5>1. /\ x \o y \in Seq(V) /\ Len(x \o y) = Len(x) + Len(y)
              /\ \A i \in 1 .. Len(x) + Len(y) : (x \o y)[i] = IF i <= Len(x) THEN x[i] ELSE y[i - Len(x)]
          BY <4>1, <4>2, ConcatProperties
        <5>2. Len(x) + Len(y) = 2 /\ 1 \in 1 .. 2 /\ 2 \in 1 .. 2 /\ 1 <= 1 /\ ~(2 <= 1) /\ 2 - 1 = 1
          BY <4>1, <4>2
        <5> QED
          BY <4>1, <4>2, <5>1, <5>2
      <4>5. \A i \in 1 .. 2 : i = 1 \/ i = 2
        OBVIOUS
      <4>6. \A i \in 1 .. Len(z) : z[i] = (x \o y)[i]
        BY <4>3, <4>4, <4>5
      <4>7. z = x \o y
        BY <4>3, <4>4, <4>6, SeqEqual
      <4> QED
        BY <4>1, <4>2, <4>7 DEF x, y, z
    <3> QED
      BY <3>1, ConcatAssociative
  <2> QED
    BY <1>4, <2>1, <2>2 DEF line
<1> HIDE DEF two, both
<1>10. both.line = two.line /\ both.group = two.group /\ both.whole = two.whole
  BY <1>6, <1>7, <1>8, <1>9
<1>11. LinkerOK(both) /\ both.group
  BY <1>3, <1>8, <1>10 DEF LinkerOK
<1> QED
  BY <1>11 DEF both

\* The line the linker gets (LinkLine).
LEMMA LineInTurn ==
  ASSUME NEW options \in Seq(OptionType)
  PROVE  LET line == LinkCommand(options).line
         IN /\ Alternate(line, "--start-group", "--end-group")
            /\ Alternate(line, "--whole-archive", "--no-whole-archive")
            /\ ~IsOpen(line, Len(line) + 1, "--start-group", "--end-group")
<1> DEFINE paths == [k \in 1 .. Cardinality({i \in DOMAIN options : options[i].name = "L"}) |-> "L"]
           defaults == IF Has(options, "no-defaultlib-paths") THEN <<>> ELSE <<"L">>
           first == Emit(NewLinker, defaults \o paths)
           asked == AfterLinkOptions(first, options)
           open == StartGroup(asked)
           runtime == Emit(open, <<"-lqaicrt", "-ldevRuntime">>)
           end == EndGroup(runtime)
<1>1. LinkerOK(first)
  BY FirstLinker
<1>2. LinkLine(options) = end.line
  BY DEF LinkLine
<1> HIDE DEF first
<1>3. LinkerOK(asked)
  BY <1>1, LastLinker
<1> HIDE DEF asked
<1>4. LinkerOK(open) /\ open.group
  BY <1>3, GroupsKeep
<1> HIDE DEF open
<1>5. LinkerOK(runtime) /\ runtime.group
  BY <1>4, RuntimeWords
<1> HIDE DEF runtime
<1>6. LinkerOK(end) /\ ~end.group
  BY <1>5, GroupsKeep
<1> HIDE DEF end
<1>7. LinkCommand(options).line = end.line
  BY <1>2 DEF LinkCommand
<1> DEFINE line == end.line
<1>8. /\ Alternate(line, "--start-group", "--end-group")
      /\ Alternate(line, "--whole-archive", "--no-whole-archive")
      /\ ~OpenUpTo(line, Len(line), "--start-group", "--end-group")
      /\ Len(line) \in Nat
  BY <1>6 DEF LinkerOK, Bracketed, Linkers
<1> HIDE DEF line
<1>9. ~IsOpen(line, Len(line) + 1, "--start-group", "--end-group")
  <2>1. Len(line) + 1 - 1 = Len(line)
    BY <1>8
  <2> QED
    BY <1>8, <2>1 DEF IsOpen, OpenUpTo
<1> QED
  BY <1>7, <1>8, <1>9 DEF line

\* A compiler's settings.
MacroType == [define : SUBSET STRING]
Compilers == [level : OptLevels, debug : BOOLEAN, macros : Seq(MacroType)]

\* The settings say what the first i options ask for.
CompilerFits(compiler, options, i) ==
  /\ compiler \in Compilers
  /\ compiler.debug <=> \E j \in 1 .. i : options[j].name = "g"
  /\ (\E j \in 1 .. i : options[j].name \in OptLevels) =>
       \E j \in 1 .. i : /\ options[j].name \in OptLevels /\ compiler.level = options[j].name
                         /\ \A k \in 1 .. i : options[k].name \in OptLevels => k <= j

\* One more macro.
LEMMA MacroAdded ==
  ASSUME NEW V, NEW s \in Seq(V), NEW v \in V
  PROVE  Append(s, v) \in Seq(V)
  OBVIOUS

\* What an option changes (TakeCompileOption).
LEMMA CompilerTakesOption ==
  ASSUME NEW compiler \in Compilers, NEW o \in OptionType
  PROVE  /\ TakeCompileOption(compiler, o) \in Compilers
         /\ TakeCompileOption(compiler, o).level = (IF o.name \in OptLevels THEN o.name ELSE compiler.level)
         /\ TakeCompileOption(compiler, o).debug <=> (compiler.debug \/ o.name = "g")
<1>1. CASE o.name \in OptLevels
  <2> DEFINE new == [compiler EXCEPT !.level = o.name]
  <2>1. o.name \notin {"g", "D", "U"}
    BY <1>1 DEF OptLevels
  <2>2. TakeCompileOption(compiler, o) = new
    BY <1>1, <2>1 DEF TakeCompileOption
  <2>3. new \in Compilers /\ new.level = o.name /\ new.debug = compiler.debug
    BY <1>1 DEF Compilers
  <2> HIDE DEF new
  <2> QED
    BY <1>1, <2>1, <2>2, <2>3
<1>2. CASE o.name = "g"
  <2> DEFINE new == [compiler EXCEPT !.debug = TRUE]
  <2>1. o.name \notin OptLevels
    BY <1>2 DEF OptLevels
  <2>2. TakeCompileOption(compiler, o) = new
    BY <1>2, <2>1 DEF TakeCompileOption
  <2>3. new \in Compilers /\ new.level = compiler.level /\ new.debug
    BY DEF Compilers
  <2> HIDE DEF new
  <2> QED
    BY <1>2, <2>1, <2>2, <2>3
<1>3. CASE o.name \in {"D", "U"}
  <2> DEFINE macros == Append(compiler.macros, [define |-> o.values])
             new == [compiler EXCEPT !.macros = macros]
  <2>1. o.name \notin OptLevels /\ o.name # "g"
    BY <1>3 DEF OptLevels
  <2>2. TakeCompileOption(compiler, o) = new
    BY <1>3, <2>1 DEF TakeCompileOption
  <2>3. macros \in Seq(MacroType)
    <3>1. [define |-> o.values] \in MacroType
      BY DEF OptionType, MacroType
    <3>2. compiler.macros \in Seq(MacroType)
      BY DEF Compilers
    <3> QED
      BY <3>1, <3>2, MacroAdded
  <2> HIDE DEF macros
  <2>4. new \in Compilers /\ new.level = compiler.level /\ new.debug = compiler.debug
    BY <2>3 DEF Compilers
  <2> HIDE DEF new
  <2> QED
    BY <2>1, <2>2, <2>4
<1>4. CASE o.name \notin OptLevels \union {"g", "D", "U"}
  <2>1. TakeCompileOption(compiler, o) = compiler
    BY <1>4 DEF TakeCompileOption
  <2> QED
    BY <1>4, <2>1
<1> QED
  BY <1>1, <1>2, <1>3, <1>4

\* The next option keeps the settings true to the options.
LEMMA OptionFits ==
  ASSUME NEW n \in Nat, NEW options, \A j \in 1 .. n : options[j] \in OptionType,
         NEW i \in 1 .. n, NEW compiler, CompilerFits(compiler, options, i - 1)
  PROVE  CompilerFits(TakeCompileOption(compiler, options[i]), options, i)
<1> DEFINE o == options[i]
           new == TakeCompileOption(compiler, o)
<1>1. compiler \in Compilers /\ o \in OptionType
  BY DEF CompilerFits
<1>2. /\ new \in Compilers
      /\ new.level = (IF o.name \in OptLevels THEN o.name ELSE compiler.level)
      /\ new.debug <=> (compiler.debug \/ o.name = "g")
  BY <1>1, CompilerTakesOption
<1> HIDE DEF new
<1>3. /\ i \in 1 .. i /\ \A j \in 1 .. i : (j = i \/ j \in 1 .. i - 1) /\ j <= i
      /\ \A j \in 1 .. i - 1 : j \in 1 .. i
  OBVIOUS
<1>4. new.debug <=> \E j \in 1 .. i : options[j].name = "g"
  BY <1>2, <1>3 DEF CompilerFits
<1>5. ASSUME \E j \in 1 .. i : options[j].name \in OptLevels
      PROVE  \E j \in 1 .. i : /\ options[j].name \in OptLevels /\ new.level = options[j].name
                               /\ \A k \in 1 .. i : options[k].name \in OptLevels => k <= j
  <2>1. CASE o.name \in OptLevels
    BY <1>2, <1>3, <2>1
  <2>2. CASE o.name \notin OptLevels
    <3>1. \E j \in 1 .. i - 1 : options[j].name \in OptLevels
      BY <1>3, <1>5, <2>2
    <3>2. PICK j \in 1 .. i - 1 : /\ options[j].name \in OptLevels /\ compiler.level = options[j].name
                                  /\ \A k \in 1 .. i - 1 : options[k].name \in OptLevels => k <= j
      BY <3>1 DEF CompilerFits
    <3>3. \A k \in 1 .. i : options[k].name \in OptLevels => k <= j
      BY <1>3, <2>2, <3>2
    <3>4. j \in 1 .. i /\ new.level = options[j].name
      BY <1>2, <1>3, <2>2, <3>2
    <3> QED
      BY <3>2, <3>3, <3>4
  <2> QED
    BY <2>1, <2>2
<1> QED
  BY <1>2, <1>4, <1>5 DEF CompilerFits, new

\* The settings between the options, by recursion (CompilerAfter).
CompilersOf(options) ==
  CHOOSE f : f = [i \in 0 .. Len(options) |-> IF i = 0 THEN NewCompiler ELSE TakeCompileOption(f[i - 1], options[i])]

\* The last of them say what all options ask for.
LEMMA LastCompiler ==
  ASSUME NEW options \in Seq(OptionType)
  PROVE  CompilerFits(CompilersOf(options)[Len(options)], options, Len(options))
<1> DEFINE n == Len(options)
           step == [x \in Compilers \X Nat |-> IF x[2] \in 1 .. n THEN TakeCompileOption(x[1], options[x[2]]) ELSE x[1]]
           Solves(f) == f = [i \in 0 .. n |-> IF i = 0 THEN NewCompiler ELSE TakeCompileOption(f[i - 1], options[i])]
<1>1. n \in Nat /\ \A j \in 1 .. n : options[j] \in OptionType
  OBVIOUS
<1>2. CompilerFits(NewCompiler, options, 0)
  <2>1. <<>> \in Seq(MacroType) /\ "O1" \in OptLevels
    BY DEF OptLevels
  <2>2. NewCompiler \in Compilers /\ NewCompiler.debug = FALSE
    BY <2>1 DEF NewCompiler, Compilers
  <2>3. 1 .. 0 = {}
    OBVIOUS
  <2> QED
    BY <2>2, <2>3 DEF CompilerFits
<1> HIDE DEF n
<1>3. step \in [Compilers \X Nat -> Compilers]
  <2>1. ASSUME NEW x \in Compilers \X Nat
        PROVE  (IF x[2] \in 1 .. n THEN TakeCompileOption(x[1], options[x[2]]) ELSE x[1]) \in Compilers
    <3>1. x[1] \in Compilers
      OBVIOUS
    <3>2. CASE x[2] \in 1 .. n
      BY <1>1, <3>1, <3>2, CompilerTakesOption
    <3> QED
      BY <3>1, <3>2
  <2> QED
    BY <2>1
<1>4. ASSUME NEW c \in Compilers, NEW i \in 1 .. n PROVE step[<<c, i>>] = TakeCompileOption(c, options[i])
  <2>1. <<c, i>> \in Compilers \X Nat
    BY <1>1
  <2> QED
    BY <2>1
<1> HIDE DEF step
<1>5. NewCompiler \in Compilers
  BY <1>2 DEF CompilerFits
<1>6. PICK g \in [0 .. n -> Compilers] : DefinedFromZero(g, n, NewCompiler, step)
  BY <1>1, <1>3, <1>5, RecursionFromZero
<1>7. \A i \in 0 .. n : g[i] = IF i = 0 THEN NewCompiler ELSE TakeCompileOption(g[i - 1], options[i])
  <2> TAKE i \in 0 .. n
  <2>1. CASE i = 0
    BY <1>6, <2>1 DEF DefinedFromZero
  <2>2. CASE i # 0
    <3>1. i \in 1 .. n /\ i - 1 \in 0 .. n
      BY <1>1, <2>2
    <3>2. g[i] = step[<<g[i - 1], i>>] /\ g[i - 1] \in Compilers
      BY <1>6, <3>1 DEF DefinedFromZero
    <3> QED
      BY <1>4, <2>2, <3>1, <3>2
  <2> QED
    BY <2>1, <2>2
<1>8. Solves(g)
  BY <1>7
<1>9. ASSUME NEW f, Solves(f) PROVE CompilerFits(f[n], options, n)
  <2> DEFINE S == {i \in Nat : CompilerFits(f[i], options, i)}
  <2>1. \A i \in 0 .. n : f[i] = IF i = 0 THEN NewCompiler ELSE TakeCompileOption(f[i - 1], options[i])
    BY <1>9
  <2>2. 0 \in 0 .. n /\ n \in 0 .. n /\ \A i \in 1 .. n : i \in 0 .. n /\ i # 0 /\ i \in Nat
    BY <1>1
  <2>3. 0 \in S
    BY <1>2, <2>1, <2>2
  <2>4. ASSUME NEW i \in 1 .. n, i - 1 \in S PROVE i \in S
    <3>1. f[i] = TakeCompileOption(f[i - 1], options[i])
      BY <2>1, <2>2
    <3>2. CompilerFits(f[i - 1], options, i - 1)
      BY <2>4
    <3>3. CompilerFits(f[i], options, i)
      BY <1>1, <3>1, <3>2, OptionFits
    <3> QED
      BY <2>2, <3>3
  <2> HIDE DEF S
  <2>5. 0 .. n \subseteq S
    BY <1>1, <2>3, <2>4, FromZero
  <2> QED
    BY <2>2, <2>5 DEF S
<1>10. Solves(CHOOSE f : Solves(f))
  BY <1>8
<1>11. (CHOOSE f : Solves(f)) = CompilersOf(options)
  BY DEF CompilersOf, n
<1> HIDE DEF Solves
<1> QED
  BY <1>9, <1>10, <1>11 DEF n

\* The settings in a compiler command (CompileCommand): -g0 wins over all of -g.
LEMMA CommandFits ==
  ASSUME NEW source, NEW options \in Seq(OptionType)
  PROVE  LET command == CompileCommand(source, options)
             levels == {i \in DOMAIN options : options[i].name \in OptLevels}
         IN /\ command.std # {} => command.tool = "clang++"
            /\ levels # {} => \E i \in levels :
                 command.level = options[i].name /\ \A j \in levels : j <= i
            /\ command.debug = (Has(options, "g") /\ ~Has(options, "g0"))
<1> DEFINE n == Len(options)
           last == CompilersOf(options)[Len(options)]
           settings == CompilerAfter(options)
           command == CompileCommand(source, options)
           levels == {i \in DOMAIN options : options[i].name \in OptLevels}
<1>1. n \in Nat /\ DOMAIN options = 1 .. n
  OBVIOUS
<1>2. CompilerFits(last, options, n)
  BY LastCompiler
<1>3. settings = [last EXCEPT !.debug = last.debug /\ ~Has(options, "g0")]
  BY DEF CompilerAfter, CompilersOf
<1>4. Has(options, "g0") \in BOOLEAN /\ last \in Compilers
  BY <1>2 DEF Has, CompilerFits
<1> HIDE DEF last
<1>5. settings.level = last.level /\ settings.debug = (last.debug /\ ~Has(options, "g0"))
  BY <1>3, <1>4 DEF Compilers
<1>6. /\ command.level = settings.level /\ command.debug = settings.debug
      /\ command.tool = CompilerFor(source) /\ command.std = StandardPassed(source, options)
  BY DEF CompileCommand
<1> HIDE DEF settings, command, n
<1>7. command.std # {} => command.tool = "clang++"
  BY <1>6 DEF StandardPassed
<1>8. ASSUME levels # {}
      PROVE  \E i \in levels : command.level = options[i].name /\ \A j \in levels : j <= i
  <2>1. \E j \in 1 .. n : options[j].name \in OptLevels
    BY <1>1, <1>8
  <2>2. PICK i \in 1 .. n : /\ options[i].name \in OptLevels /\ last.level = options[i].name
                            /\ \A k \in 1 .. n : options[k].name \in OptLevels => k <= i
    BY <1>2, <2>1 DEF CompilerFits
  <2> QED
    BY <1>1, <1>5, <1>6, <2>2
<1>9. command.debug = (Has(options, "g") /\ ~Has(options, "g0"))
  <2>1. Has(options, "g") <=> last.debug
    BY <1>1, <1>2 DEF Has, CompilerFits
  <2>2. last.debug \in BOOLEAN /\ Has(options, "g") \in BOOLEAN
    BY <1>4 DEF Compilers, Has
  <2> QED
    BY <1>5, <1>6, <2>1, <2>2
<1> QED
  BY <1>7, <1>8, <1>9 DEF command

-----------------------------------------------------------------------------
(* What the tools are asked to do.                                         *)

\* The command lines of a driver follow its options, whatever it was given.
LEMMA CommandsFollow ==
  ASSUME IInv
  PROVE  CommandsFollowOptions
<1> SUFFICES ASSUME NEW p \in Drivers
             PROVE  LET options == args[p].options IN
    /\ LET line == LinkCommand(options).line
       IN /\ Alternate(line, "--start-group", "--end-group")
          /\ Alternate(line, "--whole-archive", "--no-whole-archive")
          /\ ~IsOpen(line, Len(line) + 1, "--start-group", "--end-group")
    /\ LET command == CompileCommand(args[p].source, options)
           levels == {i \in DOMAIN options : options[i].name \in OptLevels}
       IN /\ command.std # {} => command.tool = "clang++"
          /\ levels # {} => \E i \in levels :
                 command.level = options[i].name /\ \A j \in levels : j <= i
          /\ command.debug = (Has(options, "g") /\ ~Has(options, "g0"))
  BY DEF CommandsFollowOptions
<1>1. args[p].options \in Seq(OptionType)
  BY OptionsAssumption DEF IInv, TypeOK, OptionType
<1> QED
  BY <1>1, LineInTurn, CommandFits

\* Every command line the driver builds follows the options (CommandsFollowOptions).
THEOREM CommandsAlwaysFollow == Spec => []CommandsFollowOptions
  BY InvariantHolds, CommandsFollow, PTL
=============================================================================
