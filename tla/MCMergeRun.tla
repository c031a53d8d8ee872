----------------------------- MODULE MCMergeRun -----------------------------
(***************************************************************************)
(* A small game, and mods that change each kind of file of it.             *)
(***************************************************************************)
EXTENDS MergeRun

Param == Name("Param", "Foo", ".bgyml")
Bits == Name("Phive", "Foo", ".bphcl")
Bag == Name("Bag", "Foo", ".sarc")
InBag == Name("Bag", "In", ".byml")
One == Name("Pack", "One", ".pack")
Two == Name("Pack", "Two", ".pack")
Three == Name("Pack", "Three", ".pack")
New == Name("Param", "New", ".bgyml")
Twin == Name("Model", "Twin", ".bfres")       \* shares its hash with New
Model == Name("Model", "M", ".bfres")
Odd == Name("Model", "Odd", ".bfres")         \* shares its hash with Model
Textures == Name("UI", "__Combined", ".bntx")
Rows == Name("RSDB", "ActorInfo.Product", ".byml")
Flow == Name("Event/EventFlow", "E", ".bfevfl")
Text == Name("Msg", "T", ".msbt")
Mals(locale) == Name("Mals", locale, ".sarc")

AB(a, b) == Document("A" :> a @@ "B" :> b)
A(a) == Document("A" :> a)
Lines(a, b) == Archive(Text :> AB(a, b))

TheOne == Param :> AB("0", "0") @@ Bits :> Whole("0") @@ Bag :> Archive(InBag :> AB("0", "0"))
TheTwo == Param :> AB("0", "0")
Zs(name) == RelativePath(name, NoVersion, ".zs")
FlowPath == RelativePath(Flow, 120, "")
RowsPath == RelativePath(Rows, 121, ".zs")
ModelPath == RelativePath(Model, NoVersion, "")
TheFiles ==
  Zs(One) :> Archive(TheOne) @@ Zs(Two) :> Archive(TheTwo) @@ RowsPath :> AB("0", "0") @@ FlowPath :> Whole("0")
  @@ ModelPath :> Whole("0") @@ RelativePath(Textures, NoVersion, "") :> Whole("0")
  @@ Zs(Mals("USen")) :> Lines("0", "0") @@ Zs(Mals("EUfr")) :> Lines("0", "0")

TheGame ==
  [number |-> 121, files |-> TheFiles,
   lookup |-> [name \in DOMAIN TheOne |-> [name |-> One, attribute |-> ".zs"]],
   address |-> (Rows :> [name |-> Rows, version |-> 121]), versions |-> (Flow :> 120), stems |-> ("E" :> 120),
   hashes |-> (<<New, NoVersion>> :> <<Twin, NoVersion>> @@ <<Odd, NoVersion>> :> <<Model, NoVersion>>),
   sized |-> [resource \in {Resource(r) : r \in DOMAIN TheFiles} |->
                TheFiles[CHOOSE r \in DOMAIN TheFiles : Resource(r) = resource]]
             @@ [resource \in {<<name, NoVersion>> : name \in DOMAIN TheOne} |-> TheOne[resource[1]]],
   locales |-> ("USen" :> [region |-> "US", language |-> "en"] @@ "EUfr" :> [region |-> "EU", language |-> "fr"]
                @@ "EUen" :> [region |-> "EU", language |-> "en"]),
   build |-> <<9, 11>>, shortest |-> 2, shop |-> (0 :> <<5, 5>>)]

File(name, suffix, content) == [path |-> Path("romfs", name, NoVersion, suffix), content |-> content]
FileOf(name, version, content) == [path |-> Path("romfs", name, version, ""), content |-> content]
PackOf(name, files) == File(name, ".zs", Archive(files))
InOne(files) == PackOf(One, files @@ TheOne)
PatchOf(id, records) == [path |-> Path("exefs", Name("", id, ".ips"), NoVersion, ""), content |-> Patch(records)]

\* What one mod may change.
Changed ==
  { <<InOne(Param :> AB("1", "0"))>>,
    <<InOne(Param :> AB("2", "1")), PackOf(Two, Param :> AB("2", "1"))>>,
    <<InOne(Param :> A("0") @@ Bits :> Whole("1"))>>,
    <<InOne(Bits :> Whole("2")), File(Model, "", Whole("1"))>>,
    <<PackOf(One, [name \in DOMAIN TheOne \ {Bits} |-> TheOne[name]])>>,
    <<PackOf(Two, New :> A("1") @@ Param :> AB("0", "0"))>>,
    <<PackOf(Two, New :> AB("2", "1") @@ TheTwo), File(Twin, "", Whole("1"))>>,
    <<PackOf(Two, Bits :> Whole("0") @@ TheTwo)>>,
    <<InOne(Bag :> Archive(InBag :> AB("1", "0")))>>,
    <<InOne(Bag :> Archive(InBag :> AB("1", "1") @@ Text :> AB("0", "0")))>>,
    <<PackOf(Three, Param :> AB("0", "0") @@ Bits :> Whole("1") @@ New :> A("2"))>>,
    <<InOne(Param :> Whole("1") @@ Bits :> Whole("2"))>>,
    <<File(Rows, ".zs", AB("1", "0"))>>,
    <<File(Rows, ".zs", AB("2", "1")), File(Model, "", Whole("2"))>>,
    <<FileOf(Flow, 110, Whole("1")), FileOf(Flow, 120, Whole("2")), FileOf(Flow, 130, Whole("3"))>>,
    <<FileOf(Flow, 130, Whole("4")), FileOf(Flow, 140, Whole("5"))>>,
    <<File(Mals("USen"), ".zs", Lines("1", "0"))>>,
    <<File(Mals("EUen"), ".zs", Lines("2", "0")), File(Mals("EUfr"), ".zs", Lines("0", "3")), File(Textures, "", Whole("1"))>>,
    <<File(Odd, "", Whole("1")), PatchOf(<<9>>, <<<<0, 1>>, <<1, 1>>>>)>>,
    <<PatchOf(<<9, 11, 0>>, <<<<0, 2>>, <<2, 2>>, <<3, 2>>>>)>>,
    <<PatchOf(<<9, 11>>, <<<<0, 3>>, <<1, 3>>, <<0, 4>>>>), PatchOf(<<9, 12>>, <<<<2, 3>>, <<3, 3>>>>)>> }


Folders == {Folder(files) : files \in Changed}
Mixes == {<<InOne(Param :> AB("1", "1")), PackOf(Two, Param :> AB("1", "1")), File(Model, "", Whole("1"))>>,
          <<InOne(Bits :> Whole("1")), PackOf(Two, New :> A("3") @@ TheTwo)>>}

\* A package whose options change the same file, one of them asked for by name.
Option(name, priority, files) == [name |-> name, priority |-> priority, files |-> files]
PackageOf(kind, selection, standard) ==
  [kind |-> "package", selection |-> selection, sizes |-> (Model :> Whole("big")),
   files |-> <<InOne(Param :> AB("3", "0"))>>,
   groups |-> << [name |-> "first", kind |-> kind, selected |-> standard,
                  options |-> <<Option("a", 2, <<InOne(Param :> AB("4", "0"))>>), Option("b", 1, <<InOne(Param :> AB("5", "5")), File(Model, "", Whole("3"))>>)>>],
                 [name |-> "second", kind |-> "Multi", selected |-> <<1>>,
                  options |-> <<Option("c", 1, <<InOne(Param :> AB("0", "6"))>>)>>] >>]
Packages == {PackageOf(kind, selection, standard) : kind \in {"Multi", "MultiRequired", "Single", "SingleRequired"},
               selection \in {<<>>, "first" :> {}, "first" :> {"a", "b"}, "first" :> {"b"} @@ "second" :> {}}, standard \in {<<>>, <<2, 1>>, <<3>>}}

OneGame == {TheGame}
TwoMods == {<<m>> : m \in Folders \cup Packages} \cup {<<m, n>> : m, n \in Folders}
           \cup {<<m, n>> : m \in Packages, n \in {Folder(files) : files \in Mixes}}
           \cup {<<Folder(first), m, n>> : first \in Mixes, m, n \in Folders}
Removals == {<<m>> : m \in Folders}
=============================================================================
