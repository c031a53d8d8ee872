------------------------------ MODULE MergeRun ------------------------------
(***************************************************************************)
(* A merge from the mods' folders and packages to the files the game is    *)
(* served (sharedlibs/totk-merge/src/engine.rs merge, merger.rs merge):    *)
(* mods are read one after the other, compared, and merged file by file.   *)
(***************************************************************************)
EXTENDS ModConflicts

CONSTANTS
  Games,       \* the games to merge for
  ModLists,    \* the lists of mods to try, lowest priority first
  Language     \* the locale texts are compared in

\* A folder: its files.  A package: what it was made of (its own files, its
\* groups of options), the options chosen, the sizes it asks for.
Folder(files) == [kind |-> "folder", files |-> files, groups |-> <<>>, selection |-> <<>>, sizes |-> <<>>]

VARIABLES mods, loaded, conflicts, merger, locales, targets, packs, pc
vars == <<game, mods, loaded, conflicts, merger, locales, targets, packs, pc>>

\* A package's changelog was made as a folder's is.
PackageChangelog(files, sizes) == [sizes |-> sizes] @@ BuildFolder(files)

\* The parts of a mod that are merged, each over the ones before it.
FilesOf(options) == [i \in DOMAIN options |-> options[i].files]
LayersOf(mod) ==
  <<mod.files>> \o (IF mod.kind = "folder" THEN <<>> ELSE FilesOf(SelectedOptions(mod.groups, mod.selection)))

\* load, load_folder, selected_changelogs.
ChangelogsOf(layers, sizes) == [i \in DOMAIN layers |-> PackageChangelog(layers[i], sizes)]
Changelogs(mod) == ChangelogsOf(LayersOf(mod), mod.sizes)

AllChangelogs(list) == FlattenSeq(list)

Init ==
  /\ game \in Games
  /\ mods \in ModLists
  /\ loaded = <<>> /\ conflicts = {} /\ merger = NewMerger
  /\ locales = <<>> /\ targets = <<>> /\ packs = <<>>
  /\ pc = "reading"

\* A round of the loop over the plan's mods.
ReadMod ==
  /\ pc = "reading" /\ Len(loaded) < Len(mods)
  /\ loaded' = Append(loaded, Changelogs(mods[Len(loaded) + 1]))
  /\ UNCHANGED <<game, mods, conflicts, merger, locales, targets, packs, pc>>

\* conflicts::find, then Merger::merge up to its loops.
Compare ==
  /\ pc = "reading" /\ Len(loaded) = Len(mods)
  /\ conflicts' = Conflicting(loaded, Language)
  /\ merger' = MergePatches(merger, AllChangelogs(loaded))
  /\ targets' = GroupTargets(AllChangelogs(loaded))
  /\ locales' = SetToSeq(Locales)
  /\ pc' = "merging"
  /\ UNCHANGED <<game, mods, loaded, packs>>

\* A round of merge_mals.
MergeTexts ==
  /\ pc = "merging" /\ locales # <<>>
  /\ merger' = MergeMals(merger, AllChangelogs(loaded), Head(locales))
  /\ locales' = Tail(locales)
  /\ UNCHANGED <<game, mods, loaded, conflicts, targets, packs, pc>>

\* merge_target, of the next one.
MergeNext ==
  /\ pc = "merging" /\ locales = <<>> /\ targets # <<>>
  /\ merger' = MergeTarget(merger, Head(targets))
  /\ targets' = Tail(targets)
  /\ UNCHANGED <<game, mods, loaded, conflicts, locales, packs, pc>>

StartPacks ==
  /\ pc = "merging" /\ locales = <<>> /\ targets = <<>>
  /\ packs' = Packs(merger)
  /\ pc' = "writing"
  /\ UNCHANGED <<game, mods, loaded, conflicts, merger, locales, targets>>

WriteNextPack ==
  /\ pc = "writing" /\ packs # <<>>
  /\ merger' = WritePack(merger, Head(packs))
  /\ packs' = Tail(packs)
  /\ UNCHANGED <<game, mods, loaded, conflicts, locales, targets, pc>>

WriteSizes ==
  /\ pc = "writing" /\ packs = <<>>
  /\ merger' = WriteTable(merger)
  /\ pc' = "done"
  /\ UNCHANGED <<game, mods, loaded, conflicts, locales, targets, packs>>

Done == pc = "done" /\ UNCHANGED vars

Next == ReadMod \/ Compare \/ MergeTexts \/ MergeNext \/ StartPacks \/ WriteNextPack \/ WriteSizes \/ Done

Spec == Init /\ [][Next]_vars
-----------------------------------------------------------------------------
(* What the game is served, and what it should be: each value from the     *)
(* layer of the highest priority that changed it.                          *)

\* A merge, start to end.
Merge(changelogs) ==
  LET patched == MergePatches(NewMerger, changelogs)
      texts == FoldLeft(LAMBDA m, locale : MergeMals(m, changelogs, locale), patched, SetToSeq(Locales))
      written(m) == FoldLeft(WritePack, m, Packs(m))
  IN  WriteTable(written(FoldLeft(MergeTarget, texts, GroupTargets(changelogs))))

Layers == FlattenSeq([i \in DOMAIN mods |-> LayersOf(mods[i])])

\* Where a romfs file of a mod goes: the game's path of its name.
Target(file) == Relative(Canonical(file.path).name, file.path.suffix)
Romfs(layer) == SelectSeq(layer, LAMBDA file : Root(file.path) = "romfs" /\ file.path.name.ext # ".rsizetable")

\* The version of a file a layer has, of those for several versions of the
\* game: the one for this version's.
FileAt(layer, relative) ==
  LET here == {file \in ToSet(Romfs(layer)) : Target(file) = relative}
      fit == {file \in here : file.path.version <= relative.version}
  IN  IF here = {} THEN Missing
      ELSE LET among == IF fit = {} THEN here ELSE fit
               best == CHOOSE file \in among : \A other \in among :
                         IF fit = {} THEN file.path.version <= other.path.version ELSE file.path.version >= other.path.version
           IN  best.content

IsPack(relative) == relative.name.ext = ".pack"
Base(relative) == IF relative \in DOMAIN game.files THEN game.files[relative] ELSE Missing
Held(content, name) == IF content.type = "archive" /\ name \in DOMAIN content.of THEN content.of[name] ELSE Missing

\* Values that are set, by key: what a layer sets over a base.
Overlay(base, version) ==
  [key \in {k \in DOMAIN base \cup DOMAIN version :
              IF k \in DOMAIN version THEN version[k] # Gone ELSE TRUE} |->
     IF key \in DOMAIN version THEN version[key] ELSE base[key]]

\* The keys a version changes; what it lacks went, but in texts and archives.
Sets(base, version, removes) ==
  [key \in {k \in DOMAIN version : k \notin DOMAIN base \/ version[k] # base[k]}
           \cup (IF removes THEN DOMAIN base \ DOMAIN version ELSE {}) |->
     IF key \in DOMAIN version THEN version[key] ELSE Gone]

Removes(name) == name.ext # ".msbt"
MergedDocument(name, base, versions) ==
  FoldLeft(LAMBDA doc, v : Document(Overlay(doc.of, Sets(base.of, v.of, Removes(name)))), base, versions)

\* The merge of the versions of a file, lowest priority first; files of an
\* archive are merged one by one.
MergedFile(name, base, versions) ==
  LET changed == SelectSeq(versions, LAMBDA v : v # base)
      over(inner) == LET given == SelectSeq(changed, LAMBDA v : inner \in DOMAIN v.of /\ v.of[inner] # Held(base, inner))
                     IN  [i \in DOMAIN given |-> given[i].of[inner]]
      first(inner) == IF Held(base, inner) # Missing THEN Held(base, inner) ELSE over(inner)[1]
      file(inner) == IF over(inner) = <<>> THEN Held(base, inner)
                     ELSE IF first(inner).type = "document" THEN MergedDocument(inner, first(inner), over(inner))
                     ELSE Last(over(inner))
  IN  IF changed = <<>> THEN base
      ELSE CASE base.type = "document" -> MergedDocument(name, base, changed)
             [] base.type = "archive" ->
                  Archive([inner \in DOMAIN base.of \cup UNION {DOMAIN changed[i].of : i \in DOMAIN changed} |-> file(inner)])
             [] base = Missing /\ changed[1].type = "document" /\ MergerFor(name) # "None" ->
                  MergedDocument(name, changed[1], Tail(changed))
             [] OTHER -> Last(changed)

\* The packs a layer has, with what it has in them.
PacksOf(layer) == {Target(file) : file \in {f \in ToSet(Romfs(layer)) : IsPack(Target(f))}}
Gives(layer, pack, name) ==
  /\ Held(FileAt(layer, pack), name) # Missing
  /\ Held(FileAt(layer, pack), name) # Held(Base(pack), name)
Drops(layer, pack, name) ==
  /\ FileAt(layer, pack) # Missing /\ Base(pack) # Missing
  /\ Held(Base(pack), name) # Missing /\ Held(FileAt(layer, pack), name) = Missing

\* The versions of a file of packs that are not the game's.
VersionsOf(layer, name) == {Held(FileAt(layer, pack), name) : pack \in {p \in PacksOf(layer) : Gives(layer, p, name)}} \ {VanillaNamed(name)}
MergedMember(name) ==
  LET with == SelectSeq(Layers, LAMBDA layer : VersionsOf(layer, name) # {})
  IN  MergedFile(name, VanillaNamed(name), [i \in DOMAIN with |-> CHOOSE v \in VersionsOf(with[i], name) : TRUE])

\* A pack: the game's files, those some layer gives, less those dropped.
ExpectedPack(pack) ==
  LET given == {name \in UNION {DOMAIN FileAt(Layers[i], pack).of : i \in DOMAIN Layers} : \E i \in DOMAIN Layers : Gives(Layers[i], pack, name)}
      dropped == {name \in DOMAIN Base(pack).of : \E i \in DOMAIN Layers : Drops(Layers[i], pack, name)}
  IN  Archive([name \in (DOMAIN Base(pack).of \ dropped) \cup given |->
                 IF name \in given THEN MergedMember(name) ELSE Base(pack).of[name]])

ExpectedFile(relative) ==
  MergedFile(relative.name, Base(relative),
             SelectSeq([i \in DOMAIN Layers |-> FileAt(Layers[i], relative)], LAMBDA content : content # Missing))

Served(m, relative) == IF relative \in DOMAIN m.output THEN m.output[relative] ELSE Base(relative)
Plain == {relative \in DOMAIN game.files \cup DOMAIN merger.output : relative # SizeTablePath}
Touched == Plain \cup UNION {{Target(file) : file \in ToSet(Romfs(Layers[i]))} : i \in DOMAIN Layers}

\* A layer puts the game's own file in a pack that does not hold it.
PutsBack(layer, pack, name) == Gives(layer, pack, name) /\ Held(FileAt(layer, pack), name) = VanillaNamed(name)
PlacedAndChanged == \E i, j \in DOMAIN Layers : \E pack \in PacksOf(Layers[i]) :
  \E name \in DOMAIN FileAt(Layers[i], pack).of : PutsBack(Layers[i], pack, name) /\ VersionsOf(Layers[j], name) # {}

\* A layer has one version of a file of packs.
OneVersion(layer) ==
  \A name \in UNION {DOMAIN FileAt(layer, pack).of : pack \in PacksOf(layer)} :
    Cardinality({Held(FileAt(layer, pack), name) : pack \in {p \in PacksOf(layer) : Gives(layer, p, name)}}) <= 1

\* Some layer drops a file from a pack that another puts there, or drops one
\* from a pack nobody puts a file in.
DropsAreLost == \E i \in DOMAIN Layers : \E pack \in PacksOf(Layers[i]) :
  \E name \in DOMAIN Base(pack).of :
    /\ Drops(Layers[i], pack, name)
    /\ \/ \E j \in DOMAIN Layers : Gives(Layers[j], pack, name)
       \/ \A j \in DOMAIN Layers : FileAt(Layers[j], pack) # Missing =>
            \A other \in DOMAIN FileAt(Layers[j], pack).of : ~Gives(Layers[j], pack, other)

\* Every file can be taken apart by the builder its name calls for.
Readable(name, content) == name.ext \in {".bgyml", ".byml", ".msbt"} => content.type = "document"
AllReadable == \A i \in DOMAIN Layers : \A file \in ToSet(Romfs(Layers[i])) :
  /\ Readable(file.path.name, file.content)
  /\ file.content.type = "archive" => \A name \in DOMAIN file.content.of : Readable(name, file.content.of[name])

Texts(relative) == relative.name.dir = "Mals"
Regular == AllReadable /\ ~DropsAreLost /\ ~PlacedAndChanged /\ \A i \in DOMAIN Layers : OneVersion(Layers[i])

\* The texts of a locale: of each layer those of its closest archive, as far
\* as they are not the game's.
ExpectedTexts(locale) ==
  LET archives(layer) == SelectSeq(Romfs(layer), LAMBDA file : Texts(Target(file)))
      with == SelectSeq(Layers, LAMBDA layer : archives(layer) # <<>>)
      best(layer) == LET names == [i \in DOMAIN archives(layer) |-> archives(layer)[i].path.name] IN Relative(BestMals(names, locale), ".zs")
      sets(layer, name) == Sets(Held(Base(best(layer)), name).of, Held(FileAt(layer, best(layer)), name).of, FALSE)
      base == Base(Relative(Name("Mals", locale, ".sarc"), ".zs"))
  IN  Archive([name \in DOMAIN base.of |->
                 FoldLeft(LAMBDA doc, layer : Document(Overlay(doc.of, sets(layer, name))), base.of[name], with)])

\* The words of code the mods of this build give, over the shop's.
ExpectedPatches ==
  LET files == SelectSeq(FlattenSeq(Layers), LAMBDA file : Root(file.path) = "exefs" /\ BuildIdMatches(file.path.name.stem, game.build))
      given(file, address) == SelectSeq(file.content.of, LAMBDA record : record[1] = address)
      words(file) == {a \in {r[1] \div WordSize : r \in ToSet(file.content.of)} :
                        \A i \in 0..WordSize - 1 : given(file, a * WordSize + i) # <<>>}
      over(code, file) == [a \in DOMAIN code \cup words(file) |->
                             IF a \in words(file) THEN [i \in 0..WordSize - 1 |-> Last(given(file, a * WordSize + i))[2]] ELSE code[a]]
  IN  FoldLeft(over, game.shop, files)

\* What the game is served is what the mods' files say: each value, each text,
\* each word of code, each file nobody takes apart and each pack's list of
\* files from the mod of the highest priority that changed it, and everything
\* else as the game has it (totk-mod-merger-plugin/README.md, "What merging
\* does"; builder.rs and merger.rs together).
PriorityDecides == pc = "done" /\ Regular =>
  /\ \A relative \in {r \in Touched : ~Texts(r)} :
       Served(merger, relative) = IF IsPack(relative) THEN ExpectedPack(relative) ELSE ExpectedFile(relative)
  /\ \A locale \in Locales :
       Served(merger, Relative(Name("Mals", locale, ".sarc"), ".zs")) = ExpectedTexts(locale)
  /\ merger.patches = ExpectedPatches

\* A name of the mods' has the hash of one of the game's: its size is lost.
Known(resource) == resource \in DOMAIN game.sized
NewNames == {Resource(r) : r \in DOMAIN merger.output} \cup {<<e.name, NoVersion>> : e \in ToSet(merger.entries)}
CollidesWithGame == \E resource \in NewNames : ~Known(resource) /\ Hash(resource) \in DOMAIN game.sized

\* The size a package of the mods asks for.
Asked(name) == {mod.sizes[name] : mod \in {n \in ToSet(mods) : name \in DOMAIN n.sizes}}
SizeIsTrue(resource, content) == SizeIn(merger.table, resource) \in {content} \cup Asked(resource[1])

\* The game finds the size of every file it is served, alone or in a pack, and
\* of every other file the size it had, even when the names of two mods' files
\* share a hash (merger.rs collect_size, write_packs).
SizesAreTrue == pc = "done" /\ ~CollidesWithGame =>
  LET plain == {r \in DOMAIN merger.output : r # SizeTablePath /\ ~Unsized(r.name)}
      packed(r) == {name \in DOMAIN merger.output[r].of : merger.output[r].of[name] # VanillaNamed(name)}
      members == UNION {packed(r) : r \in {p \in plain : IsPack(p)}}
      served == {Resource(r) : r \in plain} \cup {<<name, NoVersion>> : name \in members}
  IN  /\ \A r \in plain : SizeIsTrue(Resource(r), merger.output[r])
      /\ \A r \in {p \in plain : IsPack(p)} : \A name \in packed(r) : SizeIsTrue(<<name, NoVersion>>, merger.output[r].of[name])
      /\ \A resource \in DOMAIN game.sized \ served : SizeIn(merger.table, resource) = game.sized[resource]

\* Two mods bring a document the game does not have.
AddedTwice == \E i, j \in DOMAIN loaded : i # j /\ \E a \in ToSet(FlattenSeq([c \in DOMAIN loaded[i] |-> loaded[i][c].entries])),
                                                    b \in ToSet(FlattenSeq([c \in DOMAIN loaded[j] |-> loaded[j][c].entries])) :
  /\ a.name = b.name /\ MergerFor(a.name) # "None"
  /\ IF a.archives = <<>> THEN VanillaOf(a.name, a.attribute) = Missing ELSE VanillaNamed(a.name) = Missing

\* Mods nothing is reported of can be merged in any order: the game is served
\* the same files (conflicts.rs find, "only the winner's value is used").
UnreportedModsCommute == pc = "done" /\ conflicts = {} /\ AllReadable /\ ~DropsAreLost /\ ~AddedTwice =>
  LET other == Merge(FlattenSeq(Reverse(loaded)))
  IN  \A relative \in Plain : Served(other, relative) = Served(merger, relative)

\* A pack whose files changed is "written once every file that goes in it is
\* known" (merger.rs Outcome).
DelayedPacksAreWritten == pc = "done" =>
  \A pack \in DOMAIN merger.tracked : \E relative \in DOMAIN merger.output : relative.name = pack
=============================================================================
