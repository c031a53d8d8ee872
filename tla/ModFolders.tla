----------------------------- MODULE ModFolders -----------------------------
(***************************************************************************)
(* The SD card as the manager and the merger see it: mod folders, what     *)
(* each holds, what is merged (mods.rs of sharedlibs/totk-merge), and the  *)
(* calls that install, remove and migrate mods or save a profile           *)
(* (install.rs of totk-mod-manager/core, profile.rs), each as the list of  *)
(* file system calls it makes.                                             *)
(*                                                                         *)
(* A card is [tree, texts]: tree maps a path (a sequence of names) to      *)
(* "dir" or to which version of a file it holds, texts the path of an INI  *)
(* file to its lines.                                                      *)
(***************************************************************************)
EXTENDS Ini, FiniteSets

CONSTANTS
  NameOrder,     \* the names of files, folders and mods, sorted
  PackageFiles,  \* those that end in .tkcl
  PluginFiles,   \* those that end in .nro
  PatchFiles,    \* those that end in .ips or .pchtxt
  GameFolders,   \* those the game's romfs has at its top
  FolderOf,      \* FolderOf[package]: its name without .tkcl, as a folder
  Export         \* what TKMM exported for RomFSlite: a tree, or an empty one

Names == ToSet(NameOrder)
ASSUME NamesAssumption ==
  /\ NameOrder \in Seq(Names) /\ "" \notin Names
  /\ \A i, j \in 1..Len(NameOrder) : NameOrder[i] = NameOrder[j] => i = j

\* What a sequence has of a set, in order: SelectSeq with a set, which can be reasoned about.
Among(seq, set) ==
  LET among[n \in 0..Len(seq)] ==
        IF n = 0 THEN <<>> ELSE IF seq[n] \in set THEN Append(among[n - 1], seq[n]) ELSE among[n - 1]
  IN among[Len(seq)]

InOrder(names) == Among(NameOrder, names)
Rank(name) == CHOOSE i \in 1..Len(NameOrder) : NameOrder[i] = name

\* What a list has of some folders, and of the others.
OfFolders(list, folders) == Among(list, {e \in ToSet(list) : e.folder \in folders})
Without(list, folders) == Among(list, {e \in ToSet(list) : e.folder \notin folders})

ModsDir == <<"mods">>
ModPath(folder) == <<"mods", folder>>
IniOf(folder) == <<"mods", folder, "mod.ini">>
ProfileFile(name) == <<"profiles", name, "ini">>
Temporary(name) == <<"profiles", name, "tmp">>
ConfigFile == <<"config">>

Exists(card, path) == path \in DOMAIN card.tree \/ path \in DOMAIN card.texts
IsDir(tree, path) == path \in DOMAIN tree /\ tree[path] = "dir"
Entries(tree, dir) == {Last(p) : p \in {q \in DOMAIN tree : Len(q) = Len(dir) + 1 /\ IsPrefix(dir, q)}}
Dirs(tree, dir) == {name \in Entries(tree, dir) : IsDir(tree, dir \o <<name>>)}
Files(tree, dir) == Entries(tree, dir) \ Dirs(tree, dir)
Inside(tree, path) == {p \in DOMAIN tree : IsPrefix(path, p)}

-----------------------------------------------------------------------------
(* What a folder holds.                                                    *)

NotAMod == [kind |-> "none", content |-> <<>>]
Holds(kind, content) == [kind |-> kind, content |-> content]

PluginsIn(tree, dir) ==
  {p \in DOMAIN tree : \E parent \in {dir, dir \o <<"plugins">>} :
     Len(p) = Len(parent) + 1 /\ IsPrefix(parent, p) /\ Last(p) \in PluginFiles}

\* holds_exefs_patches
HoldsPatches(tree, dir) ==
  \E base \in {dir \o <<"atmosphere", "exefs_patches">>, dir \o <<"exefs_patches">>} :
    \E patch \in Dirs(tree, base) : Files(tree, base \o <<patch>>) \cap PatchFiles # {}

InspectEntries(tree, dir) ==
  LET packages == Files(tree, dir) \cap PackageFiles IN
  CASE packages # {} -> Holds("package", dir \o <<InOrder(packages)[1]>>)
    [] OTHER ->
       CASE {"romfs", "exefs"} \cap Dirs(tree, dir) # {} -> Holds("folder", dir)
         [] OTHER -> CASE HoldsPatches(tree, dir) -> Holds("folder", dir)
              [] OTHER -> CASE GameFolders \cap Dirs(tree, dir) # {} -> Holds("romfs", dir)
                   [] OTHER -> IF PluginsIn(tree, dir) # {} THEN Holds("folder", dir) ELSE NotAMod

\* inspect_folder: one folder further down when it is the only one.
OrBelow(tree, dir, only, found) ==
  IF found # NotAMod \/ Cardinality(only) # 1 THEN found
  ELSE InspectEntries(tree, dir \o <<CHOOSE name \in only : TRUE>>)
Inspect(tree, dir) == OrBelow(tree, dir, Dirs(tree, dir), InspectEntries(tree, dir))

InfoAt(card, path) == IF path \in DOMAIN card.texts THEN ParseInfo(card.texts[path]) ELSE DefaultInfo

\* scan: the mods, by folder name.
InstalledAs(card, folder, found) ==
  LET inner == IF found.content # ModPath(folder) /\ found.kind # "package" THEN PluginsIn(card.tree, found.content) ELSE {}
  IN [folder |-> folder, kind |-> found.kind, content |-> found.content, info |-> InfoAt(card, IniOf(folder)),
      plugins |-> PluginsIn(card.tree, ModPath(folder)) \cup inner]
Installed(card, folder) == InstalledAs(card, folder, Inspect(card.tree, ModPath(folder)))
\* InstalledMod::name, and where it comes among the names; one that is none of them comes last.
ShownName(mod) == IF mod.info.name # "" THEN mod.info.name ELSE mod.folder
NameRank(mod) == IF ShownName(mod) \in Names THEN Rank(ShownName(mod)) ELSE Len(NameOrder) + 1
ModsOn(card) == {folder \in Dirs(card.tree, ModsDir) : Inspect(card.tree, ModPath(folder)) # NotAMod}
InstalledIn(card, folders) == [i \in 1..Len(folders) |-> Installed(card, folders[i])]
Scan(card) == InstalledIn(card, InOrder(ModsOn(card)))

-----------------------------------------------------------------------------
(* What is merged.                                                         *)

LoadProfile(card, name) == ParseProfile(card.texts[ProfileFile(name)])

\* A list as the manager makes them: folders of mods, each once.
Entry == [folder : Names, enabled : BOOLEAN, options : {<<>>} \cup {Selected(option) : option \in OptionNames}]
OnceEach(list) == \A i, j \in 1..Len(list) : list[i].folder = list[j].folder => i = j
IsModList(list) == list \in Seq(Entry) /\ OnceEach(list)
\* A file with all of such a list.
IsWhole(text) == IsModList(ParseProfile(text)) /\ text = ToIni(ParseProfile(text))

HasProfile(card, name) == ProfileFile(name) \in DOMAIN card.texts
IsProfile(path) == path[1] = "profiles" /\ path = ProfileFile(path[2])
Profiles(card) == {p[2] : p \in {q \in DOMAIN card.texts : IsProfile(q)}}
Active(card) == IF ConfigFile \in DOMAIN card.texts THEN ActiveProfile(card.texts[ConfigFile]) ELSE ""

\* merged_options: the profile's choice in a group, over mod.ini's.
MergedOptions(mod, chosen) == [g \in DOMAIN chosen \cup DOMAIN mod.info.options |->
                                 IF g \in DOMAIN chosen THEN chosen[g] ELSE mod.info.options[g]]
SpecFor(mod, options) ==
  [folder |-> mod.folder, kind |-> mod.kind, content |-> mod.content, options |-> options,
   plugins |-> IF mod.info.plugins THEN mod.plugins ELSE {}]

ExportAs(found) ==
  IF found.kind \in {"folder", "romfs"}
  THEN <<[folder |-> "RomFSlite", kind |-> found.kind, content |-> found.content, options |-> <<>>, plugins |-> {}]>>
  ELSE <<>>
RomfsLite == ExportAs(Inspect(Export, <<>>))

\* The enabled mods of a list that are installed.
Chosen(list, mods) == Among(list, {e \in ToSet(list) : e.enabled /\ e.folder \in FoldersIn(mods)})
SpecOf(mods, e) ==
  LET mod == mods[CHOOSE i \in 1..Len(mods) : mods[i].folder = e.folder] IN SpecFor(mod, MergedOptions(mod, e.options))
Specs(mods, list) == LET chosen == Chosen(list, mods) IN [i \in 1..Len(chosen) |-> SpecOf(mods, chosen[i])]

\* Mutant of OfProfile: the first mod of the list is merged first.
OfProfileInListOrder(card, list) == Specs(Scan(card), list)

\* discover with a profile: its enabled mods that are installed, the winner last.
OfProfile(card, list) == Reverse(Specs(Scan(card), list))

\* discover without one: by the priority of mod.ini.
MergedBefore(a, b) ==
  \/ a.info.priority < b.info.priority
  \/ /\ a.info.priority = b.info.priority
     /\ \/ NameRank(a) < NameRank(b)
        \/ NameRank(a) = NameRank(b) /\ Rank(a.folder) < Rank(b.folder)
SpecsOf(mods) == [i \in 1..Len(mods) |-> SpecFor(mods[i], mods[i].info.options)]
ByPriority(card) == SpecsOf(SetToSortSeq({m \in ToSet(Scan(card)) : m.info.enabled}, MergedBefore))

Discover(card) ==
  RomfsLite \o
  IF Active(card) # "" /\ HasProfile(card, Active(card)) THEN OfProfile(card, LoadProfile(card, Active(card))) ELSE ByPriority(card)

-----------------------------------------------------------------------------
(* What an archive holds.                                                  *)

Candidate(kind, path) == [kind |-> kind, path |-> path]

\* walk: a folder of one mod is not looked into, and the walk ends nine folders down.
IsFound(tree, dir) == ({"romfs", "exefs"} \cup GameFolders) \cap Dirs(tree, dir) # {} \/ PluginsIn(tree, dir) # {}
Walked(tree, root) ==
  {dir \in Inside(tree, root) :
     /\ IsDir(tree, dir) /\ Len(dir) <= Len(root) + 8
     /\ \A n \in Len(root)..(Len(dir) - 1) : dir[n + 1] # "exefs_patches" /\ ~IsFound(tree, SubSeq(dir, 1, n))}
FoundIn(tree, dir) ==
  LET packages == {Candidate("package", dir \o <<f>>) : f \in Files(tree, dir) \cap PackageFiles}
      base == dir \o <<"exefs_patches">>
      patches == {Candidate("patches", base \o <<p>>) : p \in {d \in Dirs(tree, base) : Files(tree, base \o <<d>>) \cap PatchFiles # {}}}
      romfs == {"romfs", "exefs"} \cap Dirs(tree, dir) = {} /\ GameFolders \cap Dirs(tree, dir) # {}
  IN packages \cup patches \cup IF IsFound(tree, dir) THEN {Candidate(IF romfs THEN "romfs" ELSE "folder", dir)} ELSE {}

\* find_candidates
Candidates(tree, root) == UNION {FoundIn(tree, dir) : dir \in Walked(tree, root)}

-----------------------------------------------------------------------------
(* Calls to the file system, and what one that fails leaves.               *)

Writes(path, lines) == <<"write", path, lines>>
Fails == <<"fail">>

Over(map, below) == [p \in DOMAIN map \cup DOMAIN below |-> IF p \in DOMAIN map THEN map[p] ELSE below[p]]
With(map, path, value) == [p \in DOMAIN map \cup {path} |-> IF p = path THEN value ELSE map[p]]
MadeDir(tree, path) == IF path \in DOMAIN tree THEN tree ELSE With(tree, path, "dir")

\* What is not at path or under it.
Less(map, path) == [p \in {q \in DOMAIN map : ~IsPrefix(path, q)} |-> map[p]]
Moved(map, from, to) ==
  LET there == {p \in DOMAIN map : IsPrefix(from, p)}
      name(p) == to \o SubSeq(p, Len(from) + 1, Len(p))
  IN Over(Less(map, from), [q \in {name(p) : p \in there} |-> map[CHOOSE p \in there : name(p) = q]])

\* An INI file is removed or renamed; a folder that is renamed holds none.
Unlinked(texts, path) == [p \in DOMAIN texts \ {path} |-> texts[p]]
Renamed(texts, from, to) == With(Unlinked(texts, from), to, texts[from])

CanDo(op, card) ==
  CASE op[1] = "fail" -> FALSE
    [] op[1] = "rename" -> IF op[2] \in DOMAIN card.texts THEN op[3] \notin DOMAIN card.texts
                           ELSE op[2] \in DOMAIN card.tree /\ op[3] \notin DOMAIN card.tree
    [] op[1] = "unlink" -> op[2] \in DOMAIN card.texts
    [] OTHER -> TRUE

Do(op, card) ==
  CASE op[1] = "mkdir" -> [card EXCEPT !.tree = MadeDir(@, op[2])]
    [] op[1] = "unlink" -> [card EXCEPT !.texts = Unlinked(@, op[2])]
    [] op[1] = "rmtree" -> [tree |-> Less(card.tree, op[2]), texts |-> Less(card.texts, op[2])]
    [] op[1] = "rename" -> IF op[2] \in DOMAIN card.texts THEN [card EXCEPT !.texts = Renamed(@, op[2], op[3])]
                           ELSE [card EXCEPT !.tree = Moved(@, op[2], op[3])]
    [] op[1] = "write" -> [card EXCEPT !.texts = With(@, op[2], op[3])]

\* A file cut short, or a folder part of which is deleted.
Parts(op, card) ==
  CASE op[1] = "write" -> {[card EXCEPT !.texts = With(@, op[2], SubSeq(op[3], 1, n))] : n \in {0, Len(op[3]) - 1}}
    [] op[1] = "rmtree" -> {[card EXCEPT !.tree = [p \in {q \in DOMAIN card.tree : IsPrefix(op[2], q) => IsDir(card.tree, q)} |-> card.tree[p]]]}
    [] OTHER -> {}

-----------------------------------------------------------------------------
(* The calls of the core.                                                  *)

\* Mutant of SaveProfile: the file is written in place.
SaveProfileInPlace(card, name, list) == <<Writes(ProfileFile(name), ToIni(list))>>

\* Profile::save
SaveProfile(card, name, list) ==
  <<Writes(Temporary(name), ToIni(list))>>
  \o (IF HasProfile(card, name) THEN <<<<"unlink", ProfileFile(name)>>>> ELSE <<>>)
  \o <<<<"rename", Temporary(name), ProfileFile(name)>>>>

\* config::set_value: a file that cannot be read counts as empty.
SetConfig(card, key, value) ==
  <<Writes(ConfigFile, SetValue(IF ConfigFile \in DOMAIN card.texts THEN card.texts[ConfigFile] ELSE <<>>, key, value))>>

ActivateProfile(card, name) == SetConfig(card, "profile", name)
DeleteProfile(card, name) == <<<<"unlink", ProfileFile(name)>>>>

\* tkmc_profile_rename and profile::rename
RenameProfile(card, from, to) ==
  IF ~HasProfile(card, from) \/ (from # to /\ HasProfile(card, to)) THEN <<Fails>>
  ELSE SaveProfile(card, to, LoadProfile(card, from))
       \o (IF from # to THEN DeleteProfile(card, from) ELSE <<>>)
       \o (IF Active(card) = from THEN ActivateProfile(card, to) ELSE <<>>)

\* tkmc_mod_set_plugins
SetPlugins(card, folder, on) == <<Writes(IniOf(folder), InfoToIni([InfoAt(card, IniOf(folder)) EXCEPT !.plugins = on]))>>

\* What an update removes of the version before.
OldContent(tree, target) ==
  {d \in Dirs(tree, target) : d \in {"romfs", "exefs", "plugins", "atmosphere", "exefs_patches"}}
  \cup (Files(tree, target) \cap (PackageFiles \cup PluginFiles))

\* Each entry of a set of names, in order.
ForEach(names, Call(_)) == LET ordered == InOrder(names) IN [i \in 1..Len(ordered) |-> Call(ordered[i])]
RenameEach(names, from, to) ==
  LET Rename(n) == <<"rename", from \o <<n>>, to \o <<n>>>> IN IF names = {} THEN <<Fails>> ELSE ForEach(names, Rename)

\* What goes from the archive to the mod's folder.
MoveContent(tree, candidate, target) ==
  CASE candidate.kind = "patches" ->
         <<<<"mkdir", target \o <<"exefs">>>>>> \o RenameEach(Files(tree, candidate.path) \cap PatchFiles, candidate.path, target \o <<"exefs">>)
    [] candidate.kind = "package" -> <<<<"rename", candidate.path, target \o <<Last(candidate.path)>>>>>>
    [] candidate.kind = "romfs" -> <<<<"rename", candidate.path, target \o <<"romfs">>>>>>
    [] OTHER ->
         RenameEach((Dirs(tree, candidate.path) \cap {"romfs", "exefs", "plugins"}) \cup (Files(tree, candidate.path) \cap PluginFiles),
                    candidate.path, target)

\* Mutant of KeptSettings: an update starts from the defaults.
KeptSettingsOfNone(card, folder, info) == info

\* The settings of a mod being updated, and the new metadata.
KeptSettings(card, folder, info) ==
  IF IniOf(folder) \notin DOMAIN card.texts THEN info
  ELSE LET previous == ParseInfo(card.texts[IniOf(folder)])
       IN [info EXCEPT !.enabled = previous.enabled, !.priority = previous.priority, !.plugins = previous.plugins,
                       !.options = IF @ = <<>> THEN previous.options ELSE @]

\* install
Install(card, candidate, folder, info) ==
  LET target == ModPath(folder)
      Erase(name) == <<"rmtree", target \o <<name>>>>
      active == IF HasProfile(card, Active(card)) THEN LoadProfile(card, Active(card)) ELSE <<>>
  IN (IF IsDir(card.tree, target) THEN <<>> ELSE <<<<"mkdir", target>>>>)
     \o (IF Inspect(card.tree, target) = NotAMod THEN <<>> ELSE ForEach(OldContent(card.tree, target), Erase))
     \o MoveContent(card.tree, candidate, target)
     \o <<Writes(IniOf(folder), InfoToIni(KeptSettings(card, folder, info)))>>
     \o (IF Active(card) = "" \/ FindEntry(active, folder) # {} THEN <<>>
         ELSE SaveProfile(card, Active(card), <<Listed(folder, TRUE, <<>>)>> \o active))

\* A mod's entry leaves a profile.
Leaves(card, folder, name) ==
  LET list == LoadProfile(card, name) IN
  IF FindEntry(list, folder) = {} THEN <<>> ELSE SaveProfile(card, name, Without(list, {folder}))

\* uninstall: the folder, then its entry in every profile.
Uninstall(card, folder) ==
  LET names == InOrder(Profiles(card)) IN
  (IF IsDir(card.tree, ModPath(folder)) THEN <<<<"rmtree", ModPath(folder)>>>> ELSE <<>>)
  \o FlattenSeq([i \in 1..Len(names) |-> Leaves(card, folder, names[i])])

\* migrate_loose_packages: each package on its own, a failure passes it over.
Loose(card) == Files(card.tree, ModsDir) \cap PackageFiles
Migratable(card) == {p \in Loose(card) : ~Exists(card, ModPath(FolderOf[p]))}
Migrate(card, package) ==
  LET target == ModPath(FolderOf[package]) IN
  <<<<"mkdir", target>>, <<"rename", ModsDir \o <<package>>, target \o <<package>>>>>>
  \o (IF IniOf(package) \in DOMAIN card.texts THEN <<<<"rename", IniOf(package), target \o <<"mod.ini">>>>>> ELSE <<>>)
=============================================================================
