------------------------------ MODULE ModMerge ------------------------------
(***************************************************************************)
(* Changelogs merged into the files the game is served                     *)
(* (sharedlibs/totk-merge/src/merger.rs), and the options a package's      *)
(* changelogs are chosen by (tkcl.rs).  A merger is a record, as the       *)
(* struct of that name is: what is served, by path; the size table; the    *)
(* files that go in packs; the packs that lost files; the patches.         *)
(***************************************************************************)
EXTENDS ModBuild

\* merger_for: unlike the builders, every other table is a document.
MergerFor(name) ==
  CASE name = GameDataList -> "GameData"
    [] name = TagTable -> "RsdbTag"
    [] name \in RowTables -> "RsdbRow"
    [] name.ext = ".pack" -> "Pack"
    [] name.ext \in SarcExtensions -> "Sarc"
    [] name.ext = ".bntx" /\ name.stem = "__Combined" -> "Bntx"
    [] name.ext = ".msbt" -> "Msbt"
    [] name.ext \in {".byml", ".bgyml"} /\ name \notin RowTables \cup {GameDataList, TagTable} -> "Byml"
    [] OTHER -> "None"

-----------------------------------------------------------------------------
(* Packages: the mod's own changelog, then those of the options chosen.    *)

FirstOf(list) == IF list = <<>> THEN <<>> ELSE <<Head(list)>>
Truncated(group, picked) == IF group.kind \in {"Single", "SingleRequired"} THEN FirstOf(picked) ELSE picked

OrTheFirst(group, picked) ==
  IF picked = <<>> /\ group.kind \in {"SingleRequired", "MultiRequired"} THEN FirstOf(group.options)
  ELSE [i \in DOMAIN picked |-> group.options[picked[i]]]

\* A round of selected_changelogs: the options of a group.  Groups the
\* selection does not name take the package's own choice.
PickedOptions(group, selection) ==
  LET named == SelectSeq([i \in DOMAIN group.options |-> i], LAMBDA i : group.options[i].name \in selection[group.name])
      standard == SelectSeq(group.selected, LAMBDA i : i \in DOMAIN group.options)
  IN  OrTheFirst(group, Truncated(group, IF group.name \in DOMAIN selection THEN named ELSE standard))

\* selected_changelogs: a stable sort by the options' priority.
Order(chosen) ==
  SortSeq([i \in DOMAIN chosen |-> i],
          LAMBDA i, j : chosen[i].priority < chosen[j].priority \/ (chosen[i].priority = chosen[j].priority /\ i < j))
ByPriority(chosen, order) == [i \in DOMAIN order |-> chosen[order[i]]]
Sorted(chosen) == ByPriority(chosen, Order(chosen))
SelectedOptions(groups, selection) == Sorted(FlattenSeq([i \in DOMAIN groups |-> PickedOptions(groups[i], selection)]))

-----------------------------------------------------------------------------
(* Reading a changelog's files.                                            *)

\* best_version: the last one that is not past the game's, or the first.
BestVersion(target, provided) ==
  LET fit == SelectLastInSeq(provided, LAMBDA v : v <= target)
  IN  provided[IF fit = 0 THEN 1 ELSE fit]

\* The version a table gives a name of a folder that is versioned by one
\* (by the stem of the name), the game's elsewhere.
VersionWanted(name) ==
  CASE name.dir \in Versioned /\ name.stem \in DOMAIN game.stems -> {game.stems[name.stem]}
    [] name.dir \in Versioned /\ name.stem \notin DOMAIN game.stems -> {}
    [] name.dir \notin Versioned -> {game.number}

\* changelog_file_path.
FilePath(entry) ==
  LET wanted == VersionWanted(entry.name)
  IN  Stored(entry.name, CASE entry.versions = <<>> -> NoVersion
                           [] entry.versions # <<>> /\ wanted = {} -> entry.versions[1]
                           [] OTHER -> BestVersion(CHOOSE v \in wanted : TRUE, entry.versions))

\* ChangelogSource.read, of a folder's changelog and of a package's.
Read(changelog, stored) ==
  CASE stored \in DOMAIN changelog.files -> changelog.files[stored]
    [] stored \notin DOMAIN changelog.files /\ stored \in DOMAIN changelog.links -> changelog.links[stored]
    [] OTHER -> Missing

ReadMember(member) == Read(member.changelog, FilePath(member.entry))

-----------------------------------------------------------------------------
(* Merging what builders made, lowest priority first.                      *)

NotMerged == [failed |-> TRUE, content |-> Missing]
Merged(content) == [failed |-> FALSE, content |-> content]

\* byml_merge::merge_documents, the mergers of tables, merge_msbt: the changes
\* of one input.  A whole document sets every key it has.
ApplyChanges(values, input) ==
  LET after == [key \in DOMAIN values \cup DOMAIN input.of |->
                  IF key \in DOMAIN input.of THEN input.of[key] ELSE values[key]]
  IN  [key \in {k \in DOMAIN after : after[k] # Gone} |-> after[key]]

MergeDocuments(vanilla, inputs) ==
  IF vanilla.type # "document" \/ \E i \in DOMAIN inputs : inputs[i].type \notin {"document", "changes"} THEN NotMerged
  ELSE Merged(Document(FoldLeft(ApplyChanges, vanilla.of, inputs)))

RECURSIVE MergeData(_, _, _)

\* What the other mods' files change in the first one's, for a file no vanilla is known of.
MergeOn(kind, base, deltas, against) ==
  IF against.failed THEN NotMerged ELSE MergeData(kind, base, deltas \o against.changes)

\* A file of an archive several changelogs give, marks of removal left out.
InnerMerger(name) == IF MergerFor(name) \in {"Pack", "Bntx"} THEN "None" ELSE MergerFor(name)
MergeInner(vanilla, name, effective) ==
  CASE InnerMerger(name) = "None" -> Merged(Last(effective))
    [] InnerMerger(name) # "None" /\ name \in DOMAIN vanilla.of -> MergeData(InnerMerger(name), vanilla.of[name], effective)
    [] OTHER -> IF Len(effective) = 1 THEN Merged(Head(effective))
                ELSE MergeOn(InnerMerger(name), Head(effective), <<>>, ChangesAgainst(name, Head(effective), Tail(effective)))

\* merge_sarc.
GivenOf(inputs, name) ==
  LET with == SelectSeq(inputs, LAMBDA input : name \in DOMAIN input.of /\ input.of[name] # Deleted)
  IN  [i \in DOMAIN with |-> with[i].of[name]]
Assembled(vanilla, merged) ==
  IF \E name \in DOMAIN merged : merged[name].failed THEN NotMerged
  ELSE Merged(Archive([name \in DOMAIN merged |-> merged[name].content] @@ vanilla.of))
MergeArchives(vanilla, inputs) ==
  LET kept == {name \in UNION {DOMAIN inputs[i].of : i \in DOMAIN inputs} : GivenOf(inputs, name) # <<>>}
  IN  IF vanilla.type # "archive" \/ \E i \in DOMAIN inputs : inputs[i].type # "archive" THEN NotMerged
      ELSE Assembled(vanilla, [name \in kept |-> MergeInner(vanilla, name, GivenOf(inputs, name))])

\* merge_data, packs aside.
MergeData(kind, vanilla, inputs) ==
  CASE inputs = <<>> -> Merged(vanilla)
    [] inputs # <<>> /\ kind = "Sarc" -> MergeArchives(vanilla, inputs)
    [] OTHER -> MergeDocuments(vanilla, inputs)

\* merge_custom_target: a file no vanilla is known of is merged on the first
\* mod's.  "kinds" are those of the entries, "content" what they hold.
MergeContents(kind, name, kinds, content) ==
  LET rest == SubSeq([i \in DOMAIN kinds |-> i], 2, Len(kinds))
      deltas == SelectSeq(rest, LAMBDA i : kinds[i] = "Changelog")
      copies == SelectSeq(rest, LAMBDA i : kinds[i] # "Changelog")
      all == kinds[1] # "Copy" \/ deltas = <<>>
      at(list) == [i \in DOMAIN list |-> content[list[i]]]
  IN  CASE Missing \in ToSet(content) -> NotMerged
        [] Missing \notin ToSet(content) /\ ~all /\ copies = <<>> -> MergeData(kind, content[1], at(deltas))
        [] OTHER -> MergeOn(kind, content[1], IF all THEN <<>> ELSE at(deltas),
                            ChangesAgainst(name, content[1], at(IF all THEN rest ELSE copies)))
MergeCustom(kind, name, members) ==
  MergeContents(kind, name, [i \in DOMAIN members |-> members[i].entry.kind], [i \in DOMAIN members |-> ReadMember(members[i])])

-----------------------------------------------------------------------------
(* The merger's record.                                                    *)

SizeTablePath == RelativePath(Name("System/Resource", "ResourceSizeTable.Product", ".rsizetable"), NoVersion, ".zs")

NewMerger == [output |-> <<>>, table |-> SizeTable, entries |-> <<>>, tracked |-> <<>>, patches |-> <<>>, warnings |-> 0]

Warn(m) == [m EXCEPT !.warnings = @ + 1]
Serve(m, relative, content) == [m EXCEPT !.output = With(@, relative, content)]

\* collect_size leaves these out.
Unsized(name) == name.stem = "ZsDic" \/ name.ext \in {".rsizetable", ".bwav", ".webm"}

\* collect_size: a size a package asks for comes before the file's own.
Collect(m, relative, content, override) ==
  IF Unsized(relative.name) THEN m
  ELSE [m EXCEPT !.table = CollectSize(@, Resource(relative), IF override = Missing THEN content ELSE override)]

\* write_simple.
WriteSimple(m, relative, content) == Serve(Collect(m, relative, content, Missing), relative, content)

\* size_override.
SizeOverride(member) ==
  IF member.entry.kind = "Copy" /\ member.entry.name \in DOMAIN member.changelog.sizes
  THEN member.changelog.sizes[member.entry.name] ELSE Missing

\* collect_pack_entries: one for each pack the file goes in.
PutInPacks(m, key, archives, content, override, placeholder) ==
  [m EXCEPT !.entries = @ \o [i \in DOMAIN archives |->
     [archive |-> archives[i], attribute |-> key.attribute, name |-> key.name,
      content |-> content, override |-> override, placeholder |-> placeholder]]]

\* copy_placeholder.
PutVanilla(m, key, archives, vanilla) ==
  IF vanilla = Missing THEN Warn(m) ELSE PutInPacks(m, key, archives, vanilla, Missing, TRUE)
CopyPlaceholder(m, relative, key, archives) ==
  IF archives = <<>> THEN m ELSE PutVanilla(m, key, archives, Vanilla(relative).content)

\* copy_to_output: a whole file, put in packs or served as it is.
PutWhole(m, relative, key, archives, content, override) ==
  CASE content = Missing -> IF archives = <<>> THEN Warn(m) ELSE m
    [] content # Missing /\ archives # <<>> -> PutInPacks(m, key, archives, content, override, VanillaNamed(key.name) = content)
    [] content # Missing /\ archives = <<>> -> Serve(Collect(m, relative, content, override), relative, content)
CopyToOutput(m, member, relative, key, archives, override) ==
  PutWhole(m, relative, key, archives, ReadMember(member), override)

\* copy_merged_to_output.
CopyMerged(m, content, relative, key, archives) ==
  IF archives = <<>> THEN WriteSimple(m, relative, content)
  ELSE PutInPacks(m, key, archives, content, Missing, FALSE)

\* merge_pack: only removals live in a pack's changelog; the last word counts.
Marked(marks) == {name \in DOMAIN marks : marks[name] = Deleted}
MergePack(m, pack, vanilla, inputs) ==
  LET removed == Marked(FoldLeft(LAMBDA marks, input : input.of @@ marks, <<>>, inputs))
  IN  [m EXCEPT !.tracked = With(@, pack, [name \in DOMAIN vanilla.of \ removed |-> vanilla.of[name]])]

-----------------------------------------------------------------------------
(* Targets: every changelog's entries, by canonical name.                  *)

\* group_targets.  "key" is the first entry of the name.
GroupTargets(changelogs) ==
  LET members == FlattenSeq([i \in DOMAIN changelogs |->
                   [k \in DOMAIN changelogs[i].entries |-> [changelog |-> changelogs[i], entry |-> changelogs[i].entries[k]]]])
      add(targets, member) ==
        LET known == SelectInSeq(targets, LAMBDA t : t.key.name = member.entry.name)
        IN  IF known = 0 THEN Append(targets, [key |-> member.entry, members |-> <<member>>])
            ELSE [targets EXCEPT ![known].members = Append(@, member)]
  IN  FoldLeft(add, <<>>, members)

\* The end of merge_target: what was merged, or failing that the last whole file.
Finished(m, relative, key, archives, members, override, merged) ==
  LET whole == SelectLastInSeq(members, LAMBDA member : member.entry.kind = "Copy")
  IN  CASE ~merged.failed -> CopyMerged(m, merged.content, relative, key, archives)
        [] merged.failed /\ whole # 0 -> CopyToOutput(Warn(m), members[whole], relative, key, archives, override)
        [] merged.failed /\ whole = 0 -> Warn(m)

\* A file the game has: a pack loses files, another one is merged.
MergeOnVanilla(m, relative, key, archives, members, override, vanilla, inputs) ==
  LET archivesOnly == vanilla.type = "archive" /\ \A i \in DOMAIN inputs : inputs[i].type = "archive"
      isPack == MergerFor(key.name) = "Pack" /\ inputs # <<>>
  IN  IF isPack /\ archivesOnly THEN MergePack(m, key.name, vanilla, inputs)
      ELSE Finished(m, relative, key, archives, members, override,
                    IF isPack THEN NotMerged ELSE MergeData(MergerFor(key.name), vanilla, inputs))

\* One it does not have, or cannot be read.
MergeWithoutVanilla(m, relative, key, archives, members, override, missing) ==
  LET asked == IF Len(members) = 1 THEN key.kind = "Changelog" ELSE \E i \in DOMAIN members : members[i].entry.kind = "Changelog"
  IN  IF missing /\ asked THEN Warn(m)
      ELSE IF Len(members) = 1 THEN CopyToOutput(m, members[1], relative, key, archives, override)
      ELSE Finished(m, relative, key, archives, members, override, MergeCustom(MergerFor(key.name), key.name, members))

MergeMembers(m, relative, key, archives, members, override, found) ==
  IF found.content = Missing THEN MergeWithoutVanilla(m, relative, key, archives, members, override, found.missing)
  ELSE MergeOnVanilla(m, relative, key, archives, members, override, found.content,
         SelectSeq([i \in DOMAIN members |-> ReadMember(members[i])], LAMBDA content : content # Missing))

\* Textures are not merged: the last whole file is served.
IsTextures(name) == MergerFor(name) = "Bntx"
IsChange(member) == member.entry.kind = "Changelog"
Given(target) == SelectSeq(target.members, LAMBDA member : member.entry.kind # "Placeholder")
Usable(name, given) == IF IsTextures(name) THEN SelectSeq(given, LAMBDA member : ~IsChange(member)) ELSE given
Warned(m, name, given) == IF IsTextures(name) /\ \E i \in DOMAIN given : IsChange(given[i]) THEN Warn(m) ELSE m

\* Why merge_target copies, merges, or warns.
MergeAt(m, relative, key, archives, members, override) ==
  CASE members = <<>> -> CopyPlaceholder(m, relative, key, archives)
    [] members # <<>> /\ MergerFor(key.name) \in {"None", "Bntx"} -> CopyToOutput(m, Last(members), relative, key, archives, override)
    [] OTHER -> MergeMembers(m, relative, key, archives, members, override, Vanilla(relative))

MergeGiven(m, key, archives, given) ==
  MergeAt(Warned(m, key.name, given), Relative(key.name, IF archives = <<>> THEN key.attribute ELSE ""), key, archives,
          Usable(key.name, given), IF given = <<>> THEN Missing ELSE SizeOverride(Last(given)))
MergeTarget(m, target) ==
  MergeGiven(m, target.key, FlattenSeq([i \in DOMAIN target.members |-> target.members[i].entry.archives]), Given(target))

-----------------------------------------------------------------------------
(* Packs, texts, patches, the size table.                                  *)

\* The packs of write_packs, in the order they come up.
Packs(m) == FoldLeft(LAMBDA order, e : IF e.archive \in ToSet(order) THEN order ELSE Append(order, e.archive), <<>>, m.entries)

\* A round of write_packs: the game's pack, less what was removed, with what
\* was put in it, in the order it was.
PutInPack(st, e) ==
  IF e.name \in DOMAIN st.of /\ st.of[e.name] = Deleted
  THEN [st EXCEPT !.of = [name \in DOMAIN @ \ {e.name} |-> @[name]]]
  ELSE [m |-> IF e.placeholder THEN st.m ELSE Collect(st.m, RelativePath(e.name, NoVersion, ""), e.content, e.override),
        of |-> With(st.of, e.name, e.content)]
WriteArchive(st, relative) == WriteSimple(st.m, relative, Archive(st.of))
WritePackOver(m, relative, entries, tracked, vanilla) ==
  IF ~tracked /\ vanilla.type = "whole" THEN Warn(m)
  ELSE WriteArchive(FoldLeft(PutInPack, [m |-> m, of |-> IF vanilla.type = "archive" THEN vanilla.of ELSE <<>>], entries), relative)
PackEntries(m, pack, relative, entries) ==
  WritePackOver(m, relative, entries, pack \in DOMAIN m.tracked,
                IF pack \in DOMAIN m.tracked THEN Archive(m.tracked[pack]) ELSE Vanilla(relative).content)
WritePackOf(m, pack, entries) == PackEntries(m, pack, Relative(pack, entries[1].attribute), entries)
WritePack(m, pack) == WritePackOf(m, pack, SelectSeq(m.entries, LAMBDA e : e.archive = pack))

\* write_resource_size_table.
WriteTable(m) == Serve(m, SizeTablePath, Content("sizes", m.table, ""))

\* best_mals: the archive of the locale, of its language, or English.
BestMals(names, locale) ==
  LET of(name) == game.locales[name.stem]
      want == game.locales[locale]
      exact == SelectInSeq(names, LAMBDA n : of(n) = want)
      language == SelectLastInSeq(names, LAMBDA n : of(n).language = want.language)
      english == SelectLastInSeq(names, LAMBDA n : of(n).language = "en")
  IN  names[IF exact # 0 THEN exact ELSE IF language # 0 THEN language ELSE IF english # 0 THEN english ELSE 1]

\* A round of merge_mals: a locale's texts, from each changelog the archive closest to it.
TextsOf(changelog, locale) == Read(changelog, Stored(BestMals(changelog.mals, locale), NoVersion))
TextInputs(changelogs, locale) ==
  LET with == SelectSeq(changelogs, LAMBDA changelog : changelog.mals # <<>>)
  IN  SelectSeq([i \in DOMAIN with |-> TextsOf(with[i], locale)], LAMBDA content : content # Missing)
WriteTexts(m, relative, merged) == IF merged.failed THEN Warn(m) ELSE WriteSimple(m, relative, merged.content)
MergeTextsOver(m, relative, vanilla, inputs) ==
  CASE inputs = <<>> -> m
    [] inputs # <<>> /\ vanilla = Missing -> Warn(m)
    [] inputs # <<>> /\ vanilla # Missing -> WriteTexts(m, relative, MergeArchives(vanilla, inputs))
MergeMals(m, changelogs, locale) ==
  LET relative == Relative(Name("Mals", locale, ".sarc"), ".zs")
  IN  MergeTextsOver(m, relative, Vanilla(relative).content, TextInputs(changelogs, locale))

\* build_id_matches: an id is a sequence of digits.  Short names say too little.
BuildIdMatches(patch, build) ==
  LET shared == IF Len(patch) < Len(build) THEN Len(patch) ELSE Len(build)
  IN  /\ Len(patch) >= game.shortest
      /\ SubSeq(patch, 1, shared) = SubSeq(build, 1, shared)
      /\ \A i \in shared + 1..Len(patch) : patch[i] = 0

\* merge_patches: the mods' words over the one for the shop, in their order.
MergePatches(m, changelogs) ==
  LET all == FlattenSeq([i \in DOMAIN changelogs |-> changelogs[i].patches])
      fit == SelectSeq(all, LAMBDA patch : BuildIdMatches(patch.id, game.build))
  IN  [m EXCEPT !.patches = FoldLeft(LAMBDA words, patch : patch.words @@ words, game.shop, fit)]
=============================================================================
