------------------------------ MODULE ModBuild ------------------------------
(***************************************************************************)
(* What a mod's folder changes in the game's files: its changelog          *)
(* (sharedlibs/totk-merge/src/builder.rs).  A changelog lists entries, one *)
(* for a canonical name, and holds files and links by the name they are    *)
(* stored under: a canonical name and a version.                           *)
(***************************************************************************)
EXTENDS Rom

GameDataList == Name("GameData", "GameDataList.Product", ".byml")
TagTable == Name("RSDB", "Tag.Product", ".byml")
RowTables == {Name("RSDB", "ActorInfo.Product", ".byml")}    \* of rsdb::row_key's tables
SarcExtensions == {".bfarc", ".bkres", ".blarc", ".genvb", ".sarc", ".ta"}

\* builder_for.
BuilderFor(name) ==
  CASE name.ext = ".pack" -> "Pack"
    [] name.ext = ".bntx" /\ name.stem = "__Combined" -> "Bntx"
    [] name = GameDataList -> "GameData"
    [] name = TagTable -> "RsdbTag"
    [] name \in RowTables -> "RsdbRow"
    [] name.ext = ".msbt" -> "Msbt"
    [] name.ext \in SarcExtensions -> "Sarc"
    [] name.ext = ".bgyml" \/ (name.ext = ".byml" /\ name.dir \notin {"RSDB", "GameData"}) -> "Byml"
    [] OTHER -> "None"

\* can_process_without_vanilla.
NeedsVanilla(kind) == kind \notin {"Pack", "Bntx"}

-----------------------------------------------------------------------------
(* What a builder makes of one file: nothing ("same"), changes, an error.  *)

Same == [outcome |-> "same", changes |-> Missing]
Failed == [outcome |-> "error", changes |-> Missing]
Made(changes) == [outcome |-> "changed", changes |-> changes]
Some(changes) == IF DOMAIN changes.of = {} THEN Same ELSE Made(changes)

\* The keys of a document that are not vanilla's, and the ones it lacks.
Differing(src, vanilla) == {key \in DOMAIN src.of : key \notin DOMAIN vanilla.of \/ src.of[key] # vanilla.of[key]}
Lacking(src, vanilla) == DOMAIN vanilla.of \ DOMAIN src.of

\* byml_changelog::build_document and the builders of tables: what changed, and what went.
DocumentChanges(src, vanilla) ==
  IF src.type # "document" \/ vanilla.type # "document" THEN Failed
  ELSE Some(Changes([key \in Differing(src, vanilla) \cup Lacking(src, vanilla) |->
                       IF key \in DOMAIN src.of THEN src.of[key] ELSE Gone]))

\* build_msbt: labels are never removed; what is no MSBT has no changes.
TextChanges(src, vanilla) ==
  IF src.type # "document" THEN Same
  ELSE IF vanilla.type # "document" THEN Failed
  ELSE Some(Changes([key \in Differing(src, vanilla) |-> src.of[key]]))

RECURSIVE Built(_, _, _)

\* build_sarc: changed files, or what changed in them where that can be told.
ArchiveChanges(src, vanilla) ==
  IF src.type # "archive" \/ vanilla.type # "archive" THEN Failed
  ELSE LET kind(name) == IF name \in DOMAIN vanilla.of /\ NeedsVanilla(BuilderFor(name)) THEN BuilderFor(name) ELSE "None"
           of == [name \in Differing(src, vanilla) |->
                    IF kind(name) = "None" THEN Made(src.of[name])
                    ELSE Built(kind(name), src.of[name], vanilla.of[name])]
       IN  IF \E name \in DOMAIN of : of[name].outcome = "error" THEN Failed
           ELSE Some(Archive([name \in {n \in DOMAIN of : of[n].outcome = "changed"} |-> of[name].changes]))

\* build, for the builders that make one changelog.
Built(kind, src, vanilla) ==
  CASE kind = "Msbt" -> TextChanges(src, vanilla)
    [] kind = "Sarc" -> ArchiveChanges(src, vanilla)
    [] kind \in {"GameData", "RsdbTag", "RsdbRow", "Byml"} -> DocumentChanges(src, vanilla)

-----------------------------------------------------------------------------
NoChangelog == [entries |-> <<>>, mals |-> <<>>, patches |-> <<>>, code |-> <<>>, files |-> <<>>, links |-> <<>>]
NoArchive == Name("", "", "")
InvalidName(name) == name.stem = "invalid:name"         \* has_invalid_file_name
Stored(name, version) == <<name, version>>

EntryOf(changelog, name) == SelectInSeq(changelog.entries, LAMBDA entry : entry.name = name)

\* add_metadata: message archives are listed apart; another entry is made once
\* and takes the kind of the last write.
AddEntry(changelog, name, attribute, kind, version, archive) ==
  IF name.dir = "Mals" THEN [changelog EXCEPT !.mals = Append(@, name)]
  ELSE LET fresh == [name |-> name, kind |-> kind, attribute |-> attribute, versions |-> <<>>, archives |-> <<>>]
           written(entry) == [entry EXCEPT !.kind = kind,
                                           !.versions = IF version = NoVersion THEN @ ELSE Append(@, version),
                                           !.archives = IF archive = NoArchive THEN @ ELSE Append(@, archive)]
           listed(entries, known) == IF known = 0 THEN Append(entries, written(fresh)) ELSE [entries EXCEPT ![known] = written(@)]
       IN  [changelog EXCEPT !.entries = listed(@, EntryOf(changelog, name))]

StoredName(name, version) == IF name.dir = "Mals" THEN Stored(name, NoVersion) ELSE Stored(name, version)

\* FolderSink.write; a placeholder has no content.
WriteEntry(changelog, at, name, kind, archive, content) ==
  IF InvalidName(name) THEN changelog
  ELSE [AddEntry(changelog, name, at.suffix, kind, at.version, archive) EXCEPT
          !.files = IF kind = "Placeholder" THEN @ ELSE With(@, StoredName(name, at.version), content)]

\* A whole file, served from the mod's folder.
Link(changelog, at, name, content) ==
  [AddEntry(changelog, name, at.suffix, "Copy", at.version, NoArchive) EXCEPT
     !.links = With(@, StoredName(name, at.version), content)]

\* PackSink.write: what a nested builder makes is an entry of the pack's.
WriteNested(changelog, at, name, pack, changes) == WriteEntry(changelog, at, name, "Changelog", pack, changes)

\* A step of a builder of packs: the changelog, the pack's own, whether
\* something changed, whether a builder failed.
PackState(changelog) == [changelog |-> changelog, own |-> <<>>, nested |-> FALSE, failed |-> FALSE]

\* move_content.
MoveContent(st, at, pack, name, content) ==
  [st EXCEPT !.changelog = WriteEntry(@, at, name, "Copy", pack, content),
             !.own = With(@, name, Empty), !.nested = TRUE]

\* What a builder made of a file of a pack.
NestedMade(st, at, pack, name, built) ==
  CASE built.outcome = "same" -> st
    [] built.outcome = "error" -> [st EXCEPT !.failed = TRUE]
    [] built.outcome = "changed" ->
         [st EXCEPT !.changelog = WriteNested(@, at, name, pack, built.changes), !.nested = TRUE]

\* A file of a pack that differs from vanilla's, where a builder may know what changed.
BuildNested(st, at, pack, name, content, vanilla) ==
  IF BuilderFor(name) \in {"None", "Bntx"} THEN MoveContent(st, at, pack, name, content)
  ELSE NestedMade(st, at, pack, name, Built(BuilderFor(name), content, vanilla))

\* A round of build_pack.  A file of the game's that the pack does not
\* normally hold is a placeholder, whatever is made of it next.
BuildPackFile(st, at, pack, name, content, vanilla) ==
  LET here == name \in DOMAIN vanilla.of
      base == IF here THEN vanilla.of[name] ELSE VanillaNamed(name)
      placed == [st EXCEPT !.changelog = WriteEntry(@, at, name, "Placeholder", pack, Empty), !.nested = TRUE]
  IN  IF st.failed \/ (here /\ content = base) THEN st
      ELSE IF content = Deleted THEN [st EXCEPT !.failed = TRUE]
      ELSE IF base = Missing THEN MoveContent(st, at, pack, name, content)
      ELSE BuildNested(IF content = base THEN placed ELSE st, at, pack, name, content, base)

\* A round of extract_custom_pack: a pack the game does not have.
Place(st, at, pack, name, kind, content) == [st EXCEPT !.changelog = WriteEntry(@, at, name, kind, pack, content)]
ExtractMade(st, at, pack, name, built) ==
  IF built.outcome = "same" THEN Place(st, at, pack, name, "Placeholder", Empty) ELSE NestedMade(st, at, pack, name, built)

ExtractFile(st, at, pack, name, content) ==
  LET base == VanillaNamed(name)
      known == BuilderFor(name) \notin {"None", "Bntx"}
  IN  CASE st.failed -> st
        [] ~st.failed /\ content # base /\ (base = Missing \/ ~known) -> Place(st, at, pack, name, "Copy", content)
        [] ~st.failed /\ content = base -> Place(st, at, pack, name, "Placeholder", content)
        [] OTHER -> ExtractMade(st, at, pack, name, Built(BuilderFor(name), content, base))

PackResult(st, outcome) == [changelog |-> st.changelog, outcome |-> outcome]

\* The end of build_pack: what the pack's own changelog holds, if anything.
Settled(st, at, pack, own) ==
  IF st.failed THEN PackResult(st, "error")
  ELSE IF own = <<>> THEN PackResult(st, IF st.nested THEN "changed" ELSE "same")
  ELSE PackResult([st EXCEPT !.changelog = WriteEntry(@, at, pack, "Changelog", NoArchive, Archive(own))], "changed")
SettledLacking(st, at, pack, lacking) == Settled(st, at, pack, st.own @@ [name \in lacking |-> Deleted])

BuildPackFiles(changelog, at, pack, src, vanilla) ==
  FoldLeft(LAMBDA st, name : BuildPackFile(st, at, pack, name, src.of[name], vanilla), PackState(changelog), SetToSeq(DOMAIN src.of))

\* extract_custom_pack.
Extracted(st) == PackResult(st, IF st.failed THEN "error" ELSE "changed")
ExtractPack(changelog, at, pack, src) ==
  Extracted(FoldLeft(LAMBDA st, name : ExtractFile(st, at, pack, name, src.of[name]), PackState(changelog), SetToSeq(DOMAIN src.of)))

\* Mutant of BuildPack: files the mod took out of the pack are not noted.
BuildPackWithoutRemovals(changelog, at, pack, src, vanilla) ==
  IF vanilla = Missing THEN ExtractPack(changelog, at, pack, src)
  ELSE SettledLacking(BuildPackFiles(changelog, at, pack, src, vanilla), at, pack, {})

\* build_pack: its files one after the other, then what it no longer holds.
BuildPack(changelog, at, pack, src, vanilla) ==
  CASE src.type # "archive" \/ vanilla.type = "whole" -> [changelog |-> changelog, outcome |-> "error"]
    [] src.type = "archive" /\ vanilla = Missing -> ExtractPack(changelog, at, pack, src)
    [] src.type = "archive" /\ vanilla.type = "archive" ->
         SettledLacking(BuildPackFiles(changelog, at, pack, src, vanilla), at, pack, Lacking(src, vanilla))

\* build: a file of the mod's against the game's.
Noted(changelog, path, name, built) ==
  [outcome |-> built.outcome,
   changelog |-> IF built.outcome = "changed" THEN WriteEntry(changelog, path, name, "Changelog", NoArchive, built.changes) ELSE changelog]
Build(changelog, kind, path, name, content, vanilla) ==
  IF kind = "Pack" THEN BuildPack(changelog, path, name, content, vanilla)
  ELSE Noted(changelog, path, name, Built(kind, content, vanilla))

-----------------------------------------------------------------------------
(* Code patches: an .ips file gives bytes by address, kept where a whole   *)
(* word of WordSize is given.                                              *)

WordSize == 2

\* parse_ips.  Records that come later write over earlier ones.
ParseIps(id, records) ==
  LET bytes == FoldLeft(LAMBDA b, r : [a \in DOMAIN b \cup {r[1]} |-> IF a = r[1] THEN r[2] ELSE b[a]], <<>>, records)
      words == {a \div WordSize : a \in DOMAIN bytes}
      complete == {w \in words : \A i \in 0..WordSize - 1 : w * WordSize + i \in DOMAIN bytes}
  IN  [id |-> id, words |-> [w \in complete |-> [i \in 0..WordSize - 1 |-> bytes[w * WordSize + i]]]]

\* build_folder, the files under exefs.
ExefsFile(changelog, file) ==
  IF file.path.name.ext \in {".ips", ".pchtxt"}
  THEN [changelog EXCEPT !.patches = Append(@, ParseIps(file.path.name.stem, file.content.of))]
  ELSE [changelog EXCEPT !.code = Append(@, file.path.name)]

\* build_folder, the files under romfs.  One no builder could read is linked.
LinkFailed(file, name, built) ==
  IF built.outcome = "error" THEN Link(built.changelog, file.path, name, file.content) ELSE built.changelog
RomfsFile(changelog, file) ==
  LET name == Canonical(file.path).name
      kind == BuilderFor(name)
      vanilla == VanillaOf(name, file.path.suffix)
  IN  IF name.ext = ".rsizetable" THEN changelog
      ELSE IF kind \in {"None", "Bntx"} \/ (vanilla = Missing /\ NeedsVanilla(kind))
           THEN Link(changelog, file.path, name, file.content)
      ELSE LinkFailed(file, name, Build(changelog, kind, file.path, name, file.content, vanilla))

\* build_folder: a mod's files in the order of their paths.
BuildFolder(files) ==
  LET step(changelog, file) ==
        CASE Root(file.path) = "romfs" -> RomfsFile(changelog, file)
          [] Root(file.path) = "exefs" -> ExefsFile(changelog, file)
          [] OTHER -> changelog
  IN  FoldLeft(step, NoChangelog, files)

\* create_changelogs_external: changes against another file than the game's.
ChangesAgainst(name, base, targets) ==
  LET kind == BuilderFor(name)
      built == [i \in DOMAIN targets |-> Built(kind, targets[i], base)]
  IN  IF kind \in {"Pack", "Bntx", "None"} \/ \E i \in DOMAIN built : built[i].outcome = "error" THEN [failed |-> TRUE, changes |-> <<>>]
      ELSE LET made == SelectSeq(built, LAMBDA b : b.outcome = "changed")
           IN  [failed |-> FALSE, changes |-> [i \in DOMAIN made |-> made[i].changes]]
=============================================================================
