--------------------------- MODULE ChangelogCache ---------------------------
(***************************************************************************)
(* The changelogs of folder mods kept on the SD card (cache.rs of          *)
(* sharedlibs/totk-merge/src, Engine::load_folder of engine.rs, and the    *)
(* fingerprint of a folder, mods.rs).                                      *)
(*                                                                         *)
(* A merge loads its mods one after the other, and reads their files only  *)
(* once all are loaded.  Each call that changes the card is an action: it  *)
(* can fail, and the power can go before, during and after it.  The reads  *)
(* behind a fingerprint or a changelog are part of the action that uses    *)
(* them, and can fail too: what they would have given is left out.         *)
(* Folders change, and the game is updated, between two merges.  Texts are *)
(* sequences of characters, numbers in a text are one character.           *)
(***************************************************************************)
EXTENDS Naturals, FiniteSets, SequencesExt

CONSTANTS
  Order,        \* the mods of the plan, in its order: the names of their folders
  NameOf,       \* NameOf[mod]: its name, as mod.ini gives it
  Plain,        \* letters, digits, "-" and "_"
  MaxName,      \* how much of a name is kept (48)
  Contents,     \* Contents[mod]: what its folder may hold, [file -> [size, data]]
  Documents,    \* files that are compared with the game's; the others are used as they are
  Aside,        \* files that are not merged (mod.ini, thumbnails, read-mes)
  Games,        \* versions of the game
  LostTogether, \* bound: what one failing listing or read leaves out
  MaxFaults,    \* bound: steps in which calls fail
  MaxCrashes,   \* bound: power cuts
  MaxChanges    \* bound: changes of folders and updates of the game

Mods == ToSet(Order)
Characters == Plain \cup UNION {ToSet(NameOf[mod]) : mod \in Mods}
Files == UNION {UNION {DOMAIN content : content \in Contents[mod]} : mod \in Mods}

\* What is read of a file: its place in a listing, for the fingerprint; its
\* place in another and its bytes, to work out what it changes; and the game's.
Reads == {"listing", "folder", "game"} \X Files

ASSUME ChangelogCacheAssumption ==
  /\ MaxName \in Nat /\ "_" \in Plain /\ "-" \in Plain
  /\ Order \in Seq(Mods) /\ NameOf \in [Mods -> Seq(Characters)] /\ DOMAIN Contents = Mods
  /\ LostTogether \subseteq SUBSET Reads
  /\ MaxFaults \in Nat /\ MaxCrashes \in Nat /\ MaxChanges \in Nat

VARIABLES
  folder,       \* folder[mod]: what it holds
  game,         \* the version of the game
  entries,      \* the folder of changelogs: [name of entry -> [file -> its content]]
  pc, at,       \* the step of the merge, and the place of the mod it loads
  forced,       \* force_merge
  dir,          \* the entry in hand
  built,        \* the changes just worked out
  victims,      \* entries prune has yet to delete
  loaded,       \* the changelogs of the mods before "at"
  halfRemoved,  \* history: entries whose removal ended early
  unread,       \* history: <<entry, what>>, for entries made while reads of that failed
  faults, crashes, changes

world == <<folder, game, changes>>
bounds == <<faults, crashes>>
history == <<halfRemoved, unread>>
vars == <<world, entries, pc, at, forced, dir, built, victims, loaded, history, bounds>>

-----------------------------------------------------------------------------
(* Names of entries.                                                       *)

Least(m, n) == IF m < n THEN m ELSE n

SafeName(name) == [i \in 1..Least(MaxName, Len(name)) |-> IF name[i] \in Plain THEN name[i] ELSE "_"]

\* entry_name: the fingerprint is one character, or missing.
EntryName(name, fingerprint) == SafeName(name) \o <<"-">> \o fingerprint

\* The reads that fail in a step, and what they were of.
Losses == {{}} \cup LostTogether
ListingLosses == {lost \in Losses : \A read \in lost : read[1] = "listing"}
Kinds(lost) == {read[1] : read \in lost}

\* The files that are merged, as far as they can be read.
MergedFiles(content, what, lost) == {file \in DOMAIN content \ Aside : <<what, file>> \notin lost}

\* Mutant of Listed: the names of the files only.
ListedByName(content, lost) == [file \in MergedFiles(content, "listing", lost) |-> 0]

\* content_fingerprint: the files that are merged, and their sizes.
Listed(content, lost) == [file \in MergedFiles(content, "listing", lost) |-> content[file].size]

\* The fingerprint has a fixed length, and no two mods have the same path.
Fingerprint(mod, lost) == <<[path |-> mod, files |-> Listed(folder[mod], lost), game |-> game]>>

EntryOf(mod, lost) == EntryName(NameOf[mod], Fingerprint(mod, lost))

-----------------------------------------------------------------------------
(* What a folder changes, in memory.                                       *)

PathOf(mod, file) == <<mod, "/">> \o file

\* What comparing a document with the game's gives: as many bytes as it has.
\* 0 stands for no version.
Compared(document, version) == [i \in 1..document.size |-> <<document.data, version>>]
Bytes(file) == [i \in 1..file.size |-> <<file.data, 0>>]

\* build_folder, as far as the cache tells its files apart: a file that is not
\* listed or cannot be read is left out, a document whose counterpart in the
\* game cannot be read is used as it is.
Build(mod, content, version, lost) ==
  LET merged == MergedFiles(content, "folder", lost)
      compared == {file \in merged \cap Documents : <<"game", file>> \notin lost}
  IN [entries |-> merged, version |-> version,
      files |-> [file \in compared |-> Compared(content[file], version)],
      links |-> [file \in merged \ compared |-> PathOf(mod, file)],
      unread |-> Kinds(lost)]

-----------------------------------------------------------------------------
(* The three files of an entry, and what they read back to.                *)

Escape(text) ==
  FlattenSeq([i \in 1..Len(text) |->
    CASE text[i] = "\\" -> <<"\\", "\\">> [] text[i] = "\t" -> <<"\\", "t">>
      [] text[i] = "\n" -> <<"\\", "n">> [] OTHER -> <<text[i]>>])

Unescape(text) ==
  LET Next1(read, c) ==
        IF read.escaped THEN [escaped |-> FALSE, out |-> Append(read.out, IF c = "t" THEN "\t" ELSE IF c = "n" THEN "\n" ELSE c)]
        ELSE IF c = "\\" THEN [read EXCEPT !.escaped = TRUE]
        ELSE [read EXCEPT !.out = Append(@, c)]
  IN FoldLeft(Next1, [escaped |-> FALSE, out |-> <<>>], text).out

Split(text, separator) ==
  LET Next1(parts, c) == IF c = separator THEN Append(parts, <<>>) ELSE [parts EXCEPT ![Len(parts)] = Append(@, c)]
  IN FoldLeft(Next1, <<<<>>>>, text)

\* The files, one after the other: the blob, and where each begins.
Names(changed) == SetToSeq(DOMAIN changed.files)
Before(changed, n) == FlattenSeq([i \in 1..n |-> changed.files[Names(changed)[i]]])
Blob(changed) == Before(changed, Len(Names(changed)))

IndexText(changed) ==
  LET names == Names(changed)
      links == SetToSeq(DOMAIN changed.links)
  IN FlattenSeq([i \in 1..Len(names) |->
         Escape(names[i]) \o <<"\t", "b", "\t", ToString(Len(Before(changed, i - 1))), "\t", ToString(Len(changed.files[names[i]])), "\n">>])
     \o FlattenSeq([i \in 1..Len(links) |-> Escape(links[i]) \o <<"\t", "f", "\t">> \o Escape(changed.links[links[i]]) \o <<"\n">>])

\* Changelog::write and read: the layout ends with lists that are always there,
\* so that what is cut short is an error.
ChangelogText(changed) == <<"TKCL", changed.version, changed.entries, "end">>
ReadsAsChangelog(text) == Len(text) = 4 /\ text[1] = "TKCL"

Number(field) == {n \in 0..20 : field = <<ToString(n)>>}
IsBlobLine(fields) == Len(fields) = 4 /\ fields[2] = <<"b">> /\ Number(fields[3]) # {} /\ Number(fields[4]) # {}
IsFileLine(fields) == Len(fields) = 3 /\ fields[2] = <<"f">>

IndexLines(text) == LET lines == Split(text, "\n") IN {Split(line, "\t") : line \in ToSet(lines) \ {<<>>}}

Location(fields) ==
  IF IsFileLine(fields) THEN [path |-> Unescape(fields[3])]
  ELSE [offset |-> CHOOSE n \in Number(fields[3]) : TRUE, size |-> CHOOSE n \in Number(fields[4]) : TRUE]

\* What could not be read when an entry was made.
UnreadOf(entry) == {u[2] : u \in {v \in unread : v[1] = entry}}

\* load: the blob is not looked at.
Loadable(entry) ==
  /\ entry \in DOMAIN entries
  /\ {"changelog", "index"} \subseteq DOMAIN entries[entry]
  /\ \A fields \in IndexLines(entries[entry]["index"]) : IsBlobLine(fields) \/ IsFileLine(fields)
  /\ ReadsAsChangelog(entries[entry]["changelog"])

Load(entry, lost) ==
  LET lines == IndexLines(entries[entry]["index"])
  IN [entry |-> entry, entries |-> entries[entry]["changelog"][3],
      unread |-> Kinds(lost) \cup UnreadOf(entry),
      index |-> [file \in {Unescape(fields[1]) : fields \in lines} |->
                   Location(CHOOSE fields \in lines : Unescape(fields[1]) = file)]]

\* into_changelog
InMemory(changed) == [entries |-> changed.entries, memory |-> changed, unread |-> changed.unread]

Missing == <<"missing">>
ReadPath(path) ==
  LET found == {f \in UNION {{<<mod, file>> : file \in DOMAIN folder[mod]} : mod \in Mods} : PathOf(f[1], f[2]) = path}
  IN IF found = {} THEN Missing ELSE LET f == CHOOSE f \in found : TRUE IN Bytes(folder[f[1]][f[2]])

\* ChangelogSource::read: of the blob, opened only now, or of the mod's folder.
ReadFrom(changelog, file) ==
  IF "memory" \in DOMAIN changelog THEN
    IF file \in DOMAIN changelog.memory.files THEN changelog.memory.files[file]
    ELSE IF file \in DOMAIN changelog.memory.links THEN ReadPath(changelog.memory.links[file]) ELSE Missing
  ELSE IF file \notin DOMAIN changelog.index THEN Missing
  ELSE LET place == changelog.index[file] IN
    IF "path" \in DOMAIN place THEN ReadPath(place.path)
    ELSE IF changelog.entry \in DOMAIN entries /\ "data" \in DOMAIN entries[changelog.entry]
            /\ Len(entries[changelog.entry]["data"]) >= place.offset + place.size
         THEN SubSeq(entries[changelog.entry]["data"], place.offset + 1, place.offset + place.size)
         ELSE Missing

-----------------------------------------------------------------------------
(* The environment.                                                        *)

NoDir == <<>>
NoChanges == [entries |-> {}, version |-> 0, files |-> <<>>, links |-> <<>>, unread |-> {}]

Init ==
  /\ folder \in [Mods -> UNION {Contents[mod] : mod \in Mods}]
  /\ \A mod \in Mods : folder[mod] \in Contents[mod]
  /\ game = CHOOSE first \in Games : \A g \in Games : first <= g
  /\ entries = <<>> /\ pc = "off" /\ at = 1 /\ forced = FALSE /\ dir = NoDir /\ built = NoChanges
  /\ victims = {} /\ loaded = <<>> /\ halfRemoved = {} /\ unread = {}
  /\ faults = 0 /\ crashes = 0 /\ changes = 0

Engine == <<entries, pc, at, forced, dir, built, victims, loaded, history, bounds>>

\* Between two merges the user changes what a mod's folder holds, or updates the game.
ChangeFolder(mod) ==
  /\ pc = "off" /\ changes < MaxChanges
  /\ \E content \in Contents[mod] \ {folder[mod]} : folder' = [folder EXCEPT ![mod] = content]
  /\ changes' = changes + 1
  /\ UNCHANGED <<game, Engine>>

UpdateGame ==
  /\ pc = "off" /\ changes < MaxChanges
  /\ game' \in {g \in Games : g > game} /\ changes' = changes + 1
  /\ UNCHANGED <<folder, Engine>>

\* The calls of a step do what they should, or some of them fail.
Fault == faults < MaxFaults /\ faults' = faults + 1 /\ UNCHANGED crashes
NoFault == UNCHANGED bounds
FaultIf(failed) == IF failed THEN Fault ELSE NoFault

-----------------------------------------------------------------------------
(* A merge: load_folder for each mod, then the mods are read.              *)

Mod == Order[at]

Start ==
  /\ pc = "off"
  /\ pc' = "loading" /\ at' = 1 /\ loaded' = <<>> /\ forced' \in BOOLEAN
  /\ UNCHANGED <<world, entries, dir, built, victims, history, bounds>>

Loaded(changelog) ==
  loaded' = Append(loaded, changelog) /\ at' = at + 1 /\ pc' = "loading" /\ dir' = NoDir /\ built' = NoChanges

LoadCached ==
  /\ pc = "loading" /\ at <= Len(Order) /\ ~forced
  /\ \E lost \in ListingLosses :
       /\ FaultIf(lost # {}) /\ Loadable(EntryOf(Mod, lost))
       /\ Loaded(Load(EntryOf(Mod, lost), lost))
  /\ UNCHANGED <<world, entries, forced, victims, history>>

\* No entry, a part of one, or one that cannot be read.
WorkOut ==
  /\ pc = "loading" /\ at <= Len(Order)
  /\ \E lost \in Losses :
       /\ dir' = EntryOf(Mod, lost)
       /\ \/ FaultIf(lost # {}) /\ (forced \/ ~Loadable(dir'))
          \/ Fault /\ ~forced /\ Loadable(dir')
       /\ built' = Build(Mod, folder[Mod], game, lost)
  /\ pc' = IF dir' \in DOMAIN entries THEN "clearing" ELSE "creating"
  /\ UNCHANGED <<world, entries, at, forced, victims, loaded, history>>

\* What was worked out is used, stored or not.
GiveUp == Fault /\ Loaded(InMemory(built)) /\ victims' = {}

\* remove_dir_all, a file at a time: in no order the code chooses.
RemoveFrom(entry) ==
  IF DOMAIN entries[entry] = {} THEN entries' = [e \in DOMAIN entries \ {entry} |-> entries[e]]
  ELSE \E file \in DOMAIN entries[entry] :
         entries' = [entries EXCEPT ![entry] = [f \in DOMAIN entries[entry] \ {file} |-> entries[entry][f]]]

Clear ==
  /\ pc = "clearing"
  /\ \/ /\ NoFault /\ RemoveFrom(dir)
        /\ pc' = IF dir \in DOMAIN entries' THEN "clearing" ELSE "creating"
        /\ halfRemoved' = IF dir \in DOMAIN entries' THEN halfRemoved ELSE halfRemoved \ {dir}
        /\ UNCHANGED <<at, dir, built, victims, loaded>>
     \/ /\ GiveUp /\ halfRemoved' = halfRemoved \cup {dir} /\ UNCHANGED entries
  /\ UNCHANGED <<world, forced, unread>>

Create ==
  /\ pc = "creating"
  /\ \/ /\ NoFault /\ pc' = "data"
        /\ entries' = [e \in DOMAIN entries \cup {dir} |-> IF e = dir THEN <<>> ELSE entries[e]]
        /\ unread' = {u \in unread : u[1] \in DOMAIN entries \ {dir}} \cup ({dir} \X built.unread)
        /\ UNCHANGED <<at, dir, built, victims, loaded>>
     \/ GiveUp /\ UNCHANGED <<entries, unread>>
  /\ UNCHANGED <<world, forced, halfRemoved>>

With(file, content) == [entries EXCEPT ![dir] = [f \in DOMAIN @ \cup {file} |-> IF f = file THEN content ELSE @[f]]]

\* Nothing is in the file, or all but the end.
Cuts(content) == {<<>>} \cup IF content = <<>> THEN {} ELSE {Front(content)}
CutShort(file, content) == entries' \in {entries} \cup {With(file, part) : part \in Cuts(content)}

Write(file, content, then) ==
  /\ \/ NoFault /\ entries' = With(file, content) /\ pc' = then /\ UNCHANGED <<at, dir, built, loaded, victims>>
     \/ GiveUp /\ CutShort(file, content)
  /\ UNCHANGED <<world, forced, history>>

\* store, after the folder is made: the blob, the index, and the changelog last.
WriteData == pc = "data" /\ Write("data", Blob(built), "index")
WriteIndex == pc = "index" /\ Write("index", IndexText(built), "changelog")
WriteChangelog == pc = "changelog" /\ Write("changelog", ChangelogText(built), "listing")

\* Mutant of Outdated: the length of the name is not looked at.
OutdatedOfAnyLength(keep) ==
  {e \in DOMAIN entries : IsPrefix(EntryName(NameOf[Mod], <<>>), e) /\ e # keep}

\* Mutant of Outdated: the fingerprint is left in what names must begin with.
OutdatedOfFingerprint(keep) ==
  {e \in DOMAIN entries : Len(e) = Len(keep) /\ IsPrefix(keep, e) /\ e # keep}

\* The entries prune deletes.
Outdated(keep) ==
  {e \in DOMAIN entries : IsPrefix(EntryName(NameOf[Mod], <<>>), e) /\ e # keep /\ Len(e) = Len(keep)}

ListEntries ==
  /\ pc = "listing"
  /\ \/ NoFault /\ pc' = "pruning" /\ victims' = Outdated(dir) /\ UNCHANGED <<at, dir, built, loaded>>
     \/ GiveUp
  /\ UNCHANGED <<world, entries, forced, history>>

\* A removal that fails is passed over.
Prune(entry) ==
  /\ pc = "pruning" /\ entry \in victims
  /\ \/ /\ NoFault /\ RemoveFrom(entry)
        /\ victims' = IF entry \in DOMAIN entries' THEN victims ELSE victims \ {entry}
        /\ halfRemoved' = IF entry \in DOMAIN entries' THEN halfRemoved ELSE halfRemoved \ {entry}
     \/ /\ Fault /\ victims' = victims \ {entry} /\ halfRemoved' = halfRemoved \cup {entry}
        /\ UNCHANGED entries
  /\ UNCHANGED <<world, pc, at, forced, dir, built, loaded, unread>>

Pruned ==
  /\ pc = "pruning" /\ victims = {}
  /\ Loaded(InMemory(built))
  /\ UNCHANGED <<world, entries, forced, victims, history, bounds>>

\* Every mod is loaded: conflicts are looked for and files merged from here on.
Merge ==
  /\ pc = "loading" /\ at > Len(Order) /\ pc' = "merging"
  /\ UNCHANGED <<world, entries, at, forced, dir, built, victims, loaded, history, bounds>>

Finish ==
  /\ pc = "merging" /\ pc' = "off" /\ at' = 1 /\ loaded' = <<>> /\ forced' = FALSE
  /\ UNCHANGED <<world, entries, dir, built, victims, history, bounds>>

\* The power goes: what is being written is cut short, what is being removed stays in part.
PowerCut ==
  /\ pc # "off" /\ crashes < MaxCrashes /\ crashes' = crashes + 1
  /\ CASE pc = "data" -> CutShort("data", Blob(built))
       [] pc = "index" -> CutShort("index", IndexText(built))
       [] pc = "changelog" -> CutShort("changelog", ChangelogText(built))
       [] OTHER -> UNCHANGED entries
  /\ halfRemoved' = halfRemoved \cup victims \cup IF pc = "clearing" THEN {dir} ELSE {}
  /\ pc' = "off" /\ at' = 1 /\ loaded' = <<>> /\ forced' = FALSE
  /\ dir' = NoDir /\ built' = NoChanges /\ victims' = {}
  /\ UNCHANGED <<world, unread, faults>>

Next ==
  \/ \E mod \in Mods : ChangeFolder(mod)
  \/ UpdateGame \/ Start \/ LoadCached \/ WorkOut \/ Clear \/ Create
  \/ WriteData \/ WriteIndex \/ WriteChangelog \/ ListEntries
  \/ \E entry \in victims : Prune(entry)
  \/ Pruned \/ Merge \/ Finish \/ PowerCut

Spec == Init /\ [][Next]_vars

-----------------------------------------------------------------------------
(* Properties.                                                             *)

SameSafeName(m, n) == SafeName(NameOf[m]) = SafeName(NameOf[n])
SameSizes(c, d) ==
  DOMAIN c \ Aside = DOMAIN d \ Aside /\ \A file \in DOMAIN c \ Aside : c[file].size = d[file].size
Alone(mod) == \A other \in Mods \ {mod} : ~SameSafeName(mod, other)
\* A list of all that a folder holds, less what could not be read.
ListsAFolder(list, held, lost) == list = held \/ ("folder" \in lost /\ list \subseteq held)
EntriesOf(mod) == {e \in DOMAIN entries : EntryName(NameOf[mod], <<>>) = Front(e)}

\* What a mod is merged with is what its folder holds now, compared with the
\* game there is now, whether it was worked out or kept: all of its files, and
\* none of another mod, an older version or a part of an entry.  A read that
\* failed when it was worked out costs no more than what was to be read: with
\* the fingerprint right, a file may be left out, or a document used as it is,
\* and nothing that is not the mod's gets in.  A document may be one the folder
\* held before under the same name and size.  It leaves out entries found under
\* the wrong fingerprint, entries whose removal ended early, and mods whose
\* names look the same.
MergedModsAreTheirOwn ==
  pc = "merging" =>
    \A i \in 1..Len(Order) :
      LET mod == Order[i]
          now == folder[mod]
          alike == {content \in Contents[mod] : SameSizes(content, now)}
          AsItIs(file) == ReadFrom(loaded[i], file) = Bytes(now[file])
          Changes(file) == \E content \in alike : ReadFrom(loaded[i], file) = Compared(content[file], game)
      IN /\ Alone(mod) /\ "listing" \notin loaded[i].unread
         /\ ~("entry" \in DOMAIN loaded[i] /\ loaded[i].entry \in halfRemoved)
         => /\ ListsAFolder(loaded[i].entries, DOMAIN now \ Aside, loaded[i].unread)
            /\ \A file \in loaded[i].entries :
                 IF file \in Documents THEN Changes(file) \/ ("game" \in loaded[i].unread /\ AsItIs(file)) ELSE AsItIs(file)

\* The card does not fill with entries of mods that changed: past the last one,
\* an older one only stays for a call that failed or a power cut.
EntriesDoNotPileUp ==
  pc \in {"off", "merging"} => \A mod \in Mods : Cardinality(EntriesOf(mod)) <= 1 + faults + crashes

\* Loading a mod takes nothing from the entries of mods whose names look
\* otherwise, even when one name begins with the other.
OthersKeepTheirEntries ==
  [][\A mod \in Mods : (pc # "off" /\ at <= Len(Order) /\ ~SameSafeName(Mod, mod)) =>
        \A e \in EntriesOf(mod) : e \in DOMAIN entries' /\ entries'[e] = entries[e]]_vars

\* prune "deletes cache entries of `mod_name`": of that mod, whatever the
\* others are called.
PruneIsOfOneMod ==
  [][pc = "pruning" => \A e \in DOMAIN entries : e[Len(e)].path # Mod => e \in DOMAIN entries' /\ entries'[e] = entries[e]]_vars
=============================================================================
