---------------------------- MODULE MergeCache ----------------------------
(***************************************************************************)
(* The merges kept on the SD card, and the engine that looks for one,      *)
(* makes one and cleans up (merge_cache.rs, and Engine::merge and          *)
(* Engine::serve of engine.rs, in sharedlibs/totk-merge/src).              *)
(*                                                                         *)
(* The same code runs in the plugin at boot and in the mod manager, never  *)
(* in both at once: one session at a time.  Every call that changes the SD *)
(* card is an action of its own, so that the power can go, or the call can *)
(* fail, between any two.  What a session reads cannot change under it:    *)
(* runs of reads are part of the action that uses them, and any of them    *)
(* can fail.                                                               *)
(***************************************************************************)
EXTENDS Naturals, FiniteSets, SequencesExt

CONSTANTS
  Plans,        \* mods and settings, as plan_fingerprint tells them apart
  Games,        \* versions of the game
  Locales,      \* the languages the game has texts in
  LocaleLists,  \* bound: the lists of them the settings ask for
  Contents,     \* file contents, hence names in the store
  ModFiles,     \* files inside the mods' folders, served as they are
  Merged,       \* Merged[plan, locales]: contents a merge writes
  Modules,      \* Modules[plan]: contents of the modules the mods ship
  Linked,       \* Linked[plan]: files of the mods served as they are
  Keep,         \* merge_cache_size
  AtBoot,       \* the values merge_at_boot takes
  Listings,     \* bound: orders in which folders list their files
  LostTogether, \* bound: the reads of one step that fail together
  NoId,         \* stands for "no merge"
  MaxFaults,    \* bound: calls to the file system that fail
  MaxCrashes    \* bound: sessions cut short

Ids == [plan : Plans, game : Games, locales : LocaleLists]

\* Mutant of EntryFiles: the stamp is not written last.
EntryFilesStampedEarly == <<"index", "stamp", "patches", "code", "plan", "locales", "profile", "conflicts">>

\* The files of a merge's folder, in the order save writes them.
EntryFiles == <<"index", "patches", "code", "plan", "locales", "profile", "conflicts", "stamp">>
EntryFileNames == {EntryFiles[i] : i \in 1..8}

\* What can be read: recent.txt, the folders of the merges, the names in the
\* store, and the files of each merge.
Reads == {<<"recent">>, <<"folders">>, <<"store">>} \cup (Ids \X EntryFileNames)

ASSUME CacheAssumption ==
  /\ NoId \notin Ids
  /\ LocaleLists \subseteq (SUBSET Locales) \ {{}}
  /\ Merged \in [Plans \X LocaleLists -> SUBSET Contents]
  /\ Modules \in [Plans -> SUBSET Contents]
  /\ Linked \in [Plans -> SUBSET ModFiles]
  /\ Keep \in Nat \ {0}
  /\ AtBoot \subseteq BOOLEAN /\ LostTogether \subseteq SUBSET Reads
  /\ Listings # {} /\ \A order \in Listings : order \in [1..8 -> EntryFileNames] /\ ToSet(order) = EntryFileNames
  /\ MaxFaults \in Nat /\ MaxCrashes \in Nat

VARIABLES
  \* the SD card
  store,        \* store[c]: "absent", "cut" (shorter than it should be) or "whole"
  dirs,         \* the merges that have a folder
  files,        \* files[i]: what is in it
  cut,          \* merges whose stamp.txt is cut short
  recorded,     \* recorded[i]: what index.tsv and code.tsv list
  recent,       \* recent.txt
  removing,     \* history: merges a file of which, and not yet the folder, was removed
  modFiles,     \* the files of mods that are there
  \* the session
  pc, id, todo, got, kept, victims, victim, removed, nextFile, outcome,
  \* the environment
  faults, crashes

card == <<store, dirs, files, cut, recorded, recent, modFiles, removing>>
session == <<id, todo, got, kept, victims, victim, removed, nextFile>>
bounds == <<faults, crashes>>
vars == <<card, pc, session, outcome, bounds>>

Nothing == [merged |-> {}, code |-> {}, links |-> {}]
NoOutcome == [id |-> NoId, merged |-> {}, code |-> {}, links |-> {}, whole |-> TRUE, unread |-> FALSE, fresh |-> FALSE]

Init ==
  /\ store = [c \in Contents |-> "absent"]
  /\ dirs = {} /\ files = [i \in Ids |-> {}] /\ cut = {}
  /\ recorded = [i \in Ids |-> Nothing]
  /\ recent = <<>> /\ modFiles = ModFiles /\ removing = {}
  /\ pc = "off" /\ id = NoId /\ todo = {} /\ got = Nothing
  /\ kept = <<>> /\ victims = {} /\ victim = NoId /\ removed = FALSE
  /\ nextFile = 1
  /\ outcome = NoOutcome
  /\ faults = 0 /\ crashes = 0

-----------------------------------------------------------------------------
(* What is read.  Of the reads of a step, those in lost fail: a file that   *)
(* cannot be read is taken for one that is not there, a folder that cannot *)
(* be listed for an empty one.                                             *)

Losses == {{}} \cup LostTogether

\* recent_ids, entry_folders, and read.
Recent(lost) == IF <<"recent">> \in lost THEN <<>> ELSE recent
Folders(lost) == IF <<"folders">> \in lost THEN {} ELSE dirs
Has(i, file, lost) == file \in files[i] /\ <<i, file>> \notin lost

\* load_entry: stamp.txt can be read, whatever it holds.
Complete(i, lost) == i \in dirs /\ Has(i, "stamp", lost)

\* stamp.txt holds the whole of the stamp.
Stamped(i) == Complete(i, {}) /\ i \notin cut

\* locales.txt read back: without it the merge covers nothing.
LocalesOf(i, lost) == IF Has(i, "locales", lost) THEN i.locales ELSE {}

\* locales_cover: "all" is the full list.
Covers(i, needed, lost) == needed \subseteq LocalesOf(i, lost)

\* Whether a list names i, and not j before it.
ListedBefore(i, j, list) == \E m \in DOMAIN list : list[m] = i /\ \A n \in 1..m : list[n] # j

\* entries: every merge with a stamp, the listed ones first and as they are
\* listed, then the others, in listing order.
EntryLists(lost) ==
  {list \in SetToSeqs({i \in ToSet(Recent(lost)) \cup Folders(lost) : Complete(i, lost)}) :
     \A m, n \in DOMAIN list : m < n => ~ListedBefore(list[n], list[m], Recent(lost))}

\* load: None without index.tsv; the other files are read as empty when absent.
Loadable(i, lost) == Has(i, "index", lost)

Loaded(i, lost) ==
  [id |-> i, merged |-> recorded[i].merged, links |-> recorded[i].links,
   code |-> IF Has(i, "code", lost) THEN recorded[i].code ELSE {},
   whole |-> Has(i, "patches", lost) /\ Has(i, "code", lost),
   unread |-> {<<i, "patches">>, <<i, "code">>} \cap lost # {}, fresh |-> FALSE]

\* The first merge of a list that has a property, if there is one.
IsFirst(i, list, P(_)) ==
  \E n \in DOMAIN list : list[n] = i /\ P(i) /\ \A m \in 1..(n - 1) : ~P(list[m])

-----------------------------------------------------------------------------
(* The SD card.                                                            *)

\* Calls of one step fail; MaxFaults bounds how many steps they fail in.
Fault == faults < MaxFaults /\ faults' = faults + 1 /\ UNCHANGED crashes
NoFault == UNCHANGED bounds
FaultIf(failed) == IF failed THEN Fault ELSE NoFault

\* What a write of the list may leave when it fails or is interrupted.
Torn(list) == {SubSeq(list, 1, n) : n \in 0..Len(list)}

\* The file of a folder that one of the listings has first.
ListedFirst(i) ==
  {f \in files[i] : \E order \in Listings, n \in 1..8 :
     order[n] = f /\ \A m \in 1..(n - 1) : order[m] \notin files[i]}

\* remove_dir_all deletes the files in the order they are listed, then the folder.
RemoveFile(i) ==
  /\ \E f \in ListedFirst(i) :
       /\ files' = [files EXCEPT ![i] = @ \ {f}]
       /\ cut' = IF f = "stamp" THEN cut \ {i} ELSE cut
  /\ removing' = removing \cup {i}
  /\ UNCHANGED <<store, dirs, recorded, recent, modFiles>>

RemoveDir(i) ==
  /\ files[i] = {}
  /\ dirs' = dirs \ {i} /\ removing' = removing \ {i}
  /\ recorded' = [recorded EXCEPT ![i] = Nothing]
  /\ UNCHANGED <<store, files, cut, recent, modFiles>>

-----------------------------------------------------------------------------
(* A session: Engine::merge.                                               *)

\* A merge serves its files and the session is over; the game reads them.
Serve(result) == pc' = "serving" /\ outcome' = result

\* Mutant of Wanted: merge_at_boot is not looked at.
WantedWhateverTheMods(list, plan, game, needed, atBoot, lost) ==
  LET Same(i) == Stamped(i) /\ i.plan = plan /\ i.game = game /\ Covers(i, needed, lost)
      ForGame(i) == Stamped(i) /\ i.game = game
      same == {i \in Ids : IsFirst(i, list, Same) /\ Loadable(i, lost)}
  IN IF same # {} THEN same ELSE {i \in Ids : IsFirst(i, list, ForGame) /\ Loadable(i, lost)}

\* The merge whose stamp is the one wanted and whose texts are enough, first
\* in the list; failing that, with merge_at_boot off, the last merge made for
\* this version of the game.
Wanted(list, plan, game, needed, atBoot, lost) ==
  LET Same(i) == Stamped(i) /\ i.plan = plan /\ i.game = game /\ Covers(i, needed, lost)
      ForGame(i) == Stamped(i) /\ i.game = game
      same == {i \in Ids : IsFirst(i, list, Same) /\ Loadable(i, lost)}
      last == {i \in Ids : IsFirst(i, list, ForGame) /\ Loadable(i, lost)}
  IN IF same # {} THEN same ELSE IF atBoot THEN {} ELSE last

Start(plan, game, needed, force, atBoot) ==
  /\ pc = "off"
  /\ Linked[plan] \subseteq modFiles
  /\ \E lost \in Losses : \E list \in EntryLists(lost) :
       LET found == IF force THEN {} ELSE Wanted(list, plan, game, needed, atBoot, lost)
       IN /\ IF found = {}
             THEN /\ pc' = "comparing"
                  /\ id' = [plan |-> plan, game |-> game, locales |-> needed]
                  /\ UNCHANGED outcome
             ELSE /\ pc' = "touching"
                  /\ id' \in found
                  /\ outcome' = Loaded(id', lost)
          /\ FaultIf(lost # {})
  /\ UNCHANGED <<card, todo, got, kept, victims, victim, removed, nextFile>>

\* The user goes ahead with mods that conflict, or there is none...
GoAhead ==
  /\ pc = "comparing"
  /\ pc' = "begin"
  /\ NoFault /\ UNCHANGED <<card, session, outcome>>

\* ... or declines.
Cancel ==
  /\ pc = "comparing"
  /\ Serve(NoOutcome)
  /\ NoFault /\ UNCHANGED <<card, session>>

\* begin: the folder is emptied and removed...
BeginRemoves ==
  /\ pc = "begin" /\ id \in dirs
  /\ \/ /\ RemoveFile(id) \/ RemoveDir(id)
        /\ NoFault /\ UNCHANGED <<pc, outcome>>
     \/ /\ Fault /\ Serve(NoOutcome)
        /\ UNCHANGED card
  /\ UNCHANGED session

\* ... and made again.
BeginCreates ==
  /\ pc = "begin" /\ id \notin dirs
  /\ \/ /\ dirs' = dirs \cup {id}
        /\ pc' = "merging"
        /\ todo' = Merged[<<id.plan, id.locales>>] \cup Modules[id.plan]
        /\ got' = [merged |-> {}, code |-> {}, links |-> Linked[id.plan]]
        /\ NoFault /\ UNCHANGED outcome
     \/ /\ Fault /\ Serve(NoOutcome)
        /\ UNCHANGED <<dirs, todo, got>>
  /\ UNCHANGED <<store, files, cut, recorded, recent, modFiles, removing>>
  /\ UNCHANGED <<id, kept, victims, victim, removed, nextFile>>

\* Mutant of Put: a file of that name is taken as it is, whatever its size.
PutTrustsTheName(c) ==
  /\ pc = "merging" /\ c \in todo
  /\ todo' = todo \ {c}
  /\ store' = [store EXCEPT ![c] = IF @ = "absent" THEN "whole" ELSE @]
  /\ got' = [got EXCEPT !.merged = @ \cup ({c} \cap Merged[<<id.plan, id.locales>>]),
                        !.code = @ \cup ({c} \cap Modules[id.plan])]
  /\ NoFault
  /\ UNCHANGED <<dirs, files, cut, recorded, recent, modFiles, removing, pc, outcome>>
  /\ UNCHANGED <<id, kept, victims, victim, removed, nextFile>>

\* StoreWriter::put: a file of that name and size is that content already.
\* A file that cannot be written is left out of what is served.
Put(c) ==
  /\ pc = "merging" /\ c \in todo
  /\ todo' = todo \ {c}
  /\ \/ /\ store' = [store EXCEPT ![c] = "whole"]
        /\ got' = [got EXCEPT !.merged = @ \cup ({c} \cap Merged[<<id.plan, id.locales>>]),
                              !.code = @ \cup ({c} \cap Modules[id.plan])]
        /\ NoFault
     \/ /\ Fault /\ store[c] # "whole"
        /\ store' \in {store, [store EXCEPT ![c] = "cut"]}
        /\ UNCHANGED got
  /\ UNCHANGED <<dirs, files, cut, recorded, recent, modFiles, removing, pc, outcome>>
  /\ UNCHANGED <<id, kept, victims, victim, removed, nextFile>>

\* Mutant of MergeDone: the merge is recorded before every file is stored.
MergeDoneEarly ==
  /\ pc = "merging"
  /\ pc' = "saving" /\ nextFile' = 1
  /\ outcome' = [id |-> id, merged |-> got.merged, links |-> got.links, code |-> got.code,
                 whole |-> TRUE, unread |-> FALSE, fresh |-> TRUE]
  /\ NoFault
  /\ UNCHANGED <<card, id, todo, got, kept, victims, victim, removed>>

MergeDone ==
  /\ pc = "merging" /\ todo = {}
  /\ pc' = "saving" /\ nextFile' = 1
  /\ outcome' = [id |-> id, merged |-> got.merged, links |-> got.links, code |-> got.code,
                 whole |-> TRUE, unread |-> FALSE, fresh |-> TRUE]
  /\ NoFault
  /\ UNCHANGED <<card, id, todo, got, kept, victims, victim, removed>>

\* save writes one file, the stamp last. The first failure ends it, and the
\* session goes on.
SaveFile ==
  /\ pc = "saving"
  /\ \/ /\ files' = [files EXCEPT ![id] = @ \cup {EntryFiles[nextFile]}]
        /\ recorded' = [recorded EXCEPT ![id] = got]
        /\ IF nextFile = 8
           THEN pc' = "touching" /\ UNCHANGED nextFile
           ELSE nextFile' = nextFile + 1 /\ UNCHANGED pc
        /\ NoFault /\ UNCHANGED cut
     \/ /\ Fault
        /\ \/ UNCHANGED <<files, cut>>
           \/ /\ files' = [files EXCEPT ![id] = @ \cup {EntryFiles[nextFile]}]
              /\ cut' = IF nextFile = 8 THEN cut \cup {id} ELSE cut
        /\ pc' = "evict"
        /\ UNCHANGED <<recorded, nextFile>>
  /\ UNCHANGED <<store, dirs, recent, modFiles, removing, outcome>>
  /\ UNCHANGED <<id, todo, got, kept, victims, victim, removed>>

\* Mutant of MovedFirst: the merge goes last.
MovedLast == Append(RemoveFirst(recent, id), id)

\* touch: the merge, which is listed once or not at all, goes first in the list.
\* A write that fails leaves the list as it was, or cut short; of a list that
\* cannot be read the others are lost.
MovedFirst == <<id>> \o RemoveFirst(recent, id)

Touch ==
  /\ pc = "touching"
  /\ \/ recent' = MovedFirst /\ NoFault
     \/ /\ Fault
        /\ recent # MovedFirst
        /\ recent' \in {recent} \cup Torn(MovedFirst)
     \/ Fault /\ recent' \in Torn(<<id>>)
  /\ pc' = IF outcome.fresh THEN "evict" ELSE "serving"
  /\ UNCHANGED <<store, dirs, files, cut, recorded, modFiles, removing, session, outcome>>

\* Mutant of StartEvict: unfinished merges are left alone.
StartEvictOfCompleteOnes ==
  /\ pc = "evict"
  /\ \E list \in EntryLists({}) :
       /\ kept' = SubSeq(list, 1, IF Len(list) < Keep THEN Len(list) ELSE Keep)
       /\ victims' = ToSet(list) \ ToSet(kept')
  /\ victim' = NoId /\ removed' = FALSE
  /\ pc' = "evicting"
  /\ NoFault
  /\ UNCHANGED <<card, id, todo, got, nextFile, outcome>>

\* evict: the most recent ones are kept, the other folders, which are listed
\* once more, go.
StartEvict ==
  /\ pc = "evict"
  /\ \E lost, lostAgain \in Losses : \E list \in EntryLists(lost) :
       /\ kept' = SubSeq(list, 1, IF Len(list) < Keep THEN Len(list) ELSE Keep)
       /\ victims' = Folders(lostAgain) \ ToSet(kept')
       /\ FaultIf(lost \cup lostAgain # {})
  /\ victim' = NoId /\ removed' = FALSE
  /\ pc' = "evicting"
  /\ UNCHANGED <<card, id, todo, got, nextFile, outcome>>

\* Mutant of PickVictim: the folder stays among those to remove.
PickVictimAgain(i) ==
  /\ pc = "evicting" /\ victim = NoId /\ i \in victims
  /\ victim' = i
  /\ NoFault
  /\ UNCHANGED <<card, pc, id, todo, got, kept, victims, removed, nextFile, outcome>>

PickVictim(i) ==
  /\ pc = "evicting" /\ victim = NoId /\ i \in victims
  /\ victim' = i /\ victims' = victims \ {i}
  /\ NoFault
  /\ UNCHANGED <<card, pc, id, todo, got, kept, removed, nextFile, outcome>>

\* A folder that cannot be removed is left as it is by then.
EvictRemoves ==
  /\ pc = "evicting" /\ victim # NoId
  /\ \/ /\ RemoveFile(victim) /\ NoFault /\ UNCHANGED <<victim, removed>>
     \/ /\ RemoveDir(victim) /\ NoFault /\ victim' = NoId /\ removed' = TRUE
     \/ /\ Fault /\ victim' = NoId
        /\ UNCHANGED <<card, removed>>
  /\ UNCHANGED <<pc, id, todo, got, kept, victims, nextFile, outcome>>

\* Mutant of Uses: code.tsv is not looked at.
UsesOfTheIndex(i, lost) == IF Has(i, "index", lost) THEN recorded[i].merged ELSE {}

\* index.tsv and code.tsv of the merges kept say which stored files are used.
Uses(i, lost) ==
  (IF Has(i, "index", lost) THEN recorded[i].merged ELSE {})
    \cup (IF Has(i, "code", lost) THEN recorded[i].code ELSE {})

\* Mutant of WriteRecent: files cut short are not collected.
WriteRecentSparingCutFiles ==
  /\ pc = "evicting" /\ victim = NoId /\ victims = {}
  /\ recent' = kept /\ NoFault
  /\ IF removed
     THEN /\ pc' = "collecting"
          /\ todo' = {c \in Contents : store[c] = "whole"} \ UNION {Uses(i, {}) : i \in ToSet(kept)}
     ELSE /\ pc' = "serving" /\ UNCHANGED todo
  /\ UNCHANGED <<store, dirs, files, cut, recorded, modFiles, removing, outcome>>
  /\ UNCHANGED <<id, got, kept, victims, victim, removed, nextFile>>

\* The list becomes that of the merges kept; collect_garbage follows a removal.
\* What it cannot list it leaves; what a merge it cannot read serves it deletes.
WriteRecent ==
  /\ pc = "evicting" /\ victim = NoId /\ victims = {}
  /\ \E lost \in Losses :
       /\ \/ recent' = kept /\ FaultIf(lost # {})
          \/ /\ Fault /\ Recent(lost) # kept
             /\ recent' \in {recent} \cup Torn(kept)
       /\ IF removed
          THEN /\ pc' = "collecting"
               /\ todo' = {c \in Contents : store[c] # "absent" /\ <<"store">> \notin lost}
                            \ UNION {Uses(i, lost) : i \in ToSet(kept)}
          ELSE pc' = "serving" /\ UNCHANGED todo
  /\ UNCHANGED <<store, dirs, files, cut, recorded, modFiles, removing, outcome>>
  /\ UNCHANGED <<id, got, kept, victims, victim, removed, nextFile>>

\* collect_garbage deletes one stored file; one that cannot be deleted stays.
Collect(c) ==
  /\ pc = "collecting" /\ c \in todo
  /\ todo' = todo \ {c}
  /\ \/ store' = [store EXCEPT ![c] = "absent"] /\ NoFault
     \/ Fault /\ UNCHANGED store
  /\ UNCHANGED <<dirs, files, cut, recorded, recent, modFiles, removing, pc, outcome>>
  /\ UNCHANGED <<id, got, kept, victims, victim, removed, nextFile>>

EndCollect ==
  /\ pc = "collecting" /\ todo = {}
  /\ pc' = "serving"
  /\ NoFault /\ UNCHANGED <<card, session, outcome>>

-----------------------------------------------------------------------------
(* Around the session.                                                     *)

Forget ==
  /\ pc' = "off" /\ id' = NoId /\ todo' = {} /\ got' = Nothing
  /\ kept' = <<>> /\ victims' = {} /\ victim' = NoId /\ removed' = FALSE
  /\ nextFile' = 1 /\ outcome' = NoOutcome

\* The game, or the mod manager, is closed.
Close ==
  /\ pc = "serving"
  /\ Forget
  /\ NoFault /\ UNCHANGED card

\* What a write under way leaves when the power goes.
Interrupted ==
  \/ UNCHANGED card
  \/ /\ pc = "merging"
     /\ \E c \in todo : store[c] # "whole" /\ store' = [store EXCEPT ![c] = "cut"]
     /\ UNCHANGED <<dirs, files, cut, recorded, recent, modFiles, removing>>
  \/ /\ pc = "saving"
     /\ files' = [files EXCEPT ![id] = @ \cup {EntryFiles[nextFile]}]
     /\ cut' = IF nextFile = 8 THEN cut \cup {id} ELSE cut
     /\ UNCHANGED <<store, dirs, recorded, recent, modFiles, removing>>
  \/ /\ \/ pc = "touching" /\ recent' \in Torn(MovedFirst)
        \/ pc = "evicting" /\ victim = NoId /\ victims = {} /\ recent' \in Torn(kept)
     /\ UNCHANGED <<store, dirs, files, cut, recorded, modFiles, removing>>

Crash ==
  /\ pc \notin {"off", "serving"}
  /\ crashes < MaxCrashes /\ crashes' = crashes + 1 /\ UNCHANGED faults
  /\ Interrupted /\ Forget

\* Between sessions, mods come and go.
RemoveMod(f) ==
  /\ pc = "off" /\ f \in modFiles
  /\ modFiles' = modFiles \ {f}
  /\ NoFault /\ UNCHANGED <<store, dirs, files, cut, recorded, recent, removing, pc, session, outcome>>

InstallMod(f) ==
  /\ pc = "off" /\ f \notin modFiles
  /\ modFiles' = modFiles \cup {f}
  /\ NoFault /\ UNCHANGED <<store, dirs, files, cut, recorded, recent, removing, pc, session, outcome>>

Step ==
  \/ BeginRemoves \/ BeginCreates
  \/ (\E c \in Contents : Put(c)) \/ MergeDone \/ SaveFile \/ Touch
  \/ StartEvict \/ (\E i \in Ids : PickVictim(i)) \/ EvictRemoves \/ WriteRecent
  \/ (\E c \in Contents : Collect(c)) \/ EndCollect

Next ==
  \/ \E plan \in Plans, game \in Games, needed \in LocaleLists, force \in BOOLEAN, atBoot \in AtBoot :
       Start(plan, game, needed, force, atBoot)
  \/ GoAhead \/ Cancel \/ Step \/ Close \/ Crash
  \/ \E f \in ModFiles : RemoveMod(f) \/ InstallMod(f)

Spec == Init /\ [][Next]_vars

\* A program that runs keeps running.
FairSpec == Spec /\ WF_vars(Step)

-----------------------------------------------------------------------------
(* Properties.                                                             *)

Results == [merged : SUBSET Contents, code : SUBSET Contents, links : SUBSET ModFiles]
Outcomes ==
  [id : Ids \cup {NoId}, merged : SUBSET Contents, code : SUBSET Contents, links : SUBSET ModFiles,
   whole : BOOLEAN, unread : BOOLEAN, fresh : BOOLEAN]
Steps == {"off", "comparing", "begin", "merging", "saving", "touching", "evict", "evicting", "collecting", "serving"}

\* Types of the SD card's state and of the session's.
TypeOK ==
  /\ store \in [Contents -> {"absent", "cut", "whole"}]
  /\ dirs \subseteq Ids /\ IsFiniteSet(dirs) /\ cut \subseteq dirs /\ removing \subseteq dirs
  /\ files \in [Ids -> SUBSET EntryFileNames]
  /\ recorded \in [Ids -> Results] /\ got \in Results
  /\ recent \in Seq(Ids) /\ kept \in Seq(Ids) /\ modFiles \subseteq ModFiles
  /\ pc \in Steps /\ id \in Ids \cup {NoId} /\ todo \subseteq Contents
  /\ victims \subseteq Ids /\ victim \in Ids \cup {NoId} /\ removed \in BOOLEAN
  /\ nextFile \in 1..8
  /\ outcome \in Outcomes
  /\ faults \in 0..MaxFaults /\ crashes \in 0..MaxCrashes

\* vfs.rs open_file_hook: the game's reads are sent to the stored files a merge
\* serves, with nothing to fall back on: each of them is there, whole.
ServedFilesExist ==
  pc = "serving" => \A c \in outcome.merged \cup outcome.code : store[c] = "whole"

\* The same, as far as it goes: whatever crashes came before, as long as no call
\* to the file system failed.
ServedFilesExistUnlessACallFails == faults = 0 => ServedFilesExist

\* vfs.rs open_file_hook: so are the files of mods served where they are.
ServedLinksExist == pc = "serving" => outcome.links \subseteq modFiles

\* merge_cache.rs:21-22: whatever is deleted or written at any moment, the stored
\* files of every merge that a later session would find are there, whole, unless
\* a call failed.
CachedFilesExist ==
  faults = 0 =>
    \A i \in dirs : Stamped(i) /\ Loadable(i, {}) => \A c \in Uses(i, {}) : store[c] = "whole"

\* merge_cache.rs:17: "written last: the merge is complete".
NothingHalfServed == pc = "serving" => outcome.whole

\* The same, as far as it goes: whatever writes, removals and reads failed before
\* and wherever the power went, a merge is served without its patches or its
\* modules only if the removal of its folder was cut short, or if they could not
\* be read in this very session.
OnlyRemovalsLeaveHalf ==
  pc = "serving" /\ ~outcome.whole => outcome.id \in removing \/ outcome.unread

\* merge_cache.rs:17: a merge with a stamp holds everything its mods produce,
\* unless a call failed.
StampedMergesAreWhole ==
  faults = 0 =>
    \A i \in dirs :
      Stamped(i) /\ Loadable(i, {}) =>
        /\ recorded[i].merged = Merged[<<i.plan, i.locales>>]
        /\ "code" \in files[i] => recorded[i].code = Modules[i.plan]

\* merge_cache.rs touch, evict: whatever was cut short before, after a merge the
\* folders are those of the merge_cache_size last ones, the new one first in the
\* list and complete, and no unfinished one is left, unless a call failed.
OnlyTheLastMergesRemain ==
  faults = 0 /\ pc = "serving" /\ outcome.fresh =>
    /\ dirs = ToSet(recent) /\ Len(recent) = Cardinality(dirs) /\ Len(recent) <= Keep
    /\ Stamped(outcome.id) /\ Loadable(outcome.id, {}) /\ Head(recent) = outcome.id

\* merge_cache.rs collect_garbage: after a removal, a file no remaining merge
\* serves does not stay in the store, cut short by a crash or not, unless a call
\* failed.
NoGarbageAfterARemoval ==
  faults = 0 /\ pc = "serving" /\ removed =>
    \A c \in Contents : store[c] # "absent" => \E i \in dirs : c \in Uses(i, {})

\* lib.rs merge_on_a_big_stack joins the merge: once the user has let it go ahead,
\* it ends, so the game resumes.
SessionsEnd == pc \notin {"off", "comparing"} ~> pc \in {"serving", "off"}

\* The promise of MergeLru: a session uses one merge from the moment it has put
\* it first in the list, and the list holds the last Keep ones.
Lru == INSTANCE MergeLru WITH
         Merges <- Ids, Capacity <- Keep,
         held <- SubSeq(recent, 1, IF Len(recent) < Keep THEN Len(recent) ELSE Keep),
         using <- IF pc \in {"evict", "evicting", "collecting", "serving"} THEN {outcome.id} \ {NoId} ELSE {}

\* MergeCache implements MergeLru while nothing fails: the list on the SD card is
\* that of the merges used last, through touch and evict.
KeepsTheLastUsed == Lru!Spec
=============================================================================
