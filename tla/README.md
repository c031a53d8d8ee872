# Verification of totk-various-poc

TLA+ models of the programs in this repository that merge mods for *Tears of the Kingdom* on the
console: the merger plugin, the mod manager, the libraries they share, and the parts of skyline-totk
the plugin stands on. The models are checked with TLC on small instances; the theorems about
them are checked with TLAPS for every value of the constants.

Paths below are relative to the repository; `merge/` stands for `sharedlibs/totk-merge/src/`,
`plugin/` for `totk-mod-merger-plugin/src/`, `formats/` for `sharedlibs/totk-formats/src/`, `manager/`
for `totk-mod-manager/`.

- [1. The system](#1-the-system): components, state, operations, what is hard
- [2. The models](#2-the-models): which module stands for which code
- [3. The runs](#3-the-runs): questions, bounds, fairness
- [4. The theorems](#4-the-theorems)
- [5. Where the code and its documentation differ](#5-where-the-code-and-its-documentation-differ)
- [6. What is not modelled, and the plan](#6-what-is-not-modelled-and-the-plan)

To run everything: `tlc -config X.cfg M.tla` for each pair below, and `tlapm M.tla` for the modules
with proofs: `ControlProofs`, `MergeCacheProofs`, `MergeCacheRefines`, `CodeInstallProofs`,
`ScratchHeapProofs`, `ChangelogCacheProofs`, `ManagerProofs` and `ManagerChoices` (4 minutes each of
the last two).

## 1. The system

When the game starts, skyline-totk loads plugins. One of them, the merger, reads the mods on the SD
card, works out what each changes in the game's files (its *changelog*), applies the changelogs one
over the other, writes what comes out into a store on the card and redirects the game's file reads
to it. The same merge can be made beforehand by a homebrew, the mod manager, which links the same
Rust crates; the plugin then finds it in the cache. Other plugins may take over the choice of mods
through a C API. Nothing the manager and the plugin share is ever used by both at once: the manager
is gone when the game runs. What is shared *in time* is the SD card, which can lose power between
any two writes.

| Component | State it keeps | Operations | What is hard |
|---|---|---|---|
| Control (`merge/control.rs`, `plugin/api.rs`) | owner, token, list of mods, folder, phase, callbacks, all behind one mutex | take, change, commit and release the list; wait for it; take the plan; finish; ask to be told | threads of other plugins against the merger's; a timeout racing a commit; a callback registered while the merge ends |
| Plugin boot (`plugin/lib.rs`) | the merger's thread | main, `merge_and_serve`, `merge_on_a_big_stack` | order of the redirect table and of the announcement |
| Merge cache and engine (`merge/merge_cache.rs`, `engine.rs`) | folders of merges (index, code, patches, stamp…), the store of contents, `recent.txt` | find, serve, make, record, touch, evict, collect garbage | power cuts, failing calls, files cut short under their final name, eviction of what is about to be served |
| Code modules (`merge/code.rs`) | the title's exefs folder, shared with the user; the list of what was put there | read, remove stale, place, write the list | telling one's files from others', crashes before the list is written, too few names |
| Scratch heap (`plugin/alloc.rs`, `skyline-totk/source/totk/scratch_memory.cpp`) | chunks, free lists, cursor, the table of mappings | alloc, realloc, dealloc, trim | a thread that read the switch before trim; memory unmapped under its owner; running out |
| File redirection (`plugin/vfs.rs`) | the redirect table, the game's language | install, hooks on opening | active before it is announced |
| Plugins of mods (`plugin/plugins.rs`) | the modules loaded | load, call main | the same plugin in two mods |
| Patches, log (`plugin/patches.rs`, `log.rs`) | — | write to code and to a file | — |
| Plugin manager (`skyline-totk/source/skyline/plugin/`) | loaded plugins, a table of 32 callbacks | load all, run callbacks | early returns that never run the callbacks |
| Skyline runtime | hooks, jit pages, queues | hook, log | instruction rewriting |
| BYML merge (`merge/byml_changelog.rs`, `byml_merge.rs`, `byml_keys.rs`) | tracking: removals and additions by path | compare a document with vanilla, merge changelogs, apply what was noted | positions that must not shift; four ways of comparing arrays; several mods adding the same row |
| Databases (`merge/rsdb.rs`, `gamedata.rs`) | rows, tags, save metadata | merge rows and hashes | the same, with their own keys |
| Builder and merger (`merge/builder.rs`, `merger.rs`, `tkcl.rs`, `canonical.rs`, `rom.rs`, `conflicts.rs`) | a mod's changelog; what the merge has written, the packs it has yet to write, the sizes | build a changelog, group targets, merge each, put files back in packs, write the size table, report conflicts | priorities through packs of packs; a removal and a change of one file; files of several versions; two names of one hash; a conflict nobody is told of |
| Changelog cache (`merge/cache.rs`, `engine.rs load_folder`) | an entry of three files per mod, content and game version | look up, load, store, prune | replaced in place; power cuts; names that begin with one another; files read long after the entry was found |
| Mods, profiles, settings (`merge/mods.rs`, `profile.rs`, `config.rs`, `ini.rs`) | folders, mod.ini, profile files, config.ini | discover, scan, save, rename, delete, set a value | a profile between its old and its new name; settings written in place |
| Manager core (`manager/core`, `manager/source/core`) | mods on the card, the profile on the card, one lock | install, update, uninstall, migrate, read the state | half an update; calls of the interface and of the worker one between the other |
| Manager interface (`manager/source/app`) | the state as last read; what the user changed | toggle, move, select, profiles, reload | a list saved over one that changed since it was read |
| Manager services (`source/util`, `source/net`…) | worker threads, images, downloads | run, post, shut down | closing a thread twice |
| File formats (`formats/`) | — | parse and write | byte layouts |
| Platform layer (`formats/sys.rs`) | a spin lock | files, clocks | its failures are the fault steps of the models |
| Examples (`plugins/`, `mods/`) | regeneration of enemies' life | hooks | a hit against a heal |
| Builds, packs, tools | — | — | — |

How they interact: the game's thread loads plugins and calls the merger's `main`, which registers a
callback; after the last plugin the callback runs `merge_and_serve`, which *waits* on Control,
starts a big-stacked thread for the Engine and joins it. The Engine asks the merge cache for a
merge with the plan's identity; without one it builds changelogs (through the changelog cache),
looks for conflicts, merges, writes contents to the store and records the merge, evicts old ones
and installs the code modules. `merge_and_serve` then fills the redirect table, trims the scratch
heap and calls `finish`, which tells the listeners.

What makes each correct:

- Control: one plan, one end, each listener told once, no call accepted and lost; the game never
  blocked by a plugin.
- Cache: what is served exists, whole; what a later session would find exists, whole; no garbage;
  the last N merges stay.
- Code modules: only one's own files change; after an undisturbed installation the wanted modules
  that fit are there, once; modules of mods that are gone go.
- Heap: live blocks do not overlap, do not lose their mapping, and go back where they came from.
- BYML merge: a three-way merge by priority; what nobody changed is vanilla's; independent mods
  commute; what does not commute is reported.
- Builder and merger: every value, text, word of code and file the game is served is that of the
  highest priority that changed it, and the game's where none did; the size table tells the truth;
  mods nothing is reported of can be put in any order.
- Changelog cache: what a mod is merged with is what its folder holds, compared with the game that
  is installed; entries of other mods stay, old ones go.
- Mods, profiles, manager: what the list on the screen shows is what is merged; choices survive
  installations, updates and removals; a profile is never half a profile; an update leaves nothing of
  the version before and keeps the settings.
- Not modelled: callbacks of plugins run once after the last plugin, or never because loading failed.

The hazards, each at its line and with the properties that cover it, are listed in `PROJECT.json`.

## 2. The models

### Control, MergeOnce

`Control.tla` is `merge/control.rs` and the merger's thread of `plugin/lib.rs`. A call of the API
is one critical section of the `STATE` mutex, hence one action; `with_owner` is the guard
`WithOwner`. `tokens[p]` keeps every token ever handed out, so that stale ones are used too.
`tkm_on_merged` is one action when the merge is not over and two when it is (read the result and
release the mutex; call back). The merger's thread is `pc`: it waits (`StopWaiting`), and — after
having released the mutex in between, as the code does — takes the plan (`TakePlan`), merges, makes
the redirects active, publishes the result and takes the callbacks (`Finish`), calls them. A
timeout is a boolean that becomes true at any moment (`Expire`). Calls that are refused change
nothing and are not actions. The engine is reduced to its outcome.

`MergeOnce.tla` is what the API promises with none of that: a list is chosen once, the merge ends
once, each listener is told once. `Control` implements it (`MergesOnce`): plan ↦ plan, result ↦
phase and number of files once the phase is an end, told ↦ what callbacks were called with.

### MergeCache, MergeLru

`MergeCache.tla` is `merge/merge_cache.rs` and the parts of `engine.rs` that use it. The card is
`store` (a content is absent, cut short or whole), folders of merges with the set of their files,
what their index lists, and `recent.txt`. Every call that writes or deletes is an action, so that
`Crash` can come between any two and `Fault` can hit any; writing is in place, so a failing or
interrupted write leaves a prefix, as `formats/sys.rs` writes. A session: look (`Start`), possibly
ask the user (`GoAhead`, `Cancel`), remove a leftover folder, write contents, write the eight files
of the folder with the stamp last (`SaveFile`), touch, evict, collect garbage, serve, end. Between
sessions a mod can be removed or put back (`RemoveMod`, `InstallMod`).

What a session reads is read in the action that uses it, and any of it can fail (`lost`): a list or a
file that cannot be read counts as an empty one and a folder that cannot be listed as one with nothing
in it, which is what `unwrap_or_default` and `.ok()` make of them, so that a merge is found without its
stamp, served without its patches or modules (`Loaded`), or its files taken for unused (`Uses`). A
folder is removed in the order it is listed, which may be any of `Listings`. `removing` is a history
variable, the merges of which a file was removed and not yet the folder; `outcome.unread` says that
patches or modules were there and could not be read. Taken at their word are the questions that answer
yes or no (`exists`, `is_dir`, `metadata`); a folder inside the store that cannot be listed is a
removal of `Collect` that fails.

`MergeLru.tla` is the README's promise, "the last `merge_cache_size` merges stay on the SD card":
a list of at most that many, last used first. `MergeCache` implements it as long as nothing fails.

### CodeInstall

`merge/code.rs install`: the reads of the folder and of the list are one action (`Scan`), then one
action per file removed, placed or skipped and one for the list, which is written last. `ours` is
a history variable: names whose present file install wrote. The user may copy any file to any name,
delete files, and delete the list, between installations. Calls fail and the power goes as in
MergeCache; a module that was being written stays cut short after a crash, and is removed by the
code after a failure (`NoHalfModule`; when the removal fails as well, half of it stays: the property
speaks of one failing call).

### ScratchHeap

The allocator and the table of mappings below it. Two handles stand for pointers of two threads;
a section under the heap's lock is an action, and reading `SCRATCH_ON` is one of its own before it.
A `realloc` that moves holds two blocks for a while. `trim` may be refused a mapping by the kernel.
Free lists are sets of blocks: their order decides nothing but which free block is handed out, and
any may be.

### Byml, BymlChangelog, BymlMerge, Tables, Conflicts, DocumentMerge

Pure functions over documents, and a small state machine over them.

- `Byml.tla`: nodes, keys of rows, and which arrays are compared how (`byml_keys.rs`). Scalars are
  one type; hashed maps are maps. The tables of names have one representative each: `Bones` (a
  keyed array), `Actors` (keyed in one type of document), `Property` (by NameHash), `Translate`
  (by position), anything else (by value).
- `BymlChangelog.tla`: the four array builders and `log_changes_with`.
- `BymlMerge.tla`: `merge`, `merge_map`, `merge_array` with the tracking they pass on, and
  `Tracking::apply` with `apply_array_entry`, `keyed_additions` and `insert_addition`. A failed
  merge leaves `Broken` where it failed, which gives up the document.
- `Tables.tla`: the databases, which have builders and mergers of their own over those functions: tables
  of rows (`rsdb.rs`), the table of tags, and the list of saved values (`gamedata.rs`) with the sizes it
  takes in the save. Keys and tags are numbers, whose order is that of the game's strings and hashes. New
  rows go to the end until everything is merged, so that vanilla's stay where they are; then tables are
  put in order and the rows several mods added, or dropped, are settled.
- `Conflicts.tla`: `collect` and `collisions`, the values two mods set differently.
- `DocumentMerge.tla`: vanilla and up to three versions of it, of one `kind` (a document, rows, rows of
  others' packages, tags, saved values); one action per changelog merged, one
  for applying what was noted, as in `merge_documents`. Its properties compare the result with
  `Expected`, a three-way merge defined on the *documents*, which knows nothing of changelogs,
  positions or tracking.

### Rom, ModBuild, ModMerge, ModConflicts, MergeRun

The merge from the mods' files to what the game is served. Documents are functions from keys to
values here: how their trees are compared is the subject of the modules above.

- `Rom.tla`: canonical names, the way back to a path of the game's (`canonical.rs`, `rom.rs`: address
  table, tables of versions, lookup of the pack a file is in) and the size table (`collect_size`,
  `rstb.rs`): sizes by name, by the hashes the game has, by the hashes mods add. A hash is a function
  of names that is not injective. The dump is the variable `game`, which nothing writes.
- `ModBuild.tla`: `builder.rs`. One operator per builder; a builder gives "same", changes or an error.
  Packs are taken apart file by file (`BuildPackFile`, `ExtractFile`), their files become entries of
  their own that name the pack, and what the mod took out becomes a mark in the pack's own changelog.
  Code patches are words put together from the bytes of an `.ips` file.
- `ModMerge.tla`: `merger.rs`, and the choice of a package's options (`tkcl.rs`). A merger is a record
  with the fields of the struct that decide something: output, table, entries that go in packs, packs
  that lost files, patches. `MergeTarget` is `merge_target` with every copy, merge, fall-back and
  warning.
- `ModConflicts.tla`: `conflicts::find`.
- `MergeRun.tla`: the state machine, one action per round of a loop: read a mod, compare, merge the
  texts of a locale, merge a target, write a pack, write the size table. Its properties compare what
  is served with `ExpectedFile`, `ExpectedPack`, `ExpectedTexts` and `ExpectedPatches`, which are
  defined on the mods' files and know nothing of changelogs, entries or packs to be written.

### ChangelogCache

`merge/cache.rs` with `load_folder` of `engine.rs` and the fingerprint of `mods.rs`. The entry of a mod
is a folder of three files, written one call at a time with the changelog last; removals go file by
file. What a load does *not* look at is modelled as not looked at: the blob is opened only when the
files are merged, after all mods are loaded. Names are sequences of characters, because whose entries
are pruned is decided by prefixes and lengths; the index is a text that is escaped and split, because
names of files may hold the separators. Folders change and the game is updated between two merges.

Reads fail as well (`lost`): a folder inside the mod that cannot be listed for the fingerprint gives
another fingerprint, hence another entry; one that cannot be listed to build the changelog, or a file
that cannot be read, is left out of it without an error (`builder.rs` `collect_files` and
`build_folder`), and what is left is stored under the fingerprint of the whole folder and loaded at
every merge until the mod changes; a document whose counterpart in the game cannot be read is used as
it is. `dir` is the entry in hand, which a failing listing can make another than the right one;
`unread` is a history variable: for each entry, what could not be read when it was made. A file that
cannot be taken apart though it is read is one of `Aside`. Taken at their word are the questions
that answer yes or no; the reads of a merge itself, after all mods are loaded, succeed.

### Ini, ModFolders, Manager

- `Ini.tla`: the settings' dialect as sequences of lines, and profiles and `mod.ini` over it, the
  difference between `Section::get` (first line of a key) and `Config::parse` (last) included. A mod
  has at most one group of options.
- `ModFolders.tla`: the card as a tree of paths and the texts on it; what a folder holds
  (`Inspect`, `Discover`, `Scan`, `Candidates`), and each call of the core as the *list of file system
  calls* it makes: save, delete, rename, activate a profile, install, uninstall, migrate, set plugins.
  A call to the file system does to tree and texts what `sys.rs` does and nothing more: a text is
  removed or renamed alone, a folder with everything under it. `OfProfile` gives the mods as `discover`
  does, made from the list top first and then reversed, so that the top is merged last.
- `Manager.tla`: the interface's thread, the worker that installs and the core's lock. `Works` does the
  next file system call of the call that is running, `FailsNow` makes it fail, `PowerCut` may come
  before, between and during calls. `todo` is what the interface's code has yet to do after the
  current call (reload, normalize the profile); `held` says that it holds the lock between two calls,
  as `normalizeProfile` does. The worker's job goes from installing to removing the download to
  posting its end, which the interface takes when it has nothing else to do, or drops when it is
  closed. `chosen`, `updated` and `unsaved` are history variables. `ByHand` is the card in a computer.

## 3. The runs

| Run | Configuration | Question |
|---|---|---|
| `control` | `MCControl.cfg` | two plugins and the merger's thread in every interleaving |
| `cache` | `MCMergeCache.cfg` | sessions with one failing call or read and one power cut anywhere |
| `cache_texts` | `MCMergeCacheTexts.cfg` | which merge is found and kept, with two lists of languages and nothing failing |
| `code` | `MCCodeInstall.cfg` | installations, the user's hand in between, one failing call and one power cut |
| `heap` | `MCScratchHeap.cfg` | two pointers against the merge's switch and trim |
| `merge` | `MCDocumentMerge.cfg` | documents of every kind, one to three mods |
| `build` | `MCMergeRun.cfg` | folders and packages merged into what the game is served |
| `changelogs` | `MCChangelogCache.cfg` | two folder mods merged again and again, one failing call or read and one power cut |
| `manager` | `MCManager.cfg` | the user, a worker that installs, a failure, a power cut, the card in a computer |
| `merge_values` | `MCDocumentMergeValues.cfg` | (violated) is one mod alone what was installed? |
| `build_removals` | `MCMergeRunRemovals.cfg` | (violated) is every pack that changed written? |
| `manager_cut` | `MCManagerCut.cfg` | (violated) does a profile survive a power cut while it is saved? |

What the passing ones show, and why their bounds are enough:

**control** (356,000 states). No owner leaves a trace of the one before (`NoOwnerNoTrace`), the
token in force is the owner's alone (`OnlyTheOwnerHoldsTheToken`), the plan is the list as the last
accepted call left it (`PlanIsTheList`), a callback is called once with the result everybody sees
(`CalledOnceWithTheResult`), "done" means the redirects are in place (`DoneMeansServed`), the merge
ends (`MergeEnds`), who asks is told (`ListenersAreTold`), and Control implements MergeOnce
(`MergesOnce`). Two plugins and two grants of control let one take over from the other, and each
listen on its own side of the end; one of two paths is not a mod; lists hold two.

**cache** (683,000 states) and **cache_texts** (25,000). The stored files of the merge served
exist, whole (`ServedFilesExistUnlessACallFails`), and so do those of any merge a later session
would find (`CachedFilesExist`); a merge is served without its patches or modules only if the removal
of its folder was cut short, or if this very session could not read them (`OnlyRemovalsLeaveHalf`): a
merge interrupted while it was *written*, and a write or a read that failed in an earlier session,
leave none; a stamp means everything is there (`StampedMergesAreWhole`); after a
new merge the folders are the last ones and nothing unfinished is left (`OnlyTheLastMergesRemain`),
and after a removal no content stays that nobody serves (`NoGarbageAfterARemoval`); sessions end
(`SessionsEnd`). Two sets of mods share one content and differ in another, one ships a module, the
other a file served where it is: with one merge kept, every merge evicts. `cache_texts` keeps two
of merges of three sets of mods and two lists of languages. Folders list their files as they were made,
the other way round, or by name: the stamp is removed last, first or in between. Of a step's reads one
fails (`LostTogether`): the list, a listing, or one of the files that decide something. Properties that
start with `faults = 0`, and `KeepsTheLastUsed`, which has a run where nothing fails, say nothing of
sessions with a failing call: what happens then is section 5.

**code** (499,000 states). Only own files change (`OnlyItsFilesChange`); with no call failing, the
first modules that fit are there, once each, whatever crashes came before
(`ExactlyTheFirstThatFit`), and the list is true (`ListIsTrue`); modules of mods that are off leave
(`GoneModsLeaveUnlessCutShort`); no half module stays after a failing call (`NoHalfModule`). Three
names for two modules and somebody's file: there may be no room, one place, a hole, or the same
module twice. The eight names of the code only differ in how many there are.

**heap** (807,000 states). Blocks in use, free blocks and the rest of the newest chunk are apart
(`BlocksAreApart`) and inside a live mapping, aligned (`BlocksFit`); the game's allocator only gets
what is its own (`SystemFreesItsOwn`, unless the kernel refused to unmap). A class of one unit and
one of four on pages of two make every carving cross a page or need aligning; the table of mappings
is as long as the number of chunks, so a big block can use up a chunk's entry.

**merge** (168,000 states). `HighestPriorityDecides`: applied in order, changelogs give the
three-way merge, whatever the order of rows in the mods' files. `NothingMoves`: until everything
is applied every key, row and place is where vanilla has it, so the next changelog's positions mean
what they meant. `UnreportedModsCommuteUnlessRemoved`: mods `collisions` reports nothing of merge
to the same document in either order. `UnreportedMergesAreClean`: such mods also merge without an
error and leave nothing of a changelog in the document, even when they change types of nodes.
`RowsOfTwoModsAreUnique`: two mods that add the same row make one row. Tables have two rows of
vanilla's and one more key, so that each row can be edited, removed, moved, added by one mod or by
two, and removed by one and edited by the other; lists have three entries out of three values, so
that an entry can be dropped, repeated and replaced; three mods are tried on the tables, where what
is noted of two meets a third. Of databases there are rows by one key (plain and with lists in them),
saved values of each kind of size (wide and narrow hashes, lists, structs), and tags: two rows of the
game's and one more, in files and in packages whose missing rows are removals, of two mods and, where
a removal can meet a change and an addition, of three. `HighestPriorityDecides` says of them as well that
tables are in the order of their keys and that the sizes of the save are those of what is in it.
Nothing is ever reported of tags, so they must always commute. The first property is said of mods that are
`Comparable` (no type changed, lists by value grow or shrink but not both, `Property` rows keep their
places, tags in order) and do not add the same row of a document, or the same row with lists in it,
twice; the others of section 5 are why.

**build** (21,000 states, one initial state per list of mods). `PriorityDecides`: for every list of
one to three mods, what the game is served is what the mods' files say, file by file and pack by pack.
`SizesAreTrue`: the game finds the size of everything it is served, and of everything else the size it
had, even when the names of two mods' files have one hash. `UnreportedModsCommute`: lists nothing is
reported of give the same files in the reverse order. The game has two packs with a common file, an
archive in a pack, a table, a file of several versions, a file nobody takes apart, textures and texts
in two languages; each of the 21 mods changes another kind of thing, so that every pair meets, and the
triples add a mod that changes packs below them. Packages have two groups of options of each kind, with
and without a selection. What the properties leave out is in their conditions, each a fact about the
mods, and each explained in section 5: documents that are not (`AllReadable`), removals from packs
that are lost (`DropsAreLost`), a file of the game's put in another pack while someone changes it
(`PlacedAndChanged`), a document two mods add (`AddedTwice`), a new name with the hash of one of the
game's (`CollidesWithGame`).

**changelogs** (2,250,000 states, two minutes). What a mod is merged with is what its folder holds,
compared with the game there is (`MergedModsAreTheirOwn`), whatever was changed or cut short before and
whichever call failed; what could not be read when it was worked out may be missing, or be used as it
is, and nothing else. Not covered are entries found under the wrong fingerprint (a listing failed),
entries half removed, names that look the same, and a document changed for one of the same size.
Entries do not pile up (`EntriesDoNotPileUp`); loading a mod takes nothing from the others'
(`OthersKeepTheirEntries`). One name is the beginning of the other with the separator inside, and is
cut at four characters; a file's name holds a tab and a backslash; the three contents of a folder
differ by data only, and by sizes. Two changes are enough for a folder to go back to what an older
entry was made of. One read fails (`LostTogether`): of a file's place in the fingerprint's listing, of
the whole folder, of one file, or of a file of the game's; an entry made of what is left is loaded again
later in the run.

**manager** (276,000 states). `WhatIsShownIsMerged` holds at rest after anything at all: failures,
power cuts, mods copied by hand. `ChoicesAreKept`: order, what is enabled and options survive
installations, updates, removals and starts. `ProfilesAreWhole`: under its own name a profile is never
cut short. `UpdatesReplaceFilesOnly`: an update leaves no file of the version before and keeps what
the user had set of the mod. Three events (acts of the user, downloads, changes by hand, failures and cuts together)
on a card that was never opened and on one with a profile: an installation whose download replaces an
earlier one takes two, so one event is left to come between any two of their steps.

*Fairness.* `Control`: weak fairness of the merger's thread (the game's boot waits for it and
nothing else runs on it), of time passing (`Expire`: `taken_at.elapsed()` grows whatever happens),
and of a thread inside `on_merged` returning from it. No plugin is ever assumed to call anything.
`MergeCache`: weak fairness of the session's own steps (a single thread, joined by
`merge_on_a_big_stack`); starting a session, crashing, failing and the user's answer are not
assumed. The other models have no liveness properties:
a merge is a loop over a finite list, and what the manager owes the user it owes when it is at rest.

*Symmetry* of the two pointers is used in `heap`, which checks invariants only. *Deadlock* is checked
except where the system really stops: plugins may be done for good, and a document is merged once.
The type invariants of Control, MergeCache, CodeInstall and ScratchHeap are theorems, and the runs do
not check them again.

## 4. The theorems

`ControlProofs.tla`, from `ControlAssumption` (the stand-ins for "none" are not plugins or folders,
the bounds are numbers), for any number of plugins, paths, options, folders and any bounds:

- `TypeCorrect`: `Spec => []TypeOK`, on which everything below rests.
- `ReleaseLeavesNoTrace` and `TokensAreTheOwners`: `NoOwnerNoTrace` and
  `OnlyTheOwnerHoldsTheToken`. The second is not inductive alone: that a new token is nobody's
  follows from `TokensAreCounted` (every token handed out is at most the counter, and a grant
  advances it), so the three are carried together (`TokensStep`).
- `NoCallIsLost`: `PlanIsTheList`, from `ThreadInv`: the phase, the plan and the outcome follow
  `pc`, so there is no plan while the phase is "Waiting", and once there is one `with_owner`
  refuses every call (`OwnerCallsBeforeTheMerge`).
- `ToldOnce`: `CalledOnceWithTheResult`, from `ListenersInv`: a plugin in the list of kept callbacks
  or in the one being called has asked and was not called yet, nor was one that is about to call
  back itself, whose answer is the result; the lists have no duplicates (`DistinctAppend`,
  `DistinctTail`), and no callback is kept once the merge is over.
- `DoneIsServed`: `DoneMeansServed`, from both.
- `ControlMergesOnce`: `Spec => MergesOnce`, Control implements MergeOnce. `OtherSteps` shows that only
  four actions touch what MergeOnce speaks of; then each of them is a step of MergeOnce: taking the
  plan is the choice (`TakePlanSettles`), `finish` the end (`FinishEnds`), and a callback called by the
  merger's thread (`NotifyTells`) or by the thread that asked (`CallRightAwayTells`) the telling of a
  listener who was not told. `ThreadInv` gives that the choice comes before the end, `ListenersInv`
  that nobody is told twice.

`MergeCacheProofs.tla`, from `CacheAssumption`, for any mods, games, languages and contents, any
`merge_cache_size`, and any number of power cuts and failing calls. Each invariant below is carried
with the ones above it; TLC checked them on the runs' instances first.

- `TypeCorrect`, with `FoldersInv`: only folders that are there hold files; the folder being written
  holds the files written so far, in their order; the list names nothing twice.
- `Calls` is the inductive invariant of the next five, `CallsInv`, which says nothing once a call has
  failed. Power cuts are steps like the others: what one leaves has no stamp, or no index.
  - `CacheInv`: a folder with a stamp and an index has all its mods produce, in the store, whole.
  - `ContentsInv`: so has the merge being made, as far as it goes, and the one being served.
  - `EvictionInv`: the merge in hand is recorded whole and first in the list; while victims are
    removed the folders are the kept ones and the victims, and no kept one is a victim; what is
    collected is what no folder uses, and the rest of the store is used.
- `CacheIsThere` (`CachedFilesExist`), `StampsAreTrue` (`StampedMergesAreWhole`) and
  `ServedFilesAreThere` (`ServedFilesExistUnlessACallFails`) follow from the first two,
  `LastMergesRemain` (`OnlyTheLastMergesRemain`) and `NoGarbageStays` (`NoGarbageAfterARemoval`) from
  the third.
- `OnlyRemovalsHalve`: `OnlyRemovalsLeaveHalf`, whatever fails, reads included, and in whatever order
  folders are listed. `PartsInv`: a folder with a stamp of which no removal was begun has all eight
  files, because the stamp is written last and the first write that fails ends it; so what a merge
  that is found lacks was removed, or could not be read. `PartsStep` carries it through the removals,
  which put a merge in `removing` with its first file and take it out with its folder.
- `LinksAreThere`: `ServedLinksExist`, whatever fails, assuming `merge_at_boot` is on
  (`AtBoot \subseteq {TRUE}`); with it off the property is false (section 5).

`MergeCacheRefines.tla`:

- `LastUsedAreKept`: MergeCache implements MergeLru while no call fails and the power stays on
  (`MaxFaults = MaxCrashes = 0`: a merge whose record failed is not kept). `ListInv` relates the
  folders to the list through the steps of a session; `touch` and the end of `evict` are the steps of
  MergeLru, everything else stutters.

`CodeInstallProofs.tla`, from `CodeAssumption`, for any number of names, modules, files, failing
calls and crashes:

- `TypeCorrect`.
- `SnapshotCorrect`: `SnapshotStaysTrue`, the inductive invariant. install reads the folder once and
  acts on what it read for the rest of the pass; the invariant says that what it read stays true
  while it writes, after every fault: owned names hold what the list or a wish says, free names hold
  nothing, only owned files are stale.
- `OthersFilesAreSafe`: `OnlyItsFilesChange`, an action property, from the invariant.
- `NoHalfModuleIsLeft`: `NoHalfModule`, from `HalfInv`: only a second failure in a row, or a crash,
  leaves a file written in part.
- `TheFirstThatFit` and `TheListIsTrue`: `ExactlyTheFirstThatFit` and `ListIsTrue`, from `WorkInv`: while
  no call fails, nothing in the folder is overlooked (`AllIsKnown`); what is not to be removed is one
  of the first modules that fit, once (`OwnedFit`); what is left to place is the end of those, and the
  others are in place (`KeptInOrder`). When no name is free, all
  of them are in place already, by a pigeonhole argument (`AllInPlace`): the names of the room hold some of
  the first modules, each once, and there are at least as many names as modules.
- `GoneModsLeft`: `GoneModsLeaveUnlessCutShort`, from `OursInv`: what install wrote and nobody replaced
  is what the list says is there, so the next pass finds what is stale.

`ScratchHeapProofs.tla`, from `HeapAssumption`, for any sizes, classes, chunk sizes and limits, any
number of pointers, memory that runs out at any call and mappings the kernel refuses to take back.
The assumption says what alloc.rs's constants are chosen for: chunk sizes are whole pages, and a class
no larger than a page divides it (classes and pages are powers of two).

- `AlwaysSound` is the inductive invariant, `Sound /\ BlocksAreApart`. `Sound` relates what the code
  keeps apart: the table's mappings do not overlap and each chunk has one of its own (`MappingsInv`,
  `ChunksInv`); a block of a class lies in a chunk, at its alignment, and a bigger one has a mapping
  that is no chunk (`HeldInv`); free blocks lie in chunks and the unused part is the end of one
  (`FreeInv`, `RestInv`); a chunk's count is the number of blocks somebody holds in it (`LiveInv`),
  the old block of a `realloc` that moves included; and what a thread is about to do goes with what
  it holds (`ControlInv`). Neither half is inductive alone: a mapping may be given back because
  nobody else's block is in it (`UnmapStep` uses `BlocksAreApart`), and a new chunk touches no block
  because every block is in a mapping (`GrowApart` uses `Sound`, by `UsesFit`).
- `TypeCorrect`: no chunk counts below zero, because of `LiveInv`.
- `BlocksStayApart`: `BlocksAreApart`. Each action replaces one use by one or two inside it, or adds
  some that touch no mapping (`ApartIn`, `ApartMore`).
- `BlocksAlwaysFit`: `BlocksFit`, from `Sound` alone: `trim` takes chunks that count nothing, hence
  hold nothing of anybody's (`TrimStep`), and takes their free blocks off the lists.
- `SystemIsGivenItsOwn`: `SystemFreesItsOwn`: a block that is in no chunk, or in no mapping, is one the
  game gave (`StrangersAreTheGames`), until the kernel refuses to unmap one.

The lemmas about sizes (`QuotientAndRest`, `RoundedUp`, `AlignmentIs`, `ChunkSizeIs`) are arithmetic
over any page; that a non-empty set of sizes has a least one (`LeastNumber`) comes from the library's
well-ordering of the numbers, as no induction can be written here.

`ChangelogCacheProofs.tla`, from `ChangelogCacheAssumption` (the plan is a list of mods, their names are
texts), for any names, contents and documents, and any number of failures, power cuts and changes:

- `EntriesAreAccountedFor` is the inductive invariant. `PlaceInv`: every entry is named for a mod, with
  one fingerprint at its end. `VictimsInv`: what prune has yet to delete begins like the mod in hand,
  because a prefix and a length together are the whole name (`OutdatedAreItsOwn`). `CountInv`: the
  entries of a name are the last one, one for each failed call or power cut, and, between its folder
  being made and prune, the one being stored; while prune is at it, those are what is not to be
  deleted.
- `OthersAreLeftAlone`: `OthersKeepTheirEntries`, an action property, from the first two.
- `CardDoesNotFill`: `EntriesDoNotPileUp`, from the third.
- `NoListIsStale`: of `MergedModsAreTheirOwn` the list of files. With the fingerprint's listing right, it
  is what the folder holds now or, if files could not be read when it was worked out, a part of that;
  and this for half-removed entries and names that look like another too. `EntriesListTheirFiles`: a
  changelog that reads at all lists files of its entry's fingerprint, all of them unless some could
  not be read when the entry was made, since cut short it does not read; `LoadedInv`: so do the mods
  loaded so far.

`ManagerProofs.tla`, from `NamesAssumption` (the names of files are a list without repetitions, none empty) and
`CardsAssumption` (the profiles of the cards a run starts from are ones the manager wrote, the folders
of downloads and the names of new profiles are among those files are sorted by, the paths of a download
are sequences of names, `config.ini` sets `profile` at most once, and `MaxOf` says how many failures
and cuts there are), for any mods, games' folders,
downloads, profiles and cards, and any number of events, failures and power cuts:

- `ProfilesReadAsWritten`: a list of mods, each once, is read from a profile as it was written there.
  The lines of one mod are read to one section (`ReadsEntry`), the section to its entry (`ReadsBack`),
  and one more mod adds its lines at the end; the folds of the library are replaced by functions that
  give every beginning of a text what is read so far, so the induction is on the length of the list.
- `ManagerIsSound`: `ManagerInv` is inductive. `ProfilesStayWhole` is not: that a rename puts a whole
  list under a profile's name needs that the temporary file holds one, hence that the list being saved
  has each mod once, hence the same of the list on the screen and of every list in `todo` that is yet to
  be saved. `CardInv`, `CallInv`, `TodoInv`, `ScreenInv` and `JobInv` say so, and that what is left of a
  save writes the whole temporary file before it is renamed (`SafeOps`, `Ready`).
- `ProfilesStayWhole`: `ProfilesAreWhole`, from its first part.
- `ShownIsMerged`: `WhatIsShownIsMerged`, from `ManagerInv` and `ScreenIsCardInv`, which speaks of
  every moment and not of rest alone. Either the card is still to be read and normalized at the end of
  what is left to do (`Reloads`), whatever holds now; or the call being made is one that follows such a
  reading (`Sequel`: a save from the screen, the saves and the activation of `normalizeProfile`), and
  what it has left to write makes card and screen agree (`Under`); or nothing is being made, and what is
  next looks at a screen that agrees with the card (`Awaits`, `Owes`), which with nothing left is
  `Settled`: mods, profile's name and list are those on the card and every mod is in the list. The last
  two hold unless an installation is under way or a call failed since the last reading (`Clean`); the
  worker's end puts a reading at the end of `todo`, which is how the interface recovers. `Settled` gives
  the property because `discover` reads the same files: `ScanAgrees`, and `ProfilesReadAsWritten`.

`ManagerChoices.tla`, which extends it, from the same assumptions:

- `ChoicesStayKept`: `ChoicesAreKept`, from `ManagerInv`, `ScreenIsCardInv` and `KeptInv`. The property
  speaks of rest, and between two moments of rest a list is in a temporary file, in `todo`, or under a
  name that is about to change. What can be said of every moment is about the card *at the end of the
  call being made* (`After`, a fold over the file system calls that are left): a list that was chosen is
  in its profile there, or the next step of `todo` saves or renames it (`Promised`), and each step left
  to do finds what it needs (`Fit`; `FitHeld` for those of `normalizeProfile`, under the lock): the
  profile it activates is there, the name it gives is free, the screen a list is completed from shows
  the card's. Together these are `Good`. That an end is reached at all takes the other half of
  `ChoicesInv`: each call that is left succeeds where it comes (`SureFrom`), or the call being made is
  one that may stop early (`Soft`: the worker's, and the move of a loose package) and all it leaves
  behind keeps the choices too (`Early`). The lemmas below it say what the calls of `profile.rs`,
  `config.rs`, `install.rs` and `core/src/lib.rs` leave on the card at their end (`SaveLeaves`,
  `ActivateLeaves`, `RenameLeaves`, `DeleteLeaves`, `UninstallLeaves`, `PluginsLeave`), and that `Keeps`
  survives what is done to a list: mods added to it (`KeepsAdded`), one taken out of what is to be kept
  and of the list (`KeepsLess`, `KeepsOthers`).

That `config.ini` sets `profile` at most once is needed: `ini::set_value` rewrites the first line of the
key and `Config::parse` goes by the last (`merge/ini.rs`, `merge/config.rs`), so in a file edited by hand
with two such lines activating a profile changes nothing. The manager never writes a second one
(`SettingSets`), so it is asked of the first card only; `ByHand` copies and removes mods, not settings.

Only model-checked, and why:

- liveness (`MergeEnds`, `ListenersAreTold`, `SessionsEnd`) is out of the prover's reach;
- the properties of `DocumentMerge` and `MergeRun` are about documents and archives that
  contain each other: what recursive operators over them give for every input is an induction over data;
- of `MergedModsAreTheirOwn`, what the files of an entry read back to (its list of files is
  `NoListIsStale`): that different folders have different fingerprints is a fact about the texts made
  of them, of names of any length;
- `UpdatesReplaceFilesOnly` is not true of every card: a mod copied by hand with the game's folders at
  its top keeps them through an update (see the hazards), which the card of the run does not have. A
  theorem would have to leave such cards out, and `ByHand` makes them.

## 5. Where the code and its documentation differ

Three are runs TLC finds violated, with the line that says otherwise in `PROJECT.json`:

- `merge_values`: in a list compared by value an edit takes the *first* addition off the queue
  instead of its own (`byml_changelog.rs:176`): `[1, 2, 3]` changed to `[2, 2, 4]` merges to
  `[2, 4, 4]`.
- `build_removals`: a mod that only takes a file out of a pack. The pack is said to be written "once
  every file that goes in it is known", and `write_packs` goes over the files that go in packs
  (`merger.rs:723`): with none, the pack is not written and the file stays.
- `manager_cut`: a profile is "never left half written", and saving removes the old file before the
  new one takes its name (`profile.rs:105`): with a power cut in between there is no profile, and the
  next start makes a list of its own.

Others are properties the modules state and no run claims, because they do not hold; each can be
checked with the configuration of its module:

- `WaitsForTheOwner` (Control): the waiting loop releases the mutex before the plan is taken
  (`control.rs:225`). A plugin that takes control in between is told it did, and the merge starts
  without its list.
- `ServedFilesExist` (MergeCache): with `merge_at_boot` off the last merge is served as it is, links
  to files of mods that are gone included (`engine.rs:221`); and a merge whose index could not be
  saved has no stamp, so the eviction that follows removes the files about to be served
  (`engine.rs:341`).
- `NothingHalfServed` (MergeCache): the stamp says "written last: the merge is complete"
  (`merge_cache.rs:17`), and a merge is served without its patches or modules when its removal was cut
  short after them and before the stamp, which is up to the order in which the folder is listed
  (`merge_cache.rs:275`), or when they cannot be read (`merge_cache.rs:187`, `:195`).
- `UnreportedModsCommute` (DocumentMerge): a row removed by one mod and changed by another is not
  reported: an edit is known by its key, a removal by its position (`conflicts.rs:356`).
- `RowsAreUnique` (DocumentMerge): when what is noted first of an array is a removal, its name is not
  noted, and rows added later with the same key are not merged into one (`byml_merge.rs:265`). It
  takes three mods: one that only removes, two that add.
- `PruneIsOfOneMod` (ChangelogCache): mods whose names differ only in characters a folder's name
  cannot have prune each other's entries, at every merge (`cache.rs:249`).
- `GoneModsLeave` (CodeInstall): below.

Seen while modelling, and left out of the properties by an explicit condition:

- an old merge that cannot be removed leaves its files to the garbage collector (`merge_cache.rs:275`);
- an index or a list of modules that cannot be read makes the collector delete files that a kept merge
  serves (`merge_cache.rs:294`, `:301`);
- a merge that could not write one file is stamped all the same (`engine.rs:322`);
- a listing of exefs that fails reads as an empty folder (`code.rs:233`, `blind` in CodeInstall);
- a power cut can leave half a module under a name that is loaded (`code.rs:348`), or a whole one
  no list names, which no later installation removes (`code.rs:386`, `GoneModsLeave`);
- when the kernel refuses to unmap a block it is freed a second time by the game's allocator
  (`alloc.rs:248`, `refused` in ScratchHeap);
- rows two mods add with one key, at different places, merge in the order of the places and not of
  the priorities (`byml_merge.rs:405`, `AddedTwice`);
- a `Property` row that moved is marked at its new position, so another row is removed for it
  (`byml_changelog.rs:278`, which says so; `Comparable`);
- a key that is a map in one mod and a list in another fails the whole document
  (`byml_merge.rs:152`, `ContainersAgree`); a map that became something else in one mod and was
  changed in another leaves removal markers behind, and is reported as a conflict;
- two mods that add a list vanilla has not are not compared: the second is appended to the first
  (`byml_merge.rs:148`);
- a row of a database that two mods add with lists in it gets both lists, one after the other: a whole row
  is merged as if it were a changelog (`rsdb.rs:177`, `AddedTwice`);
- a member two mods add to a struct of saved values comes twice: only the merge of rows that were
  *added* says that it is in a `Struct`, whose members are known by their hash (`gamedata.rs:285`; the
  case `NewMembers` has one mod);
- a list of tags that is not sorted gives pairs of "remove, add" of one tag, whose order decides
  (`rsdb.rs:334`, `Comparable`).
- a pack one file of which cannot be compared is listed as a whole file ("the whole file will be used"),
  but packs are merged from their removals only, so what the mod has in it is not used
  (`builder.rs:604`);
- a file of the game's put in a pack that does not hold it is listed, and then listed again as a whole
  copy: over a lower mod's change of that file the game's own content wins (`builder.rs:273`,
  `PlacedAndChanged`);
- files taken out of packs are merged among themselves, and another mod's change of the same file puts
  it back, without a report (`conflicts.rs:110`, `DropsAreLost`);
- a document two mods add is merged on the first one's, so it depends on the order, and is not reported
  (`merger.rs merge_custom_target`, `AddedTwice`);
- a new name with the hash of one of the game's files takes over that file's size (`merger.rs:706`,
  `CollidesWithGame`);
- a fingerprint is of names and sizes: a file changed for one of the same size is not noticed
  (`mods.rs content_fingerprint`);
- a folder of a mod that cannot be listed, or a file that cannot be read, is left out of the mod's
  changelog, which is stored under the fingerprint of the whole folder and used until the mod changes or
  a merge is forced (`builder.rs:482`, `:526`, `:535`, `:575`; `unread` in ChangelogCache);
- a folder that cannot be listed for the fingerprint gives the fingerprint of a mod without it: its entry
  is stored under that name, or another's found there (`mods.rs:527`);
- a removal cut short can leave a cached changelog and its index without the blob, which is found only
  when the files are read (`cache.rs:199`, `halfRemoved` in ChangelogCache);
- `mod.ini` and `config.ini` are written in place, so a power cut can reset settings; a setting that
  is written when the file could not be read loses the others (`set_value`); of a key that is there
  twice the first line is written and the last one read;
- renaming the active profile deletes the old file before the setting names the new one
  (`profile.rs:154`);
- an update removes the folders a mod usually has, not those of the game at the root of a mod copied
  by hand (`install.rs:273`), and removes before it moves, so a failure leaves a folder that is no mod;
- migration makes the folder before it moves the package: after a failure in between the package is
  skipped for ever (`install.rs:430`).

## 6. What is not modelled, and the plan

Left out of the models above: wording and layout of files; tolerance in comparing floats (not an
equivalence, `formats/byml.rs:292`); arrays whose key depends on the depth (`ecocat`, `Rails`) and
pairs of key fields; a list of saved values that lacks a table the mod has; conflicts of texts,
archives and whole files within DocumentMerge (`build` has them); the copy `realloc` makes; the order of free lists; the two locks skyline-totk creates on first
use; case and spelling in settings; the manager's views, browsing, downloads and settings.

Not planned: hooks, jit, drawing, network, images and archives (input and output or instruction
rewriting, with little state to check), byte layouts of the formats (the repository's tests compare
them with the game's own files), builds.

Planned, in this order:

1. **Boot** (`PluginManager.cpp`, `plugin/lib.rs`, `plugins.rs`, `vfs.rs`): loading order, early
   returns that never run the callbacks (`PluginManager.cpp:59`), the table of 32 callbacks whose
   refusal is ignored (`PluginManager.cpp:282`), the language note that is set before it is written
   (`vfs.rs:113`); composes with Control (the merger's `main` is one of the plugins').
2. **Regeneration** (`regen.rs`): a heal against a hit.
