-------------------------------- MODULE Manager --------------------------------
(***************************************************************************)
(* The mod manager: its interface thread, the thread that installs a       *)
(* download, and the SD card both write to through the core, whose lock    *)
(* they share (totk-mod-manager: app.cpp, the tabs, installer.cpp,         *)
(* worker.cpp, core.cpp over ModFolders).                                  *)
(*                                                                         *)
(* A call of the core is the list of file system calls it makes, run one   *)
(* by one under the lock.  One of them may fail, which ends the call; the  *)
(* power may go between two of them, or during one.                        *)
(***************************************************************************)
EXTENDS ModFolders, FiniteSetsExt

CONSTANTS
  DefaultProfile, \* the name of the profile a first run makes
  NewNames,       \* the names the user gives to profiles
  Cards,          \* what may be on the card at first
  Archives,       \* Archives[a] = [tree, folder, info]: a download, and the mod it is installed as
  HandMods,       \* HandMods[folder]: what the user copies to the card by hand
  MaxEvents,      \* bound on what happens: acts, downloads, changes by hand, failures and power cuts
  MaxOf           \* MaxOf[kind]: bound on each kind of them

\* The profiles there are at first are the manager's own, the settings file
\* names the active one once, and the folders of mods and new profiles have
\* names that are sorted with the others.
ASSUME CardsAssumption ==
  /\ \A c \in Cards :
       /\ c = [tree |-> c.tree, texts |-> c.texts]
       /\ \A path \in DOMAIN c.texts : IsProfile(path) => IsWhole(c.texts[path])
       /\ ConfigFile \in DOMAIN c.texts => IsSetOnce(c.texts[ConfigFile], "profile")
  /\ \A name \in DOMAIN Archives : Archives[name].folder \in Names /\ DOMAIN Archives[name].tree \subseteq Seq(STRING)
  /\ NewNames \cup {DefaultProfile} \subseteq Names
  /\ {"faults", "cuts"} \subseteq DOMAIN MaxOf

VARIABLES
  card,    \* the SD card
  call,    \* the call of the core being made: by whom, which, what is left of it
  held,    \* the interface holds the lock between two calls
  todo,    \* what the interface has yet to do
  screen,  \* app::state()
  job,     \* the installation
  on,      \* the manager is open
  count,   \* of what is bounded
  chosen,  \* history: the list the user last chose for a profile, and the one before
  updated, \* history: the version a mod was last installed at, and its settings then
  unsaved  \* history: a call failed since the screen was last read

vars == <<card, call, held, todo, screen, job, on, count, chosen, updated, unsaved>>

NoCall == [who |-> "none", step |-> <<>>, ops |-> <<>>]
NoJob == [stage |-> "none", archive |-> "", candidate |-> Candidate("", <<>>)]
DownloadDir == <<"downloads">>

\* tkmc_state: the installed mods, the profiles, and the active one.
StateOf(c) ==
  LET name == Active(c)
      exists == name # "" /\ HasProfile(c, name)
  IN [profile |-> name, exists |-> exists, profiles |-> InOrder(Profiles(c)),
      entries |-> IF exists THEN LoadProfile(c, name) ELSE <<>>, mods |-> Scan(c)]

InstalledOn(s, folder) == folder \in FoldersIn(s.mods)

Start(c) == <<<<"migrate">>, <<"reload">>, <<"normalize">>>>
Reload == <<<<"reload">>, <<"normalize">>>>

Init ==
  /\ card \in Cards
  /\ call = NoCall /\ held = FALSE /\ job = NoJob /\ on = TRUE
  /\ todo = Start(card) /\ screen = StateOf(card)
  /\ count = [kind \in DOMAIN MaxOf |-> 0]
  /\ chosen = <<>> /\ updated = <<>> /\ unsaved = FALSE

\* One more event of a kind.
Counted(kind) ==
  /\ MapThenSumSet(LAMBDA k : count[k], DOMAIN count) < MaxEvents /\ count[kind] < MaxOf[kind]
  /\ count' = [count EXCEPT ![kind] = @ + 1]

-----------------------------------------------------------------------------
(* normalizeProfile: what it does to the state it is given.                *)

\* No profile, or its file is gone: every mod by its mod.ini.
ByName(mods) == FlattenSeq([i \in 1..(Len(NameOrder) + 1) |-> Among(mods, {m \in ToSet(mods) : NameRank(m) = i})])
OfPriority(mods, priority) == ByName(Among(mods, {m \in ToSet(mods) : m.info.priority = priority}))
HighestFirst(mods) == FlattenSeq([i \in 1..(MaxPriority + 1) |-> OfPriority(mods, (MaxPriority + 1) - i)])
ByModIni(mods) ==
  LET order == HighestFirst(mods)
  IN [i \in 1..Len(order) |-> Listed(order[i].folder, order[i].info.enabled, <<>>)]

\* The mods the list does not have, on top and enabled.
Added(s) ==
  LET new == Without(s.mods, FoldersIn(s.entries))
  IN [i \in 1..Len(new) |-> Listed(new[i].folder, TRUE, <<>>)]

\* Mutant of Complete: the mods the list does not have are added to a list of what is installed.
CompleteOfInstalled(s) ==
  LET name == IF s.profile = "" THEN DefaultProfile ELSE s.profile
      installed == OfFolders(s.entries, FoldersIn(s.mods))
  IN IF s.profile = "" \/ ~s.exists THEN <<<<"add", name, ByModIni(s.mods)>>, <<"activate", name>>, <<"read">>>>
     ELSE IF Added(s) # <<>> THEN <<<<"add", name, Added(s) \o installed>>, <<"read">>>>
     ELSE <<>>

Complete(s) ==
  LET name == IF s.profile = "" THEN DefaultProfile ELSE s.profile IN
  IF s.profile = "" \/ ~s.exists THEN <<<<"add", name, ByModIni(s.mods)>>, <<"activate", name>>, <<"read">>>>
  ELSE IF Added(s) # <<>> THEN <<<<"add", name, Added(s) \o s.entries>>, <<"read">>>>
  ELSE <<>>

Normalize(s) ==
  IF s.profile = "" /\ s.profiles # <<>>
  THEN <<<<"activate", s.profiles[1]>>, <<"read">>, <<"complete">>>>
  ELSE Complete(s)

-----------------------------------------------------------------------------
(* Calls of the core.                                                      *)

Calls(step) ==
  CASE step[1] \in {"save", "add"} -> SaveProfile(card, step[2], step[3])
    [] step[1] = "activate" -> ActivateProfile(card, step[2])
    [] step[1] = "delete" -> DeleteProfile(card, step[2])
    [] step[1] = "rename" -> RenameProfile(card, step[2], step[3])
    [] step[1] = "uninstall" -> Uninstall(card, step[2])
    [] step[1] = "plugins" -> SetPlugins(card, step[2], step[3])
    [] step[1] = "package" -> Migrate(card, step[2])
    [] step[1] = "install" -> Install(card, job.candidate, Archives[job.archive].folder, Archives[job.archive].info)
    [] step[1] = "clean" -> <<<<"rmtree", DownloadDir>>>>

\* What is left to do after a call that failed: a profile that could not be
\* saved is not activated, a mod that could not be removed stays listed.
AfterFailure(step) ==
  LET reload == {i \in 1..Len(todo) : todo[i][1] = "reload"} IN
  CASE step[1] \in {"save", "add"} -> IF reload = {} THEN <<>> ELSE SubSeq(todo, CHOOSE i \in reload : TRUE, Len(todo))
    [] step[1] = "uninstall" -> <<>>
    [] OTHER -> todo

AfterJob == CASE job.stage = "install" -> "clean" [] job.stage = "clean" -> "posted" [] OTHER -> job.stage

\* The call ends: `left` is what the interface does next.
Ends(left) ==
  /\ call' = NoCall
  /\ todo' = IF call.who = "interface" THEN left ELSE todo
  /\ held' = (held /\ todo' # <<>>)
  /\ job' = [job EXCEPT !.stage = IF call.who = "worker" THEN AfterJob ELSE @]

\* One call to the file system.
Works ==
  LET op == Head(call.ops)
      done == Tail(call.ops) = <<>>
      archive == Archives[job.archive]
      installed == call.step[1] = "install" /\ done
  IN /\ call.ops # <<>> /\ CanDo(op, card)
     /\ card' = Do(op, card)
     /\ IF done THEN Ends(todo) ELSE call' = [call EXCEPT !.ops = Tail(@)] /\ UNCHANGED <<todo, held, job>>
     /\ updated' = IF call.step[1] = "uninstall" /\ done
                   THEN [f \in DOMAIN updated \ {call.step[2]} |-> updated[f]]
                   ELSE IF installed /\ archive.folder \in DOMAIN updated
                   THEN [updated EXCEPT ![archive.folder].version = archive.info.version]
                   ELSE IF installed /\ call.step[2]
                   THEN With(updated, archive.folder, [version |-> archive.info.version, plugins |-> TRUE])
                   ELSE updated
     /\ UNCHANGED <<screen, on, count, chosen, unsaved>>

\* It fails, by itself or for lack of room on the card.
FailsNow ==
  LET op == Head(call.ops) IN
  /\ call.ops # <<>>
  /\ \/ ~CanDo(op, card) /\ UNCHANGED <<card, count>>
     \/ CanDo(op, card) /\ card' \in {card} \cup Parts(op, card) /\ Counted("faults")
  /\ Ends(AfterFailure(call.step))
  /\ unsaved' = TRUE
  /\ UNCHANGED <<screen, on, chosen, updated>>

-----------------------------------------------------------------------------
(* The interface thread.                                                   *)

Free == call = NoCall
Idle == on /\ todo = <<>> /\ call.who # "interface"

\* app::reload: the state is read, and the lock let go of.
Reads ==
  /\ on /\ Free /\ todo # <<>> /\ Head(todo)[1] \in {"reload", "read"}
  /\ screen' = StateOf(card)
  /\ todo' = Tail(todo) /\ held' = (held /\ todo' # <<>>)
  /\ unsaved' = (unsaved /\ Head(todo)[1] = "read")
  /\ UNCHANGED <<card, call, job, on, count, chosen, updated>>

\* normalizeProfile, which keeps the lock to its end.
Normalizes ==
  /\ on /\ Free /\ todo # <<>> /\ Head(todo)[1] \in {"normalize", "complete"}
  /\ todo' = IF Head(todo)[1] = "normalize" THEN Normalize(screen) ELSE Complete(screen)
  /\ held' = (todo' # <<>>)
  /\ UNCHANGED <<card, call, screen, job, on, count, chosen, updated, unsaved>>

\* migrateOldLayout, once for each loose package.
Migrates ==
  /\ on /\ Free /\ todo # <<>> /\ Head(todo)[1] = "migrate"
  /\ LET packages == InOrder(Migratable(card))
     IN todo' = [i \in 1..Len(packages) |-> <<"package", packages[i]>>] \o Tail(todo)
  /\ UNCHANGED <<card, call, held, screen, job, on, count, chosen, updated, unsaved>>

\* Any other step is a call of the core.
CallsCore ==
  /\ on /\ Free /\ todo # <<>> /\ Head(todo)[1] \notin {"reload", "read", "normalize", "complete", "migrate"}
  /\ LET ops == Calls(Head(todo))
     IN call' = IF ops = <<>> THEN NoCall ELSE [who |-> "interface", step |-> Head(todo), ops |-> ops]
  /\ todo' = Tail(todo) /\ UNCHANGED held
  /\ UNCHANGED <<card, screen, job, on, count, chosen, updated, unsaved>>

-----------------------------------------------------------------------------
(* The user.                                                               *)

Acts(steps) ==
  /\ Idle /\ Counted("acts")
  /\ todo' = steps
  /\ UNCHANGED <<card, call, held, job, on>>

\* What was chosen before, if anything was.
Before(name) == IF name \in DOMAIN chosen THEN chosen[name][2] ELSE <<>>
Chose(name, list) == chosen' = With(chosen, name, <<Before(name), list>>)

\* The list on the screen changes and is saved.
Saves(entries) ==
  /\ Acts(<<<<"save", screen.profile, entries>>>>)
  /\ screen' = [screen EXCEPT !.entries = entries]
  /\ Chose(screen.profile, entries)
  /\ UNCHANGED <<updated, unsaved>>

\* ModsTab::toggle
Toggle(folder) ==
  /\ InstalledOn(screen, folder)
  /\ \E i \in FindEntry(screen.entries, folder) : Saves([screen.entries EXCEPT ![i].enabled = ~@])

\* ModActivity::select, of a package
Select(folder, option) ==
  /\ \E i \in 1..Len(screen.mods) : screen.mods[i].folder = folder /\ screen.mods[i].kind = "package"
  /\ \E i \in FindEntry(screen.entries, folder) : Saves([screen.entries EXCEPT ![i].options = Selected(option)])

\* moveMod: what is listed but not installed keeps to the end.
Moves(entries, folder, position) ==
  LET installed == FoldersIn(screen.mods)
      others == OfFolders(entries, installed \ {folder})
      moved == OfFolders(entries, {folder})
      absent == Without(entries, installed)
      place == IF position < Len(others) THEN position ELSE Len(others)
  IN SubSeq(others, 1, place) \o moved \o SubSeq(others, place + 1, Len(others)) \o absent
Move(folder, position) ==
  /\ InstalledOn(screen, folder) /\ FindEntry(screen.entries, folder) # {}
  /\ Saves(Moves(screen.entries, folder, position))

\* ProfilesTab::createProfile
Create(name, copy) ==
  LET mods == [i \in 1..Len(screen.mods) |-> Listed(screen.mods[i].folder, FALSE, <<>>)]
      entries == IF copy THEN screen.entries ELSE mods
  IN /\ name \notin ToSet(screen.profiles)
     /\ Acts(<<<<"save", name, entries>>, <<"activate", name>>>> \o Reload)
     /\ Chose(name, entries)
     /\ UNCHANGED <<screen, updated, unsaved>>

\* ProfilesTab::openMenu
Activate(name) ==
  /\ name \in ToSet(screen.profiles) /\ name # screen.profile
  /\ Acts(<<<<"activate", name>>>> \o Reload)
  /\ UNCHANGED <<screen, chosen, updated, unsaved>>
Rename(name, to) ==
  /\ name \in ToSet(screen.profiles) /\ to \notin ToSet(screen.profiles)
  /\ Acts(<<<<"rename", name, to>>>> \o Reload)
  /\ chosen' = IF name \notin DOMAIN chosen THEN chosen
               ELSE [p \in (DOMAIN chosen \ {name}) \cup {to} |-> IF p = to THEN chosen[name] ELSE chosen[p]]
  /\ UNCHANGED <<screen, updated, unsaved>>
Delete(name) ==
  /\ name \in ToSet(screen.profiles) /\ name # screen.profile
  /\ Acts(<<<<"delete", name>>>> \o Reload)
  /\ chosen' = [p \in DOMAIN chosen \ {name} |-> chosen[p]]
  /\ UNCHANGED <<screen, updated, unsaved>>

\* The rows of a mod's page.
UninstallMod(folder) ==
  /\ InstalledOn(screen, folder)
  /\ Acts(<<<<"uninstall", folder>>>> \o Reload)
  /\ chosen' = [p \in DOMAIN chosen |-> <<Without(chosen[p][1], {folder}), Without(chosen[p][2], {folder})>>]
  /\ UNCHANGED <<screen, updated, unsaved>>
LoadPlugins(folder) ==
  /\ \E i \in 1..Len(screen.mods) :
       LET mod == screen.mods[i] IN
       /\ mod.folder = folder /\ mod.plugins # {}
       /\ Acts(<<<<"plugins", folder, ~mod.info.plugins>>>> \o Reload)
       /\ updated' = IF folder \in DOMAIN updated THEN [updated EXCEPT ![folder].plugins = ~mod.info.plugins] ELSE updated
  /\ UNCHANGED <<screen, chosen, unsaved>>

-----------------------------------------------------------------------------
(* An installation.                                                        *)

\* The download is unpacked and one of the mods in it chosen.
Download(name) ==
  LET archive == Archives[name]
      tree == [p \in {DownloadDir \o q : q \in DOMAIN archive.tree} |-> archive.tree[SubSeq(p, 2, Len(p))]]
  IN /\ Idle /\ Free /\ job = NoJob /\ Counted("installs")
     /\ card' = [card EXCEPT !.tree = Over(tree, Less(@, DownloadDir))]
     /\ \E candidate \in Candidates(card'.tree, DownloadDir) :
          job' = [stage |-> "install", archive |-> name, candidate |-> candidate]
     /\ UNCHANGED <<call, held, todo, screen, on, chosen, updated, unsaved>>

\* finish: on the worker, the mod is installed and the download removed.
WorkerCalls ==
  /\ job.stage \in {"install", "clean"} /\ Free /\ ~held
  /\ LET step == IF job.stage = "clean" THEN <<"clean">>
                 ELSE <<"install", Inspect(card.tree, ModPath(Archives[job.archive].folder)) = NotAMod>>
     IN call' = [who |-> "worker", step |-> step, ops |-> Calls(step)]
  /\ UNCHANGED <<card, held, todo, screen, job, on, count, chosen, updated, unsaved>>

\* The end of the job, posted to the interface.
JobDone ==
  /\ Idle /\ job.stage = "posted"
  /\ job' = NoJob /\ todo' = Reload
  /\ UNCHANGED <<card, call, held, screen, on, count, chosen, updated, unsaved>>

-----------------------------------------------------------------------------
(* Closing, power cuts, and the card in a computer.                        *)

\* shutdown waits for the worker; what it posted is dropped.
Quit ==
  /\ Idle /\ on' = FALSE
  /\ UNCHANGED <<card, call, held, todo, screen, job, count, chosen, updated, unsaved>>

Open ==
  /\ ~on /\ Free /\ job.stage \in {"none", "posted"}
  /\ on' = TRUE /\ job' = NoJob /\ todo' = Start(card)
  /\ UNCHANGED <<card, call, held, screen, count, chosen, updated, unsaved>>

PowerCut ==
  /\ Counted("cuts")
  /\ on' = FALSE /\ call' = NoCall /\ held' = FALSE /\ todo' = <<>> /\ job' = NoJob
  /\ card' \in {card} \cup (IF call.ops # <<>> THEN Parts(Head(call.ops), card) ELSE {})
  /\ UNCHANGED <<screen, chosen, updated, unsaved>>

ByHand ==
  /\ ~on /\ Free /\ job.stage \in {"none", "posted"} /\ Counted("hand")
  /\ \/ \E folder \in DOMAIN HandMods :
          /\ ~Exists(card, ModPath(folder))
          /\ card' = [card EXCEPT !.tree = Over([p \in {ModPath(folder) \o q : q \in DOMAIN HandMods[folder]} |->
                                                   HandMods[folder][SubSeq(p, 3, Len(p))]], @)]
          /\ UNCHANGED <<chosen, updated>>
     \/ \E folder \in ModsOn(card) :
          /\ card' = Do(<<"rmtree", ModPath(folder)>>, card)
          /\ updated' = [f \in DOMAIN updated \ {folder} |-> updated[f]]
          /\ UNCHANGED chosen
     \/ \E name \in Profiles(card) :
          /\ card' = Do(<<"unlink", ProfileFile(name)>>, card)
          /\ chosen' = [p \in DOMAIN chosen \ {name} |-> chosen[p]]
          /\ UNCHANGED updated
  /\ UNCHANGED <<call, held, todo, screen, job, on, unsaved>>

-----------------------------------------------------------------------------
Folders == {screen.mods[i].folder : i \in 1..Len(screen.mods)}
Next ==
  \/ Works \/ FailsNow \/ Reads \/ Normalizes \/ Migrates \/ CallsCore
  \/ \E folder \in Folders : Toggle(folder) \/ UninstallMod(folder) \/ LoadPlugins(folder)
  \/ \E folder \in Folders, option \in OptionNames : Select(folder, option)
  \/ \E folder \in Folders, position \in 0..(Len(screen.mods) - 1) : Move(folder, position)
  \/ \E name \in NewNames, copy \in BOOLEAN : Create(name, copy)
  \/ \E name \in ToSet(screen.profiles) : Activate(name) \/ Delete(name)
  \/ \E name \in ToSet(screen.profiles), to \in NewNames : Rename(name, to)
  \/ \E name \in DOMAIN Archives : Download(name)
  \/ WorkerCalls \/ JobDone \/ Quit \/ Open \/ PowerCut \/ ByHand

Spec == Init /\ [][Next]_vars

-----------------------------------------------------------------------------
\* Nothing is under way, and what is on the screen was read or saved.
AtRest == Idle /\ Free /\ job = NoJob /\ ~unsaved
Undisturbed == count.faults = 0 /\ count.cuts = 0

FoldersOf(list) == [i \in 1..Len(list) |-> list[i].folder]

\* What the game merges, over what RomFSlite had, is what the list shows: the
\* enabled mods of the list that are installed, each once, the one at its top
\* last, and every installed mod is in the list.
WhatIsShownIsMerged ==
  AtRest =>
    /\ LET merged == SubSeq(Discover(card), Len(RomfsLite) + 1, Len(Discover(card)))
       IN /\ Discover(card) = RomfsLite \o merged
          /\ FoldersOf(merged) = Reverse(FoldersOf(Chosen(screen.entries, screen.mods)))
    /\ \A mod \in ToSet(Scan(card)) : Cardinality(FindEntry(screen.entries, mod.folder)) = 1

\* The list a user chose keeps its order, what is enabled and the options,
\* through installations, updates, removals and starts: mods are only added
\* to it.
Keeps(list, kept) == OfFolders(list, FoldersIn(kept)) = kept
ChoicesAreKept ==
  AtRest /\ Undisturbed =>
    \A name \in DOMAIN chosen : HasProfile(card, name) /\ Keeps(LoadProfile(card, name), chosen[name][2])

\* A profile under its own name is never a list cut short, whatever fails
\* and whenever the power goes.
ProfilesAreWhole ==
  \A name \in Profiles(card) : card.texts[ProfileFile(name)] = ToIni(LoadProfile(card, name))

\* An update leaves nothing of the version before, and keeps the settings.
UpdatesReplaceFilesOnly ==
  AtRest /\ Undisturbed =>
    \A folder \in DOMAIN updated :
      /\ folder \in ModsOn(card)
      /\ \A p \in Inside(card.tree, ModPath(folder)) : card.tree[p] \in {"dir", updated[folder].version}
      /\ InfoAt(card, IniOf(folder)).plugins = updated[folder].plugins

\* "Written next to the real file and moved over it, so a profile is never
\* left half written" (profile.rs): after a power cut a profile still is a
\* list the user chose.
ChoicesSurvivePowerCuts ==
  AtRest /\ count.faults = 0 =>
    \A name \in DOMAIN chosen :
      HasProfile(card, name) /\ \E list \in ToSet(chosen[name]) : Keeps(LoadProfile(card, name), list)
=============================================================================
