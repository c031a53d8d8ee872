----------------------------- MODULE CodeInstall -----------------------------
(***************************************************************************)
(* Keeping the title's exefs folder in step with the modules that the      *)
(* merged mods ship (install in sharedlibs/totk-merge/src/code.rs, called  *)
(* by Engine::run after a merge that did not fail).                        *)
(*                                                                         *)
(* The folder is shared with the user and with other programs.  The list,  *)
(* totk-mod-merger.txt, says which files are the merger's own; it is       *)
(* written once, after the modules.  Every write and every removal is an   *)
(* action; the reads at the start of install are one action, since nothing *)
(* else touches the folder while it runs.                                  *)
(***************************************************************************)
EXTENDS Naturals, Sequences, FiniteSets

CONSTANTS
  NSlots,       \* names modules can be given (SLOTS): 8 in the code
  Modules,      \* modules that mods ship, each its content
  Foreign,      \* other files that may be found under these names
  Absent,       \* stands for "no file"
  Cut,          \* a module written in part
  None,         \* stands for "not listed"
  MaxFaults,    \* bound: calls to the file system that fail
  MaxCrashes    \* bound: installations cut short

Slots == 1..NSlots

ASSUME CodeAssumption ==
  /\ NSlots \in Nat
  /\ Modules \cap Foreign = {}
  /\ {Absent, Cut, None} \cap (Modules \cup Foreign) = {}
  /\ Absent # Cut /\ Absent # None /\ Cut # None
  /\ MaxFaults \in Nat /\ MaxCrashes \in Nat

VARIABLES
  \* the exefs folder
  content,      \* content[s]: the file of that name
  list,         \* list[s]: the module the list says was put there
  listFile,     \* whether there is a list
  ours,         \* names under which the present file was written by install
  \* install
  pc, wanted, listed, owned, free, kept, stale,
  blind,        \* the folder could not be listed
  \* the environment
  faults, crashes

folder == <<content, list, listFile, ours>>
session == <<wanted, listed, owned, free, kept, stale, blind>>
bounds == <<faults, crashes>>
vars == <<folder, pc, session, bounds>>

NoList == [s \in Slots |-> None]

\* What a mod selection may ask for: each content once, as collect leaves them.
Wishes == {w \in UNION {[1..n -> Modules] : n \in 0..Cardinality(Modules)} :
             \A i, j \in DOMAIN w : w[i] = w[j] => i = j}

Init ==
  /\ content = [s \in Slots |-> Absent] /\ list = NoList /\ listFile = FALSE /\ ours = {}
  /\ pc = "off" /\ wanted = <<>> /\ listed = NoList /\ owned = NoList
  /\ free = {} /\ kept = <<>> /\ stale = {} /\ blind = FALSE
  /\ faults = 0 /\ crashes = 0

Elements(seq) == {seq[i] : i \in DOMAIN seq}

Fault == faults < MaxFaults /\ faults' = faults + 1 /\ UNCHANGED crashes
NoFault == UNCHANGED bounds

IsFirst(s, set) == s \in set /\ \A r \in set : s <= r

-----------------------------------------------------------------------------
(* install.                                                                *)

\* Mutant of OwnedIn: a file the list names is taken for the one it lists.
OwnedInByName(present, read, want) ==
  [s \in Slots |-> IF present[s] # Absent /\ read[s] # None THEN read[s]
                   ELSE IF present[s] \in Elements(want) THEN present[s] ELSE None]

\* A file is the merger's when it holds what the list says, or a wanted module.
OwnedIn(present, read, want) ==
  [s \in Slots |-> IF present[s] \in {read[s]} \cup Elements(want) THEN present[s] ELSE None]

\* Mutant of StaleAmong: a second copy is left.
StaleAmongOnce(own, keep) == {s \in Slots : own[s] # None /\ own[s] \notin Elements(keep)}

\* Files of modules that are not kept, and second copies of those that are.
StaleAmong(own, keep) ==
  {s \in Slots : own[s] # None /\ (own[s] \notin Elements(keep) \/ \E r \in 1..(s - 1) : own[r] = own[s])}

\* The wanted modules for which there is room, those of the mods that win
\* conflicts first.
KeptIn(present, own, want) ==
  LET room == Cardinality({s \in Slots : present[s] = Absent}) + Cardinality({s \in Slots : own[s] # None})
  IN SubSeq(want, 1, IF Len(want) < room THEN Len(want) ELSE room)

\* What install makes of the list and the files it could read.
Plan(want, read, present) ==
  /\ wanted' = want /\ listed' = read
  /\ owned' = OwnedIn(present, read, want)
  /\ free' = {s \in Slots : present[s] = Absent}
  /\ kept' = KeptIn(present, owned', want)
  /\ stale' = StaleAmong(owned', kept')

\* The list and the folder are read.  When the list cannot be, nothing is
\* listed; when a file cannot be, it is not recognised; when the folder cannot be
\* listed, nothing is there.
Scan(want) ==
  /\ pc = "off"
  /\ \/ NoFault /\ Plan(want, list, content) /\ blind' = FALSE
     \/ Fault /\ listFile /\ Plan(want, NoList, content) /\ blind' = FALSE
     \/ /\ Fault /\ blind' = FALSE
        /\ \E s \in Slots : content[s] # Absent /\ Plan(want, list, [content EXCEPT ![s] = Cut])
     \/ Fault /\ Plan(want, list, [s \in Slots |-> Absent]) /\ blind' = TRUE
  /\ pc' = IF want = <<>> /\ listed' = NoList THEN "nothing" ELSE "removing"
  /\ UNCHANGED folder

\* Nothing is wanted and nothing is listed: only an empty list is removed.
DropEmptyList ==
  /\ pc = "nothing"
  /\ pc' = "done"
  /\ \/ listFile' = FALSE /\ list' = NoList /\ NoFault
     \/ Fault /\ listFile /\ UNCHANGED <<listFile, list>>
  /\ UNCHANGED <<content, ours, session>>

\* Modules whose mod is gone make room first.  One that cannot be removed stays
\* listed.
RemoveStale ==
  /\ pc = "removing"
  /\ \E s \in stale :
       /\ IsFirst(s, stale)
       /\ stale' = stale \ {s}
       /\ \/ /\ content' = [content EXCEPT ![s] = Absent]
             /\ ours' = ours \ {s}
             /\ owned' = [owned EXCEPT ![s] = None]
             /\ free' = free \cup {s}
             /\ NoFault
          \/ Fault /\ UNCHANGED <<content, ours, owned, free>>
  /\ UNCHANGED <<list, listFile, pc, wanted, listed, kept, blind>>

EndRemovals ==
  /\ pc = "removing" /\ stale = {}
  /\ pc' = "placing"
  /\ NoFault /\ UNCHANGED <<folder, session>>

InPlace(module) == \E s \in Slots : owned[s] = module

\* In place already, or without a name left.
Skip ==
  /\ pc = "placing" /\ kept # <<>>
  /\ InPlace(Head(kept)) \/ free = {}
  /\ kept' = Tail(kept)
  /\ NoFault
  /\ UNCHANGED <<folder, pc, wanted, listed, owned, free, stale, blind>>

\* Mutant of Place: what a failed write left stays there.
PlaceAndLeave ==
  /\ pc = "placing" /\ kept # <<>>
  /\ ~InPlace(Head(kept))
  /\ \E s \in free :
       /\ IsFirst(s, free)
       /\ free' = free \ {s}
       /\ \/ /\ content' = [content EXCEPT ![s] = Head(kept)]
             /\ ours' = ours \cup {s}
             /\ owned' = [owned EXCEPT ![s] = Head(kept)]
             /\ NoFault
          \/ /\ Fault /\ content' = [content EXCEPT ![s] = Cut]
             /\ ours' = ours \cup {s} /\ UNCHANGED owned
  /\ kept' = Tail(kept)
  /\ UNCHANGED <<list, listFile, pc, wanted, listed, stale, blind>>

\* A module goes under the first free name.  When it cannot be read or written,
\* whatever is there is removed; that may fail too.
Place ==
  /\ pc = "placing" /\ kept # <<>>
  /\ ~InPlace(Head(kept))
  /\ \E s \in free :
       /\ IsFirst(s, free)
       /\ free' = free \ {s}
       /\ \/ /\ content' = [content EXCEPT ![s] = Head(kept)]
             /\ ours' = ours \cup {s}
             /\ owned' = [owned EXCEPT ![s] = Head(kept)]
             /\ NoFault
          \/ /\ Fault
             /\ content' = [content EXCEPT ![s] = Absent]
             /\ ours' = ours \ {s} /\ UNCHANGED owned
          \/ /\ faults + 1 < MaxFaults /\ faults' = faults + 2 /\ UNCHANGED crashes
             /\ content' = [content EXCEPT ![s] = Cut]
             /\ ours' = ours \cup {s} /\ UNCHANGED owned
  /\ kept' = Tail(kept)
  /\ UNCHANGED <<list, listFile, pc, wanted, listed, stale, blind>>

\* What a write of the list may leave when it fails or is interrupted.
TornList == {[s \in Slots |-> IF s <= n THEN owned[s] ELSE None] : n \in 0..NSlots}

\* Mutant of ListChanges: a list that is there is not written again.
ListChangesOnce == ~listFile

\* The list is written last, when something changed (a mod's name may have).
ListChanges == owned # listed \/ ~listFile

WriteList ==
  /\ pc = "placing" /\ kept = <<>>
  /\ pc' = "done"
  /\ CASE owned = NoList ->
            \/ listFile' = FALSE /\ list' = NoList /\ NoFault
            \/ Fault /\ listFile /\ UNCHANGED <<listFile, list>>
       [] OTHER ->
            \/ listFile' = TRUE /\ list' = owned /\ NoFault
            \/ ~ListChanges /\ UNCHANGED <<listFile, list>> /\ NoFault
            \/ Fault /\ UNCHANGED <<listFile, list>>
            \/ Fault /\ listFile' = TRUE /\ list' \in TornList
  /\ UNCHANGED <<content, ours, session>>

Install == DropEmptyList \/ RemoveStale \/ EndRemovals \/ Skip \/ Place \/ WriteList

-----------------------------------------------------------------------------
(* Around install.                                                         *)

Forget ==
  /\ pc' = "off" /\ wanted' = <<>> /\ listed' = NoList /\ owned' = NoList
  /\ free' = {} /\ kept' = <<>> /\ stale' = {} /\ blind' = FALSE

Close ==
  /\ pc = "done"
  /\ Forget
  /\ NoFault /\ UNCHANGED folder

\* The power goes, perhaps in the middle of a write.
Crash ==
  /\ pc \notin {"off", "done"}
  /\ crashes < MaxCrashes /\ crashes' = crashes + 1 /\ UNCHANGED faults
  /\ \/ UNCHANGED folder
     \/ /\ pc = "placing" /\ kept # <<>> /\ ~InPlace(Head(kept))
        /\ \E s \in free :
             /\ IsFirst(s, free)
             /\ content' = [content EXCEPT ![s] = Cut]
             /\ ours' = ours \cup {s}
        /\ UNCHANGED <<list, listFile>>
     \/ /\ pc = "placing" /\ kept = <<>> /\ owned # NoList
        /\ listFile' = TRUE /\ list' \in TornList
        /\ UNCHANGED <<content, ours>>
  /\ Forget

\* Someone copies a file into the folder, or deletes one, or the list.
UserPuts(s, file) ==
  /\ pc = "off"
  /\ content' = [content EXCEPT ![s] = file]
  /\ ours' = ours \ {s}
  /\ NoFault /\ UNCHANGED <<list, listFile, pc, session>>

\* Without the list, what it named cannot be told from someone else's files.
UserDropsList ==
  /\ pc = "off" /\ listFile
  /\ listFile' = FALSE /\ list' = NoList /\ ours' = {}
  /\ NoFault /\ UNCHANGED <<content, pc, session>>

User == UserDropsList \/ \E s \in Slots, file \in Modules \cup Foreign \cup {Absent} : UserPuts(s, file)

Next ==
  \/ \E want \in Wishes : Scan(want)
  \/ Install \/ Close \/ Crash \/ User

Spec == Init /\ [][Next]_vars
-----------------------------------------------------------------------------
(* Properties.                                                             *)

Lists == [Slots -> Modules \cup {None}]

\* Types of the folder's state and of the installation's.
TypeOK ==
  /\ content \in [Slots -> Modules \cup Foreign \cup {Absent, Cut}]
  /\ list \in Lists /\ listFile \in BOOLEAN /\ ours \subseteq Slots
  /\ pc \in {"off", "nothing", "removing", "placing", "done"}
  /\ wanted \in Seq(Modules) /\ kept \in Seq(Modules)
  /\ listed \in Lists /\ owned \in Lists
  /\ free \subseteq Slots /\ stale \subseteq Slots /\ blind \in BOOLEAN
  /\ faults \in 0..MaxFaults /\ crashes \in 0..MaxCrashes

\* code.rs:229-309: what install read at its start stays true while it works: a
\* file it owns holds what the list says or a wanted module, a free name has no
\* file, only owned files are to be removed, and only wanted modules are written,
\* unless the folder could not be listed.
SnapshotStaysTrue ==
  pc \in {"removing", "placing"} /\ ~blind =>
    /\ \A s \in Slots : owned[s] # None =>
         content[s] = owned[s] /\ owned[s] \in {list[s]} \cup Elements(wanted)
    /\ \A s \in free : content[s] = Absent
    /\ \A s \in stale : owned[s] # None
    /\ Elements(kept) \subseteq Elements(wanted)

\* code.rs:24-29 and :214-215: install replaces or removes a file only when the list
\* names it and it still holds what the list says, or when it holds a module that
\* is wanted; any other file is left as it is, unless the folder could not be listed.
OnlyItsFilesChange ==
  [][pc # "off" /\ ~blind => \A s \in Slots :
       content'[s] # content[s] =>
         content[s] = Absent \/ content[s] = list[s] \/ content[s] \in Elements(wanted)]_vars

\* code.rs:213 "exactly `wanted`": of the wanted modules, the first ones that fit
\* beside other people's files are there, once each; the others are not. Crashes
\* before do not matter; a call that failed does.
ExactlyTheFirstThatFit ==
  pc = "done" /\ faults = 0 =>
    LET room == {s \in Slots : content[s] = Absent \/ content[s] \in Elements(wanted)}
        copies(i) == Cardinality({s \in Slots : content[s] = wanted[i]})
    IN \A i \in DOMAIN wanted : copies(i) = IF i <= Cardinality(room) THEN 1 ELSE 0

\* code.rs:52-54: after an installation the list names the modules that are there,
\* all of them and nothing else, unless a call failed.
ListIsTrue ==
  pc = "done" /\ faults = 0 => \A s \in Slots :
    list[s] = IF content[s] \in Elements(wanted) THEN content[s] ELSE None

\* code.rs:196-197 "turning a mod off removes its module": a file that install
\* wrote, and nobody replaced since, is a module that is wanted now.
GoneModsLeave ==
  pc = "done" => \A s \in ours : content[s] \in Elements(wanted)

\* The same, as far as it goes: while no installation was cut short and no call
\* failed, whatever the user copies, deletes or turns off in between.
GoneModsLeaveUnlessCutShort == faults = 0 /\ crashes = 0 => GoneModsLeave

\* code.rs:370 "Half a module must not be loaded": when the game starts, no name
\* holds a module written in part, whichever call failed; two that fail in a row,
\* the write and the removal of what it left, may leave one, and so may a crash.
NoHalfModule ==
  crashes = 0 /\ faults <= 1 /\ pc \in {"off", "done"} => \A s \in Slots : content[s] # Cut
=============================================================================
