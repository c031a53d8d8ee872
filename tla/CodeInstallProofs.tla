-------------------------- MODULE CodeInstallProofs --------------------------
(***************************************************************************)
(* What install does to the exefs folder, proved for any number of names,  *)
(* modules and foreign files, and any number of crashes and failing calls. *)
(***************************************************************************)
EXTENDS CodeInstall, FiniteSetTheorems, SequenceTheorems, TLAPS

\* The names are finitely many, so room is a number.
LEMMA RoomIsANumber ==
  ASSUME NEW set \in SUBSET Slots
  PROVE  Cardinality(set) \in Nat
<1>1. IsFiniteSet(Slots)
  BY CodeAssumption, FS_Interval, 1 \in Int, NSlots \in Int DEF Slots
<1>2. IsFiniteSet(set)
  BY <1>1, FS_Subset
<1> QED
  BY <1>2, FS_CardinalityType

\* The first modules of a selection are a selection of modules it holds.
LEMMA FirstOnes ==
  ASSUME NEW want \in Seq(Modules), NEW n \in Nat, n <= Len(want)
  PROVE  /\ SubSeq(want, 1, n) \in Seq(Modules)
         /\ Elements(SubSeq(want, 1, n)) \subseteq Elements(want)
         /\ Len(SubSeq(want, 1, n)) = n
         /\ \A i \in 1..n : SubSeq(want, 1, n)[i] = want[i]
<1>1. \A i \in 1..n : want[i] \in Modules
  BY ElementOfSeq
<1>2. /\ SubSeq(want, 1, n) \in Seq(Modules)
      /\ Len(SubSeq(want, 1, n)) = n
      /\ \A i \in 1..n : SubSeq(want, 1, n)[i] = want[i]
  BY <1>1, SubSeqProperties, n >= 0, 1 \in Int, n \in Int
<1> QED
  BY <1>2, LenProperties DEF Elements

\* So is what follows the first of them.
LEMMA TheRest ==
  ASSUME NEW seq \in Seq(Modules), seq # <<>>
  PROVE  /\ Head(seq) \in Modules /\ Head(seq) \in Elements(seq)
         /\ Tail(seq) \in Seq(Modules)
         /\ Elements(Tail(seq)) \subseteq Elements(seq)
<1>1. /\ Head(seq) \in Modules /\ Tail(seq) \in Seq(Modules)
      /\ Len(Tail(seq)) = Len(seq) - 1
      /\ \A i \in 1..Len(Tail(seq)) : Tail(seq)[i] = seq[i + 1]
  BY HeadTailProperties
<1>2. Len(seq) \in Nat /\ DOMAIN seq = 1..Len(seq) /\ DOMAIN Tail(seq) = 1..Len(Tail(seq)) /\ Len(seq) # 0
  BY <1>1, LenProperties, EmptySeq
<1>3. Head(seq) = seq[1]
  OBVIOUS
<1> QED
  BY <1>1, <1>2, <1>3 DEF Elements

\* A wish is a sequence of modules.
LEMMA WishesAreSequences == \A want \in Wishes : want \in Seq(Modules)
BY DEF Wishes

-----------------------------------------------------------------------------
Files == Modules \cup Foreign \cup {Absent, Cut}

\* What install owns is there, and is listed or wanted.
LEMMA OwnedIsThere ==
  ASSUME NEW want \in Wishes, NEW read \in Lists, NEW present \in [Slots -> Files]
  PROVE  /\ OwnedIn(present, read, want) \in Lists
         /\ \A s \in Slots : OwnedIn(present, read, want)[s] # None =>
              /\ present[s] = OwnedIn(present, read, want)[s]
              /\ present[s] \in {read[s]} \cup Elements(want)
              /\ present[s] \in Modules
<1>1. Elements(want) \subseteq Modules
  BY WishesAreSequences, LenProperties, ElementOfSeq DEF Elements
<1>2. \A s \in Slots : read[s] \in Modules \cup {None}
  BY DEF Lists
<1>3. \A s \in Slots : present[s] # None
  BY CodeAssumption DEF Files
<1> QED
  BY <1>1, <1>2, <1>3 DEF OwnedIn, Lists

\* What is kept is wanted.
LEMMA KeptIsWanted ==
  ASSUME NEW want \in Wishes, NEW own \in Lists, NEW present \in [Slots -> Files]
  PROVE  /\ KeptIn(present, own, want) \in Seq(Modules)
         /\ Elements(KeptIn(present, own, want)) \subseteq Elements(want)
<1> DEFINE room == Cardinality({s \in Slots : present[s] = Absent}) + Cardinality({s \in Slots : own[s] # None})
           n == IF Len(want) < room THEN Len(want) ELSE room
<1>1. want \in Seq(Modules) /\ Len(want) \in Nat
  BY WishesAreSequences, LenProperties
<1>2. /\ Cardinality({s \in Slots : present[s] = Absent}) \in Nat
      /\ Cardinality({s \in Slots : own[s] # None}) \in Nat
  BY RoomIsANumber
<1>3. n \in Nat /\ n <= Len(want)
  BY <1>1, <1>2
<1>4. KeptIn(present, own, want) = SubSeq(want, 1, n)
  BY DEF KeptIn
<1> HIDE DEF n
<1> QED
  BY <1>1, <1>3, <1>4, FirstOnes

\* Only what is owned is stale.
LEMMA StaleIsOwned ==
  ASSUME NEW own \in Lists, NEW keep
  PROVE  /\ StaleAmong(own, keep) \subseteq Slots
         /\ \A s \in StaleAmong(own, keep) : own[s] # None
BY DEF StaleAmong

-----------------------------------------------------------------------------
(* Type correctness.                                                       *)

\* Each write and each removal keeps the types.
LEMMA TypeStep ==
  ASSUME TypeOK, [Next]_vars
  PROVE  TypeOK'
<1>2. ASSUME NEW want \in Wishes, Scan(want)
      PROVE  TypeOK'
  <2>1. NoList \in Lists /\ list \in Lists /\ content \in [Slots -> Files]
    BY DEF NoList, Lists, Files, TypeOK
  <2>2. PICK read \in Lists, present \in [Slots -> Files] :
          /\ wanted' = want /\ listed' = read
          /\ owned' = OwnedIn(present, read, want)
          /\ free' = {s \in Slots : present[s] = Absent}
          /\ kept' = KeptIn(present, owned', want)
          /\ stale' = StaleAmong(owned', kept')
    <3>1. [s \in Slots |-> Absent] \in [Slots -> Files]
      BY DEF Files
    <3>2. \A s \in Slots : [content EXCEPT ![s] = Cut] \in [Slots -> Files]
      BY <2>1 DEF Files
    <3> QED
      BY <1>2, <2>1, <3>1, <3>2 DEF Scan, Plan
  <2>3. owned' \in Lists
    BY <2>2, OwnedIsThere
  <2>4. kept' \in Seq(Modules) /\ wanted' \in Seq(Modules)
    BY <2>2, <2>3, KeptIsWanted, WishesAreSequences
  <2>5. free' \subseteq Slots /\ stale' \subseteq Slots
    BY <2>2, <2>3, StaleIsOwned
  <2>6. UNCHANGED folder /\ pc' \in {"nothing", "removing"} /\ blind' \in BOOLEAN
    BY <1>2 DEF Scan
  <2>7. faults' \in 0..MaxFaults /\ crashes' \in 0..MaxCrashes
    <3>1. NoFault \/ Fault
      BY <1>2 DEF Scan
    <3> QED
      BY <3>1, CodeAssumption DEF Fault, NoFault, bounds, TypeOK
  <2> QED
    BY <2>2, <2>3, <2>4, <2>5, <2>6, <2>7 DEF folder, TypeOK
<1> USE DEF TypeOK
<1>1. CASE UNCHANGED vars
  BY <1>1 DEF vars, folder, session, bounds, Lists
<1>3. CASE DropEmptyList
  <2>1. NoList \in Lists
    BY DEF NoList, Lists
  <2>2. list' \in Lists /\ listFile' \in BOOLEAN
    BY <1>3, <2>1 DEF DropEmptyList
  <2>3. faults' \in 0..MaxFaults /\ crashes' \in 0..MaxCrashes
    BY <1>3, CodeAssumption DEF DropEmptyList, Fault, NoFault, bounds
  <2> QED
    BY <1>3, <2>2, <2>3 DEF DropEmptyList, session
<1>4. CASE RemoveStale
  <2>1. PICK s \in stale :
          \/ /\ content' = [content EXCEPT ![s] = Absent] /\ ours' = ours \ {s}
             /\ owned' = [owned EXCEPT ![s] = None] /\ free' = free \cup {s} /\ NoFault
          \/ Fault /\ UNCHANGED <<content, ours, owned, free>>
    BY <1>4 DEF RemoveStale
  <2>2. content' \in [Slots -> Modules \cup Foreign \cup {Absent, Cut}] /\ owned' \in Lists
        /\ ours' \subseteq Slots /\ free' \subseteq Slots
    BY <2>1 DEF Lists
  <2>3. faults' \in 0..MaxFaults /\ crashes' \in 0..MaxCrashes
    BY <2>1, CodeAssumption DEF Fault, NoFault, bounds
  <2> QED
    BY <1>4, <2>2, <2>3 DEF RemoveStale
<1>5. CASE EndRemovals
  BY <1>5 DEF EndRemovals, NoFault, bounds, folder, session
<1>6. CASE Skip
  BY <1>6, TheRest DEF Skip, NoFault, bounds, folder
<1>7. CASE Place
  <2>1. Head(kept) \in Modules /\ Tail(kept) \in Seq(Modules)
    BY <1>7, TheRest DEF Place
  <2>2. PICK s \in free :
          /\ free' = free \ {s}
          /\ \E file \in {Head(kept), Absent, Cut} : content' = [content EXCEPT ![s] = file]
          /\ owned' = [owned EXCEPT ![s] = Head(kept)] \/ owned' = owned
          /\ ours' \in {ours \cup {s}, ours \ {s}}
    BY <1>7 DEF Place
  <2>3. content' \in [Slots -> Modules \cup Foreign \cup {Absent, Cut}] /\ owned' \in Lists
        /\ ours' \subseteq Slots /\ free' \subseteq Slots
    BY <2>1, <2>2 DEF Lists
  <2>4. faults' \in 0..MaxFaults /\ crashes' \in 0..MaxCrashes
    BY <1>7, CodeAssumption DEF Place, Fault, NoFault, bounds
  <2> QED
    BY <1>7, <2>1, <2>3, <2>4 DEF Place
<1>8. CASE WriteList
  <2>1. NoList \in Lists /\ TornList \subseteq Lists
    BY DEF NoList, TornList, Lists
  <2>2. /\ <<listFile', list'>> \in {<<FALSE, NoList>>, <<listFile, list>>, <<TRUE, owned>>}
              \/ (listFile' = TRUE /\ list' \in TornList)
        /\ NoFault \/ Fault
    <3>1. CASE owned = NoList
      BY <1>8, <3>1 DEF WriteList
    <3>2. CASE owned # NoList
      BY <1>8, <3>2 DEF WriteList
    <3> QED
      BY <3>1, <3>2
  <2>3. listFile' \in BOOLEAN /\ list' \in Lists
    BY <2>1, <2>2
  <2>4. faults' \in 0..MaxFaults /\ crashes' \in 0..MaxCrashes
    BY <2>2, CodeAssumption DEF Fault, NoFault, bounds
  <2> QED
    BY <1>8, <2>3, <2>4 DEF WriteList, session
<1>9. ASSUME Forget
      PROVE  /\ wanted' \in Seq(Modules) /\ kept' \in Seq(Modules) /\ pc' = "off"
             /\ listed' \in Lists /\ owned' \in Lists /\ free' \subseteq Slots /\ stale' \subseteq Slots
  BY <1>9 DEF Forget, NoList, Lists
<1>13. Forget => blind' \in BOOLEAN
  BY DEF Forget
<1>10. CASE Close
  BY <1>9, <1>10, <1>13 DEF Close, NoFault, bounds, folder
<1>11. CASE Crash
  <2>1. TornList \subseteq Lists
    BY DEF TornList, Lists
  <2>2. content' \in [Slots -> Modules \cup Foreign \cup {Absent, Cut}] /\ ours' \subseteq Slots
        /\ list' \in Lists /\ listFile' \in BOOLEAN
    BY <1>11, <2>1 DEF Crash, folder
  <2>3. faults' \in 0..MaxFaults /\ crashes' \in 0..MaxCrashes
    BY <1>11, CodeAssumption DEF Crash
  <2> QED
    BY <1>9, <1>11, <1>13, <2>2, <2>3 DEF Crash
<1>12. CASE User
  <2>1. CASE UserDropsList
    BY <2>1 DEF UserDropsList, NoFault, bounds, session, NoList, Lists
  <2>2. ASSUME NEW s \in Slots, NEW file \in Modules \cup Foreign \cup {Absent}, UserPuts(s, file)
        PROVE  TypeOK'
    BY <2>2 DEF UserPuts, NoFault, bounds, session
  <2> QED
    BY <1>12, <2>1, <2>2 DEF User
<1> QED
  BY <1>1, <1>2, <1>3, <1>4, <1>5, <1>6, <1>7, <1>8, <1>10, <1>11, <1>12 DEF Next, Install

\* Types of the folder and of the installation, for every value of the constants
\* (code.rs install).
THEOREM TypeCorrect == Spec => []TypeOK
<1>1. Init => TypeOK
  <2>1. NoList \in Lists /\ <<>> \in Seq(Modules)
    BY DEF NoList, Lists
  <2>2. 0 \in 0..MaxFaults /\ 0 \in 0..MaxCrashes
    BY CodeAssumption
  <2>3. [s \in Slots |-> Absent] \in [Slots -> Modules \cup Foreign \cup {Absent, Cut}]
    OBVIOUS
  <2> QED
    BY <2>1, <2>2, <2>3 DEF Init, TypeOK
<1>2. TypeOK /\ [Next]_vars => TypeOK'
  BY TypeStep
<1> QED
  BY <1>1, <1>2, PTL DEF Spec

-----------------------------------------------------------------------------
(* The snapshot install works from.                                        *)

\* No step makes the snapshot false, if the folder could be listed.
LEMMA SnapshotStep ==
  ASSUME TypeOK, SnapshotStaysTrue, [Next]_vars
  PROVE  SnapshotStaysTrue'
<1> USE DEF SnapshotStaysTrue
<1>1. CASE UNCHANGED vars
  BY <1>1 DEF vars, folder, session
<1>2. ASSUME NEW want \in Wishes, Scan(want), ~blind'
      PROVE  SnapshotStaysTrue'
  <2>1. NoList \in Lists /\ list \in Lists /\ content \in [Slots -> Files]
    BY DEF NoList, Lists, Files, TypeOK
  <2>2. PICK read \in {list, NoList}, present \in [Slots -> Files] :
          /\ \A s \in Slots : present[s] \in {content[s], Cut}
          /\ \A s \in Slots : present[s] = Absent <=> content[s] = Absent
          /\ wanted' = want
          /\ owned' = OwnedIn(present, read, want)
          /\ free' = {s \in Slots : present[s] = Absent}
          /\ kept' = KeptIn(present, owned', want)
          /\ stale' = StaleAmong(owned', kept')
    <3>1. \A s \in Slots : [content EXCEPT ![s] = Cut] \in [Slots -> Files]
      BY <2>1 DEF Files
    <3>2. CASE \E s \in Slots : content[s] # Absent /\ Plan(want, list, [content EXCEPT ![s] = Cut])
      <4>1. PICK r \in Slots : content[r] # Absent /\ Plan(want, list, [content EXCEPT ![r] = Cut])
        BY <3>2
      <4>2. \A s \in Slots : [content EXCEPT ![r] = Cut][s] = IF s = r THEN Cut ELSE content[s]
        BY <2>1
      <4>3. \A s \in Slots : [content EXCEPT ![r] = Cut][s] = Absent <=> content[s] = Absent
        BY <4>1, <4>2, CodeAssumption
      <4> QED
        BY <3>1, <4>1, <4>2, <4>3 DEF Plan
    <3>3. CASE Plan(want, list, content) \/ Plan(want, NoList, content)
      BY <2>1, <3>3 DEF Plan
    <3> QED
      BY <1>2, <3>2, <3>3 DEF Scan
  <2>3. UNCHANGED folder
    BY <1>2 DEF Scan
  <2>4. /\ owned' \in Lists
        /\ \A s \in Slots : owned'[s] # None =>
             present[s] = owned'[s] /\ present[s] \in {read[s]} \cup Elements(want) /\ present[s] \in Modules
    BY <2>1, <2>2, OwnedIsThere
  <2>5. Elements(kept') \subseteq Elements(want)
    BY <2>2, <2>4, KeptIsWanted
  <2>6. \A s \in stale' : owned'[s] # None
    BY <2>2, <2>4, StaleIsOwned
  <2>7. \A s \in Slots : owned'[s] # None => content[s] = owned'[s] /\ owned'[s] \in {list[s]} \cup Elements(want)
    BY <2>2, <2>4, CodeAssumption DEF NoList
  <2> QED
    BY <2>2, <2>3, <2>5, <2>6, <2>7 DEF folder
<1>8. CASE blind'
  BY <1>8
<1>3. CASE RemoveStale
  <2>1. PICK s \in stale :
          /\ stale' = stale \ {s}
          /\ \/ /\ content' = [content EXCEPT ![s] = Absent]
                /\ owned' = [owned EXCEPT ![s] = None] /\ free' = free \cup {s}
             \/ UNCHANGED <<content, owned, free>>
    BY <1>3 DEF RemoveStale
  <2> QED
    BY <1>3, <2>1 DEF RemoveStale, TypeOK, Lists
<1>4. CASE EndRemovals
  BY <1>4 DEF EndRemovals, folder, session
<1>5. CASE Skip /\ ~blind
  BY <1>5, TheRest DEF Skip, folder, TypeOK
<1>6. CASE Place /\ ~blind
  <2>1. Head(kept) \in Elements(wanted) /\ Elements(Tail(kept)) \subseteq Elements(wanted)
    BY <1>6, TheRest DEF Place, TypeOK
  <2>2. PICK s \in free :
          /\ free' = free \ {s}
          /\ \/ /\ content' = [content EXCEPT ![s] = Head(kept)]
                /\ owned' = [owned EXCEPT ![s] = Head(kept)]
             \/ /\ owned' = owned
                /\ \E file \in {Absent, Cut} : content' = [content EXCEPT ![s] = file]
    BY <1>6 DEF Place
  <2>3. owned[s] = None
    BY <1>6, <2>2, CodeAssumption DEF Place, TypeOK, Lists
  <2> QED
    BY <1>6, <2>1, <2>2, <2>3 DEF Place, TypeOK, Lists
<1>7. CASE DropEmptyList \/ WriteList \/ Close \/ Crash \/ User
  BY <1>7 DEF DropEmptyList, WriteList, Close, Crash, User, UserPuts, UserDropsList, Forget
<1> QED
  BY <1>1, <1>2, <1>8, <1>3, <1>4, <1>5, <1>6, <1>7 DEF Next, Install, Skip, Place

\* What install read stays true while it works (code.rs:229-309), as long as the
\* folder can be listed, whatever else fails.
THEOREM SnapshotCorrect == Spec => []SnapshotStaysTrue
<1>1. Init => SnapshotStaysTrue
  BY DEF Init, SnapshotStaysTrue
<1>2. TypeOK /\ SnapshotStaysTrue /\ [Next]_vars => SnapshotStaysTrue'
  BY SnapshotStep
<1> QED
  BY <1>1, <1>2, TypeCorrect, PTL DEF Spec

-----------------------------------------------------------------------------
(* Other people's files.                                                   *)

\* A step of install changes its own files only.
LEMMA OwnFilesStep ==
  ASSUME TypeOK, SnapshotStaysTrue, Next, pc # "off", ~blind, NEW s \in Slots, content'[s] # content[s]
  PROVE  content[s] = Absent \/ content[s] = list[s] \/ content[s] \in Elements(wanted)
<1>1. CASE RemoveStale
  <2>1. PICK r \in stale : content' = [content EXCEPT ![r] = Absent] \/ UNCHANGED content
    BY <1>1 DEF RemoveStale
  <2>2. s \in stale
    BY <2>1 DEF TypeOK
  <2> QED
    BY <1>1, <2>2 DEF RemoveStale, SnapshotStaysTrue
<1>2. CASE Place
  <2>1. PICK r \in free : \E file : content' = [content EXCEPT ![r] = file]
    BY <1>2 DEF Place
  <2>2. s \in free
    BY <2>1 DEF TypeOK
  <2> QED
    BY <1>2, <2>2 DEF Place, SnapshotStaysTrue
<1>3. CASE Crash
  <2>1. PICK r \in free : pc = "placing" /\ content' = [content EXCEPT ![r] = Cut]
    BY <1>3 DEF Crash, folder
  <2>2. s \in free
    BY <2>1 DEF TypeOK
  <2> QED
    BY <2>1, <2>2 DEF SnapshotStaysTrue
<1> QED
  BY <1>1, <1>2, <1>3 DEF Next, Scan, Install, DropEmptyList, EndRemovals, Skip, WriteList, Close,
     User, UserPuts, UserDropsList, folder

\* install changes no file but its own, those it lists and still recognises, and
\* copies of wanted modules (code.rs:24-29, 213-215), whatever fails or crashes,
\* as long as the folder can be listed.
THEOREM OthersFilesAreSafe == Spec => OnlyItsFilesChange
<1>1. TypeOK /\ SnapshotStaysTrue /\ [Next]_vars =>
        [pc # "off" /\ ~blind => \A s \in Slots :
           content'[s] # content[s] =>
             content[s] = Absent \/ content[s] = list[s] \/ content[s] \in Elements(wanted)]_vars
  BY OwnFilesStep
<1> QED
  BY <1>1, TypeCorrect, SnapshotCorrect, PTL DEF Spec, OnlyItsFilesChange

-----------------------------------------------------------------------------
(* Half a module.                                                          *)

\* At any time, with one failed call and no crash, no file is written in part.
HalfInv == crashes = 0 /\ faults <= 1 => \A s \in Slots : content[s] # Cut

\* Only a second failure in a row, or a crash, leaves a file written in part.
LEMMA HalfStep ==
  ASSUME TypeOK, HalfInv, [Next]_vars
  PROVE  HalfInv'
<1> SUFFICES ASSUME crashes' = 0, faults' <= 1
             PROVE  \A s \in Slots : content'[s] # Cut
  BY DEF HalfInv
<1>1. crashes = 0 /\ faults <= 1 /\ faults \in Nat
  <2>1. crashes \in Nat /\ faults \in Nat /\ MaxFaults \in Nat
    BY CodeAssumption DEF TypeOK
  <2>2. /\ crashes' = crashes \/ crashes' = crashes + 1
        /\ faults' \in {faults, faults + 1, faults + 2}
    BY DEF Next, Scan, Install, DropEmptyList, RemoveStale, EndRemovals, Skip, Place, WriteList, Close,
       Crash, User, UserPuts, UserDropsList, Fault, NoFault, bounds, vars
  <2> QED
    BY <2>1, <2>2
<1>2. \A s \in Slots : content[s] # Cut
  BY <1>1 DEF HalfInv
<1>3. CASE UNCHANGED content
  BY <1>2, <1>3
<1>4. CASE RemoveStale
  <2>1. \E s \in stale : content' = [content EXCEPT ![s] = Absent] \/ UNCHANGED content
    BY <1>4 DEF RemoveStale
  <2> QED
    BY <1>2, <2>1, CodeAssumption DEF TypeOK
<1>5. CASE Place
  <2>1. PICK s \in free : \/ content' = [content EXCEPT ![s] = Head(kept)]
                          \/ content' = [content EXCEPT ![s] = Absent]
                          \/ faults' = faults + 2
    BY <1>5 DEF Place
  <2>2. Head(kept) \in Modules
    BY <1>5, TheRest DEF Place, TypeOK
  <2>3. Head(kept) # Cut /\ faults' # faults + 2
    BY <1>1, <2>2, CodeAssumption
  <2> QED
    BY <1>2, <2>1, <2>3, CodeAssumption DEF TypeOK
<1>6. CASE Crash
  BY <1>1, <1>6 DEF Crash
<1>7. CASE User
  <2>1. ASSUME NEW s \in Slots, NEW file \in Modules \cup Foreign \cup {Absent}, UserPuts(s, file)
        PROVE  \A r \in Slots : content'[r] # Cut
    BY <1>2, <2>1, CodeAssumption DEF UserPuts, TypeOK
  <2> QED
    BY <1>3, <1>7, <2>1 DEF User, UserDropsList
<1> QED
  BY <1>3, <1>4, <1>5, <1>6, <1>7 DEF Next, Scan, Install, DropEmptyList, EndRemovals, Skip, WriteList, Close,
     vars, folder

\* The game never loads half a module (code.rs:370), whichever call failed, for
\* any number of names, modules and installations.
THEOREM NoHalfModuleIsLeft == Spec => []NoHalfModule
<1>1. Init => HalfInv
  BY CodeAssumption DEF Init, HalfInv
<1>2. TypeOK /\ HalfInv /\ [Next]_vars => HalfInv'
  BY HalfStep
<1>3. HalfInv => NoHalfModule
  BY DEF HalfInv, NoHalfModule
<1> QED
  BY <1>1, <1>2, <1>3, TypeCorrect, PTL DEF Spec

-----------------------------------------------------------------------------
(* What an installation no call of which fails leaves.                     *)

\* The names modules can have: free ones and those of files install owns.
Room == free \cup {s \in Slots : owned[s] # None}

\* How many of the wanted modules there is room for.
Firsts == IF Len(wanted) < Cardinality(Room) THEN Len(wanted) ELSE Cardinality(Room)

Working == faults = 0 /\ pc \in {"removing", "placing"}

WantedOnce == \A i, j \in DOMAIN wanted : wanted[i] = wanted[j] => i = j

\* Everything in the folder is known: no wanted file is overlooked, no free name either.
AllIsKnown ==
  /\ ~blind /\ listed = list
  /\ \A s \in Slots : content[s] \in Elements(wanted) => owned[s] = content[s]
  /\ \A s \in Slots : content[s] = Absent => s \in free

\* What is not to be removed is one of the first that fit, and is there once.
OwnedFit ==
  /\ \A s \in Slots \ stale : owned[s] # None => \E i \in 1..Firsts : owned[s] = wanted[i]
  /\ \A r, s \in Slots \ stale : owned[r] = owned[s] /\ owned[r] # None => r = s

\* What is left to place is the end of the first that fit; those before are in place.
KeptInOrder ==
  /\ Len(kept) <= Firsts
  /\ \A i \in 1..Len(kept) : kept[i] = wanted[Firsts - Len(kept) + i]
  /\ pc = "removing" => Len(kept) = Firsts
  /\ pc = "placing" => stale = {} /\ \A i \in 1..(Firsts - Len(kept)) : InPlace(wanted[i])

\* The inductive invariant of an installation.
WorkInv == Working => WantedOnce /\ AllIsKnown /\ OwnedFit /\ KeptInOrder

\* The number of modules there is room for is one of the wanted ones' indices.
LEMMA FirstsIsANumber ==
  ASSUME TypeOK
  PROVE  /\ Cardinality(Room) \in Nat /\ IsFiniteSet(Room)
         /\ Len(wanted) \in Nat /\ DOMAIN wanted = 1..Len(wanted)
         /\ Firsts \in Nat /\ Firsts <= Len(wanted) /\ Firsts <= Cardinality(Room)
<1>1. Room \in SUBSET Slots
  BY DEF Room, TypeOK
<1>2. IsFiniteSet(Room)
  BY <1>1, CodeAssumption, FS_Interval, FS_Subset, 1 \in Int, NSlots \in Int DEF Slots
<1>3. Cardinality(Room) \in Nat
  BY <1>1, RoomIsANumber
<1>4. Len(wanted) \in Nat /\ DOMAIN wanted = 1..Len(wanted)
  BY LenProperties DEF TypeOK
<1> QED
  BY <1>2, <1>3, <1>4 DEF Firsts

\* With room for the first n modules and all names of the room taken by some of
\* them, each once, all n of them are in place: no two names share one.
LEMMA AllInPlace ==
  ASSUME TypeOK, free = {}, OwnedFit, stale = {}, WantedOnce, NEW k \in 1..Firsts
  PROVE  InPlace(wanted[k])
<1> SUFFICES ASSUME ~InPlace(wanted[k])
             PROVE  FALSE
  OBVIOUS
<1> DEFINE Others == (1..Firsts) \ {k}
           f == [s \in Room |-> CHOOSE i \in 1..Firsts : owned[s] = wanted[i]]
<1>1. Room \subseteq Slots /\ \A s \in Room : owned[s] # None
  BY DEF Room
<1>2. \A s \in Room : f[s] \in 1..Firsts /\ owned[s] = wanted[f[s]]
  BY <1>1 DEF OwnedFit
<1>3. \A s \in Room : f[s] # k
  BY <1>1, <1>2 DEF InPlace
<1>4. f \in [Room -> Others]
  BY <1>2, <1>3
<1>5. /\ IsFiniteSet(Others)
      /\ Cardinality(Others) = Firsts - 1
  <2>1. Firsts \in Nat /\ Firsts >= 1
    BY FirstsIsANumber
  <2> HIDE DEF Firsts
  <2>2. IsFiniteSet(1..Firsts) /\ Cardinality(1..Firsts) = Firsts
    BY <2>1, FS_Interval, 1 \in Int, Firsts \in Int
  <2> QED
    BY <2>2, FS_RemoveElement
<1>6. Cardinality(Others) < Cardinality(Room)
  BY <1>5, FirstsIsANumber
<1> HIDE DEF f, Others
<1>7. PICK r \in Room, s \in Room : r # s /\ f[r] = f[s]
  BY <1>4, <1>5, <1>6, FirstsIsANumber, FS_PigeonHole
<1> QED
  BY <1>1, <1>2, <1>7 DEF OwnedFit

\* The plan made from a full reading: the first modules that fit are kept, and of
\* the files recognised, those which are no copy of one of them are to go.
LEMMA PlanWorks ==
  ASSUME TypeOK, NEW want \in Wishes, Plan(want, list, content), ~blind', UNCHANGED folder,
         TypeOK', pc' = "removing"
  PROVE  (WantedOnce /\ AllIsKnown /\ OwnedFit /\ KeptInOrder)'
<1>1. /\ wanted' = want /\ listed' = list
      /\ owned' = OwnedIn(content, list, want)
      /\ free' = {s \in Slots : content[s] = Absent}
      /\ kept' = KeptIn(content, owned', want)
      /\ stale' = StaleAmong(owned', kept')
  BY DEF Plan
<1>2. content' = content /\ list' = list
  BY DEF folder
<1>3. list \in Lists /\ content \in [Slots -> Files]
  BY DEF TypeOK, Files
<1>4. /\ owned' \in Lists
      /\ \A s \in Slots : owned'[s] # None => content[s] = owned'[s] /\ content[s] \in Modules
  BY <1>1, <1>3, OwnedIsThere
<1>5. WantedOnce'
  BY <1>1 DEF WantedOnce, Wishes
<1>6. AllIsKnown'
  BY <1>1, <1>2 DEF AllIsKnown, OwnedIn
<1> DEFINE absent == {s \in Slots : content[s] = Absent}
           own == {s \in Slots : owned'[s] # None}
<1>7. Cardinality(Room') = Cardinality(absent) + Cardinality(own)
  <2>1. Room' = absent \cup own
    BY <1>1 DEF Room
  <2>2. absent \cap own = {}
    BY <1>4, CodeAssumption
  <2>3. IsFiniteSet(Slots)
    BY CodeAssumption, FS_Interval, 1 \in Int, NSlots \in Int DEF Slots
  <2>4. IsFiniteSet(absent) /\ IsFiniteSet(own)
    BY <2>3, FS_Subset
  <2>5. Cardinality(absent) \in Nat /\ Cardinality(own) \in Nat
    BY RoomIsANumber
  <2> HIDE DEF absent, own
  <2> QED
    BY <2>1, <2>2, <2>4, <2>5, FS_Union, FS_EmptySet
<1>8. /\ Cardinality(Room') \in Nat /\ Len(want) \in Nat /\ DOMAIN want = 1..Len(want)
      /\ Firsts' \in Nat /\ Firsts' <= Len(want)
  <2>1. Cardinality(Room') \in Nat
    BY RoomIsANumber, <1>7
  <2>2. Len(want) \in Nat /\ DOMAIN want = 1..Len(want)
    BY WishesAreSequences, LenProperties
  <2> QED
    BY <1>1, <2>1, <2>2 DEF Firsts
<1>9. kept' = SubSeq(want, 1, Firsts')
  BY <1>1, <1>7 DEF KeptIn, Firsts
<1>10. /\ Len(kept') = Firsts'
       /\ \A i \in 1..Firsts' : kept'[i] = want[i]
  BY <1>8, <1>9, WishesAreSequences, FirstOnes
<1>11. KeptInOrder'
  <2>1. \A i \in 1..Len(kept') : kept'[i] = wanted'[i]
    BY <1>1, <1>10
  <2>2. Len(kept') = Firsts' /\ Firsts' \in Nat
    BY <1>8, <1>10
  <2>3. ASSUME NEW i \in 1..Len(kept') PROVE kept'[i] = wanted'[Firsts' - Len(kept') + i]
    <3>1. PICK n \in Nat : Firsts' = n /\ Len(kept') = n
      BY <2>2
    <3>2. i \in Int /\ n - n + i = i
      BY <3>1
    <3> QED
      BY <2>1, <3>1, <3>2
  <2>4. Len(kept') <= Firsts' /\ pc' # "placing"
    BY <2>2
  <2> QED
    BY <2>2, <2>3, <2>4 DEF KeptInOrder
<1>12. DOMAIN kept' = 1..Firsts'
  BY <1>10, LenProperties DEF TypeOK
<1>13. ASSUME NEW s \in Slots \ stale', owned'[s] # None
       PROVE  \E i \in 1..Firsts' : owned'[s] = wanted'[i]
  <2>1. owned'[s] \in Elements(kept')
    BY <1>1, <1>13 DEF StaleAmong
  <2> QED
    BY <1>1, <1>10, <1>12, <2>1 DEF Elements
<1>14. ASSUME NEW r \in Slots \ stale', NEW s \in Slots \ stale', owned'[r] = owned'[s], owned'[r] # None
       PROVE  r = s
  <2>1. ~(r < s) /\ ~(s < r)
    <3>1. \A a, b \in Slots : a < b => a \in 1..(b - 1)
      BY CodeAssumption DEF Slots
    <3> QED
      BY <1>1, <1>14, <3>1 DEF StaleAmong
  <2> QED
    BY <2>1, CodeAssumption DEF Slots
<1>15. OwnedFit'
  BY <1>13, <1>14 DEF OwnedFit
<1> QED
  BY <1>5, <1>6, <1>11, <1>15

\* No step but a failing call counts one.
LEMMA FaultsGrow ==
  ASSUME TypeOK, [Next]_vars, faults' = 0
  PROVE  faults = 0
<1>1. faults \in Nat /\ MaxFaults \in Nat
  BY CodeAssumption DEF TypeOK
<1>2. faults' \in {faults, faults + 1, faults + 2}
  BY DEF Next, Scan, Install, DropEmptyList, RemoveStale, EndRemovals, Skip, Place, WriteList, Close,
     Crash, User, UserPuts, UserDropsList, Fault, NoFault, bounds, vars
<1> QED
  BY <1>1, <1>2

\* An installation that meets no failure keeps to its plan.
LEMMA WorkStep ==
  ASSUME TypeOK, TypeOK', SnapshotStaysTrue, WorkInv, [Next]_vars
  PROVE  WorkInv'
<1> SUFFICES ASSUME Working'
             PROVE  (WantedOnce /\ AllIsKnown /\ OwnedFit /\ KeptInOrder)'
  BY DEF WorkInv
<1>1. faults = 0 /\ faults' = 0 /\ pc' \in {"removing", "placing"}
  BY FaultsGrow DEF Working
<1>2. ~Fault
  BY <1>1 DEF Fault
<1>3. ASSUME pc \in {"removing", "placing"}
      PROVE  /\ WantedOnce /\ AllIsKnown /\ OwnedFit /\ KeptInOrder
             /\ \A s \in Slots : owned[s] # None => content[s] = owned[s]
             /\ \A s \in free : content[s] = Absent
             /\ \A s \in stale : owned[s] # None
  BY <1>1, <1>3 DEF WorkInv, Working, AllIsKnown, SnapshotStaysTrue
<1>4. ASSUME wanted' = wanted
      PROVE  /\ WantedOnce <=> WantedOnce'
             /\ \A x, y : x = y /\ Room' = Room => Firsts' = Firsts
  BY <1>4 DEF WantedOnce, Firsts
<1>5. CASE UNCHANGED vars
  <2>1. Working
    BY <1>1, <1>5 DEF vars, Working
  <2> QED
    BY <1>5, <2>1 DEF WorkInv, vars, folder, session, WantedOnce, AllIsKnown, OwnedFit, KeptInOrder, InPlace, Firsts, Room
<1>6. ASSUME NEW want \in Wishes, Scan(want)
      PROVE  (WantedOnce /\ AllIsKnown /\ OwnedFit /\ KeptInOrder)'
  <2>1. Plan(want, list, content) /\ blind' = FALSE /\ UNCHANGED folder /\ pc' = "removing"
    BY <1>1, <1>2, <1>6 DEF Scan
  <2> QED
    BY <2>1, PlanWorks
<1>7. CASE RemoveStale
  <2>1. PICK s \in stale :
          /\ stale' = stale \ {s}
          /\ content' = [content EXCEPT ![s] = Absent]
          /\ owned' = [owned EXCEPT ![s] = None]
          /\ free' = free \cup {s}
    BY <1>2, <1>7 DEF RemoveStale
  <2>2. pc = "removing" /\ pc' = pc /\ UNCHANGED <<list, wanted, listed, kept, blind>>
    BY <1>7 DEF RemoveStale
  <2>3. s \in Slots /\ owned[s] # None /\ owned[s] = content[s]
    BY <1>3, <2>1, <2>2 DEF TypeOK
  <2>4. Room' = Room
    BY <2>1, <2>3 DEF Room, TypeOK, Lists
  <2>5. Firsts' = Firsts
    BY <2>2, <2>4 DEF Firsts
  <2>6. WantedOnce'
    BY <1>3, <1>4, <2>2
  <2>7. Absent \notin Elements(wanted)
    <3>1. Elements(wanted) \subseteq Modules
      BY LenProperties, ElementOfSeq DEF Elements, TypeOK
    <3> QED
      BY <3>1, CodeAssumption
  <2>8. AllIsKnown'
    BY <1>3, <2>1, <2>2, <2>3, <2>7 DEF AllIsKnown, TypeOK, Lists
  <2>9. \A r \in Slots \ stale' : owned'[r] # None => r \in Slots \ stale /\ owned'[r] = owned[r]
    BY <2>1, <2>3 DEF TypeOK, Lists
  <2>10. OwnedFit'
    BY <1>3, <2>2, <2>2, <2>5, <2>9 DEF OwnedFit
  <2>11. KeptInOrder'
    BY <1>3, <2>2, <2>5 DEF KeptInOrder, InPlace
  <2> QED
    BY <2>6, <2>8, <2>10, <2>11
<1>8. CASE EndRemovals
  <2>1. pc = "removing" /\ stale = {} /\ UNCHANGED <<folder, session>>
    BY <1>8 DEF EndRemovals
  <2>2. Room' = Room /\ Firsts' = Firsts
    BY <2>1 DEF session, Room, Firsts
  <2>3. WantedOnce' /\ AllIsKnown' /\ OwnedFit'
    BY <1>3, <2>1, <2>2 DEF WantedOnce, AllIsKnown, OwnedFit, folder, session
  <2>4. Len(kept) = Firsts /\ kept' = kept /\ Firsts \in Nat
    BY <1>3, <2>1, FirstsIsANumber DEF KeptInOrder, session
  <2>5. 1..(Firsts - Len(kept)) = {}
    BY <2>4
  <2>6. stale' = {} /\ pc' = "placing"
    BY <1>8, <2>1 DEF session, EndRemovals
  <2>7. KeptInOrder'
    <3>1. \A i \in 1..Len(kept) : kept[i] = wanted[Firsts - Len(kept) + i]
      BY <1>3, <2>1 DEF KeptInOrder
    <3>2. wanted' = wanted /\ Len(kept') = Firsts' /\ 1..(Firsts' - Len(kept')) = {}
      BY <2>1, <2>2, <2>4, <2>5 DEF session
    <3> QED
      BY <2>2, <2>4, <2>6, <3>1, <3>2 DEF KeptInOrder, InPlace
  <2> QED
    BY <2>3, <2>7
<1> DEFINE next == Firsts - Len(kept) + 1
<1>9. ASSUME pc = "placing", kept # <<>>, kept' = Tail(kept), pc' = pc, stale' = stale, Firsts' = Firsts,
             wanted' = wanted,
             \A m \in Modules : InPlace(m) => \E s \in Slots : owned'[s] = m,
             \E s \in Slots : owned'[s] = Head(kept)
      PROVE  KeptInOrder'
  <2>1. KeptInOrder
    BY <1>3, <1>9
  <2>2. /\ Len(kept) \in Nat /\ Len(kept) >= 1 /\ Len(kept') = Len(kept) - 1
        /\ \A i \in 1..Len(kept') : kept'[i] = kept[i + 1]
        /\ Head(kept) = kept[1]
    BY <1>9, HeadTailProperties, LenProperties, EmptySeq DEF TypeOK
  <2>3. Firsts \in Nat
    BY FirstsIsANumber
  <2> HIDE DEF Firsts
  <2>4. Len(kept') <= Firsts
    BY <2>1, <2>2, <2>3 DEF KeptInOrder
  <2>5. \A i \in 1..Len(kept') : kept'[i] = wanted[Firsts - Len(kept') + i]
    <3>1. ASSUME NEW i \in 1..Len(kept')
          PROVE  kept'[i] = wanted[Firsts - Len(kept') + i]
      <4>1. i + 1 \in 1..Len(kept) /\ Firsts - Len(kept) + (i + 1) = Firsts - Len(kept') + i
        BY <2>2, <2>3
      <4> QED
        BY <2>1, <2>2, <4>1 DEF KeptInOrder
    <3> QED
      BY <3>1
  <2>6. kept[1] = wanted[next]
    BY <2>1, <2>2, <2>3 DEF KeptInOrder
  <2>7. ASSUME NEW i \in 1..(Firsts - Len(kept'))
        PROVE  wanted[i] \in Modules /\ (i \in 1..(Firsts - Len(kept)) \/ i = next)
    <3>1. Len(kept) <= Firsts /\ Firsts <= Len(wanted)
      BY <2>1, FirstsIsANumber DEF KeptInOrder
    <3>2. i \in 1..Len(wanted)
      BY <2>2, <2>3, <3>1, FirstsIsANumber
    <3>3. wanted[i] \in Modules
      BY <3>2, ElementOfSeq DEF TypeOK
    <3>4. \A a, b \in Nat : \A j \in 1..(a - (b - 1)) : j \in 1..(a - b) \/ j = a - b + 1
      OBVIOUS
    <3> QED
      BY <2>2, <2>3, <3>3, <3>4
  <2>8. \A i \in 1..(Firsts - Len(kept')) : \E s \in Slots : owned'[s] = wanted[i]
    BY <1>9, <2>1, <2>2, <2>6, <2>7 DEF KeptInOrder
  <2> HIDE DEF next
  <2>9. stale' = {}
    BY <1>9, <2>1 DEF KeptInOrder
  <2> QED
    BY <1>9, <2>4, <2>5, <2>8, <2>9 DEF KeptInOrder, InPlace
<1>10. ASSUME pc = "placing", kept # <<>>
       PROVE  Head(kept) = wanted[next] /\ next \in 1..Firsts
  <2>1. KeptInOrder
    BY <1>3, <1>10
  <2>2. Len(kept) \in Nat /\ Len(kept) >= 1 /\ Head(kept) = kept[1]
    BY <1>10, HeadTailProperties, LenProperties, EmptySeq DEF TypeOK
  <2>3. Firsts \in Nat
    BY FirstsIsANumber
  <2> HIDE DEF Firsts
  <2> QED
    BY <2>1, <2>2, <2>3 DEF KeptInOrder
<1>11. CASE Skip
  <2>1. /\ pc = "placing" /\ kept # <<>> /\ kept' = Tail(kept)
        /\ InPlace(Head(kept)) \/ free = {}
        /\ UNCHANGED <<folder, pc, wanted, listed, owned, free, stale, blind>>
    BY <1>11 DEF Skip
  <2>2. Room' = Room /\ Firsts' = Firsts
    BY <2>1 DEF Room, Firsts
  <2>3. InPlace(Head(kept))
    <3>1. free = {} => InPlace(wanted[next])
      BY <1>3, <1>10, <2>1, AllInPlace DEF KeptInOrder
    <3> QED
      BY <1>10, <2>1, <3>1
  <2>4. WantedOnce' /\ AllIsKnown' /\ OwnedFit'
    BY <1>3, <2>1, <2>2 DEF WantedOnce, AllIsKnown, OwnedFit, folder
  <2>5. \A m : InPlace(m) => \E s \in Slots : owned'[s] = m
    BY <2>1 DEF InPlace
  <2>6. pc' = pc /\ stale' = stale /\ wanted' = wanted
    BY <2>1
  <2>7. KeptInOrder'
    BY <1>9, <2>1, <2>2, <2>3, <2>5, <2>6
  <2> QED
    BY <2>4, <2>7
<1>12. CASE Place
  <2>1. /\ pc = "placing" /\ kept # <<>> /\ kept' = Tail(kept) /\ ~InPlace(Head(kept))
        /\ UNCHANGED <<list, pc, wanted, listed, stale, blind>>
    BY <1>12 DEF Place
  <2>2. PICK s \in free :
          /\ free' = free \ {s}
          /\ content' = [content EXCEPT ![s] = Head(kept)]
          /\ owned' = [owned EXCEPT ![s] = Head(kept)]
    <3>1. faults' # faults + 2
      BY <1>1
    <3> QED
      BY <1>2, <1>12, <3>1 DEF Place
  <2>3. Head(kept) \in Modules /\ Head(kept) # None /\ Head(kept) # Absent
    BY <2>1, TheRest, CodeAssumption DEF TypeOK
  <2>4. s \in Slots /\ content[s] = Absent /\ owned[s] = None
    BY <1>3, <2>1, <2>2, CodeAssumption DEF TypeOK, Lists
  <2>5. Room' = Room /\ Firsts' = Firsts
    <3>1. Room' = Room
      BY <2>2, <2>3, <2>4 DEF Room, TypeOK, Lists
    <3> QED
      BY <2>1, <3>1 DEF Firsts
  <2>6. WantedOnce'
    BY <1>3, <2>1 DEF WantedOnce
  <2>7. AllIsKnown'
    BY <1>3, <2>1, <2>2, <2>3, <2>4 DEF AllIsKnown, TypeOK, Lists
  <2>8. stale = {}
    BY <1>3, <2>1 DEF KeptInOrder
  <2>9. owned'[s] = Head(kept) /\ \A r \in Slots : r # s => owned'[r] = owned[r] /\ owned[r] # Head(kept)
    BY <2>1, <2>2, <2>4 DEF TypeOK, Lists, InPlace
  <2>10. OwnedFit'
    <3>1. \A r \in Slots : owned'[r] # None => \E i \in 1..Firsts : owned'[r] = wanted[i]
      BY <1>3, <1>10, <2>1, <2>8, <2>9 DEF OwnedFit
    <3>2. \A q, r \in Slots : owned'[q] = owned'[r] /\ owned'[q] # None => q = r
      BY <1>3, <2>1, <2>8, <2>9 DEF OwnedFit
    <3> QED
      BY <2>1, <2>5, <3>1, <3>2 DEF OwnedFit
  <2>11. \A m \in Modules : InPlace(m) => \E r \in Slots : owned'[r] = m
    BY <2>4, <2>9, CodeAssumption DEF InPlace
  <2>12. KeptInOrder'
    BY <1>9, <2>1, <2>4, <2>5, <2>9, <2>11
  <2> QED
    BY <2>6, <2>7, <2>10, <2>12
<1> QED
  BY <1>1, <1>5, <1>6, <1>7, <1>8, <1>11, <1>12 DEF Next, Install, DropEmptyList, WriteList, Close, Crash, User,
     UserPuts, UserDropsList, Forget

\* So it does from the start.
LEMMA WorkCorrect == Spec => []WorkInv
<1>1. Init => WorkInv
  BY DEF Init, WorkInv, Working
<1>2. TypeOK /\ TypeOK' /\ SnapshotStaysTrue /\ WorkInv /\ [Next]_vars => WorkInv'
  BY WorkStep
<1> QED
  BY <1>1, <1>2, TypeCorrect, SnapshotCorrect, PTL DEF Spec

\* When nothing is left to place, the files install owns are the wanted ones there.
LEMMA OwnedAreTheWanted ==
  ASSUME TypeOK, SnapshotStaysTrue, WorkInv, Working, pc = "placing"
  PROVE  \A s \in Slots : owned[s] = IF content[s] \in Elements(wanted) THEN content[s] ELSE None
<1>1. AllIsKnown /\ OwnedFit /\ stale = {}
  BY DEF WorkInv, KeptInOrder
<1>2. \A s \in Slots : owned[s] # None => content[s] = owned[s]
  BY <1>1 DEF SnapshotStaysTrue, AllIsKnown
<1>3. \A i \in 1..Firsts : wanted[i] \in Elements(wanted)
  BY FirstsIsANumber DEF Elements
<1>4. \A s \in Slots : owned[s] # None => owned[s] \in Elements(wanted)
  BY <1>1, <1>3 DEF OwnedFit
<1> QED
  BY <1>1, <1>2, <1>4 DEF AllIsKnown

\* And each of the first that fit is there, under one name.
LEMMA TheFirstAreThere ==
  ASSUME TypeOK, SnapshotStaysTrue, WorkInv, Working, pc = "placing", kept = <<>>,
         NEW i \in DOMAIN wanted
  PROVE  Cardinality({s \in Slots : content[s] = wanted[i]}) =
           IF i <= Cardinality({s \in Slots : content[s] = Absent \/ content[s] \in Elements(wanted)})
             THEN 1 ELSE 0
<1> DEFINE room == {s \in Slots : content[s] = Absent \/ content[s] \in Elements(wanted)}
           copies == {s \in Slots : content[s] = wanted[i]}
<1>1. WantedOnce /\ AllIsKnown /\ OwnedFit /\ KeptInOrder /\ stale = {}
  BY DEF WorkInv, KeptInOrder
<1>2. /\ \A s \in Slots : owned[s] # None => content[s] = owned[s]
      /\ \A s \in free : content[s] = Absent
  BY <1>1 DEF SnapshotStaysTrue, AllIsKnown
<1>3. \A s \in Slots : owned[s] = IF content[s] \in Elements(wanted) THEN content[s] ELSE None
  BY OwnedAreTheWanted
<1>4. wanted[i] \in Elements(wanted) /\ wanted[i] \in Modules /\ wanted[i] # None
  <2>1. wanted[i] \in Modules
    BY FirstsIsANumber, ElementOfSeq DEF TypeOK
  <2> QED
    BY <2>1, CodeAssumption DEF Elements
<1>5. None \notin Elements(wanted)
  <2>1. Elements(wanted) \subseteq Modules
    BY LenProperties, ElementOfSeq DEF Elements, TypeOK
  <2> QED
    BY <2>1, CodeAssumption
<1>6. room = Room
  BY <1>1, <1>2, <1>3, <1>5 DEF Room, AllIsKnown, TypeOK
<1>7. \A s \in Slots : content[s] = wanted[i] <=> owned[s] = wanted[i]
  BY <1>3, <1>4
<1>8. /\ i \in 1..Len(wanted) /\ Len(wanted) \in Nat
      /\ Cardinality(Room) \in Nat /\ Firsts \in Nat
  BY FirstsIsANumber
<1>9. CASE i <= Cardinality(Room)
  <2>1. i \in 1..Firsts
    BY <1>8, <1>9 DEF Firsts
  <2>2. Len(kept) = 0
    BY EmptySeq
  <2>3. Firsts - Len(kept) = Firsts
    BY <1>8, <2>2
  <2>4. InPlace(wanted[i])
    BY <1>1, <2>1, <2>3 DEF KeptInOrder
  <2>5. PICK s \in Slots : owned[s] = wanted[i]
    BY <2>4 DEF InPlace
  <2>6. copies = {s}
    BY <1>1, <1>4, <1>7, <2>5 DEF OwnedFit
  <2>7. Cardinality(copies) = 1
    BY <2>6, FS_Singleton
  <2> QED
    BY <1>6, <1>9, <2>7
<1>10. CASE ~(i <= Cardinality(Room))
  <2>1. i \notin 1..Firsts
    BY <1>8, <1>10 DEF Firsts
  <2>2. \A j \in 1..Firsts : wanted[j] # wanted[i]
    BY <1>1, <2>1, FirstsIsANumber DEF WantedOnce
  <2>3. copies = {}
    BY <1>1, <1>4, <1>7, <2>2 DEF OwnedFit
  <2>4. Cardinality(copies) = 0
    BY <2>3, FS_EmptySet
  <2> QED
    BY <1>6, <1>10, <2>4
<1> QED
  BY <1>9, <1>10

\* While there is nothing to do, nothing is wanted and nothing listed.
NothingInv == pc = "nothing" =>
  wanted = <<>> /\ listed = NoList /\ (faults = 0 => listed = list)

\* What an installation leaves holds when it is done.
DoneInv == NothingInv /\ ListIsTrue /\ ExactlyTheFirstThatFit

\* It holds whichever way the installation ends.
LEMMA DoneStep ==
  ASSUME TypeOK, TypeOK', SnapshotStaysTrue, WorkInv, DoneInv, [Next]_vars
  PROVE  DoneInv'
<1>1. CASE UNCHANGED vars
  BY <1>1 DEF vars, folder, session, bounds, DoneInv, NothingInv, ListIsTrue, ExactlyTheFirstThatFit
<1>2. ASSUME NEW want \in Wishes, Scan(want)
      PROVE  DoneInv'
  <2>1. pc' # "done" /\ (pc' = "nothing" => want = <<>> /\ listed' = NoList) /\ list' = list /\ wanted' = want
    BY <1>2 DEF Scan, Plan, folder
  <2>2. faults' = 0 => listed' = list
    <3>1. SUFFICES ASSUME faults' = 0
                   PROVE  listed' = list
      OBVIOUS
    <3>2. faults = 0
      BY <3>1, FaultsGrow
    <3>3. ~Fault
      BY <3>1, <3>2 DEF Fault
    <3> QED
      BY <1>2, <3>3 DEF Scan, Plan
  <2>3. NothingInv'
    BY <2>1, <2>2 DEF NothingInv, NoList
  <2>4. ListIsTrue' /\ ExactlyTheFirstThatFit'
    BY <2>1 DEF ListIsTrue, ExactlyTheFirstThatFit
  <2> QED
    BY <2>3, <2>4 DEF DoneInv
<1>3. CASE DropEmptyList
  <2>1. pc' = "done" /\ wanted' = wanted /\ content' = content /\ wanted = <<>>
    BY <1>3 DEF DropEmptyList, session, DoneInv, NothingInv
  <2>2. faults' = 0 => list' = NoList
    <3>1. SUFFICES ASSUME faults' = 0
                   PROVE  list' = NoList
      OBVIOUS
    <3>2. faults = 0
      BY <3>1, FaultsGrow
    <3>3. ~Fault
      BY <3>1, <3>2 DEF Fault
    <3> QED
      BY <1>3, <3>3 DEF DropEmptyList
  <2>3. DOMAIN wanted' = {} /\ Elements(wanted') = {}
    <3>1. Len(wanted') = 0 /\ DOMAIN wanted' = 1..Len(wanted')
      BY <2>1, EmptySeq, LenProperties DEF TypeOK
    <3>2. DOMAIN wanted' = {}
      BY <3>1
    <3> QED
      BY <3>2 DEF Elements
  <2>4. NothingInv'
    BY <2>1 DEF NothingInv
  <2>5. ListIsTrue'
    BY <2>2, <2>3 DEF ListIsTrue, NoList
  <2>6. ExactlyTheFirstThatFit'
    BY <2>3 DEF ExactlyTheFirstThatFit
  <2> QED
    BY <2>4, <2>5, <2>6 DEF DoneInv
<1>4. CASE WriteList
  <2>1. pc = "placing" /\ kept = <<>> /\ pc' = "done" /\ UNCHANGED <<content, wanted>>
    BY <1>4 DEF WriteList, session
  <2>2. SUFFICES ASSUME faults' = 0
                 PROVE  ListIsTrue' /\ ExactlyTheFirstThatFit'
    BY <2>1 DEF DoneInv, NothingInv, ListIsTrue, ExactlyTheFirstThatFit
  <2>3. faults = 0
    BY <2>2, FaultsGrow
  <2>4. ~Fault
    BY <2>2, <2>3 DEF Fault
  <2>5. Working
    BY <2>1, <2>3 DEF Working
  <2>6. listed = list
    BY <2>5 DEF WorkInv, AllIsKnown
  <2>7. list' = owned
    <3>1. CASE owned = NoList
      BY <1>4, <2>4, <3>1 DEF WriteList
    <3>2. CASE owned # NoList
      BY <1>4, <2>4, <2>6, <3>2 DEF WriteList, ListChanges
    <3> QED
      BY <3>1, <3>2
  <2>8. \A s \in Slots : owned[s] = IF content[s] \in Elements(wanted) THEN content[s] ELSE None
    BY <2>1, <2>5, OwnedAreTheWanted
  <2>9. ListIsTrue'
    BY <2>1, <2>7, <2>8 DEF ListIsTrue, Elements
  <2>10. \A i \in DOMAIN wanted :
           Cardinality({s \in Slots : content[s] = wanted[i]}) =
             IF i <= Cardinality({s \in Slots : content[s] = Absent \/ content[s] \in Elements(wanted)})
               THEN 1 ELSE 0
    BY <2>1, <2>5, TheFirstAreThere
  <2>11. ExactlyTheFirstThatFit'
    BY <2>1, <2>10 DEF ExactlyTheFirstThatFit, Elements
  <2> QED
    BY <2>9, <2>11
<1>5. CASE pc' \notin {"nothing", "done"}
  BY <1>5 DEF DoneInv, NothingInv, ListIsTrue, ExactlyTheFirstThatFit
<1>6. CASE RemoveStale \/ EndRemovals \/ Skip \/ Place \/ Close \/ Crash \/ User
  BY <1>5, <1>6 DEF RemoveStale, EndRemovals, Skip, Place, Close, Crash, User, UserPuts, UserDropsList, Forget
<1> QED
  BY <1>1, <1>2, <1>3, <1>4, <1>6 DEF Next, Install

\* What an installation leaves, from the start.
LEMMA DoneCorrect == Spec => []DoneInv
<1>1. Init => DoneInv
  BY DEF Init, DoneInv, NothingInv, ListIsTrue, ExactlyTheFirstThatFit
<1>2. TypeOK /\ TypeOK' /\ SnapshotStaysTrue /\ WorkInv /\ DoneInv /\ [Next]_vars => DoneInv'
  BY DoneStep
<1> QED
  BY <1>1, <1>2, TypeCorrect, SnapshotCorrect, WorkCorrect, PTL DEF Spec

\* An installation no call of which failed leaves, of the wanted modules, the first
\* that fit beside other people's files, once each, and no other (code.rs:213),
\* whatever the folder held before and however earlier installations were cut short.
THEOREM TheFirstThatFit == Spec => []ExactlyTheFirstThatFit
<1>1. DoneInv => ExactlyTheFirstThatFit
  BY DEF DoneInv
<1> QED
  BY <1>1, DoneCorrect, PTL

\* And its list names just those (code.rs:52-54).
THEOREM TheListIsTrue == Spec => []ListIsTrue
<1>1. DoneInv => ListIsTrue
  BY DEF DoneInv
<1> QED
  BY <1>1, DoneCorrect, PTL

-----------------------------------------------------------------------------
(* Modules of mods that are gone.                                          *)

\* What install wrote and nobody replaced is what the list says is there, or, while
\* install works, what it knows to be its own.
OursInv == faults = 0 /\ crashes = 0 =>
  \A s \in ours : content[s] = IF pc \in {"removing", "placing"} THEN owned[s] ELSE list[s]

\* No file install wrote is forgotten, unless a call fails or the power goes.
LEMMA OursStep ==
  ASSUME TypeOK, TypeOK', SnapshotStaysTrue, WorkInv, DoneInv, DoneInv', OursInv, [Next]_vars
  PROVE  OursInv'
<1> SUFFICES ASSUME faults' = 0, crashes' = 0, NEW s \in Slots, s \in ours'
             PROVE  content'[s] = IF pc' \in {"removing", "placing"} THEN owned'[s] ELSE list'[s]
  BY DEF OursInv, TypeOK
<1>1. faults = 0 /\ ~Fault
  BY FaultsGrow DEF Fault
<1>2. crashes = 0 /\ ~Crash
  <2>1. crashes \in Nat /\ (crashes' = crashes \/ crashes' = crashes + 1)
    BY CodeAssumption DEF TypeOK, Next, Scan, Install, DropEmptyList, RemoveStale, EndRemovals, Skip, Place,
       WriteList, Close, Crash, User, UserPuts, UserDropsList, Fault, NoFault, bounds, vars
  <2> QED
    BY <2>1 DEF Crash
<1>3. s \in ours => content[s] = IF pc \in {"removing", "placing"} THEN owned[s] ELSE list[s]
  BY <1>1, <1>2 DEF OursInv
<1>4. content[s] # None /\ content'[s] # None
  BY CodeAssumption DEF TypeOK
<1>5. CASE UNCHANGED vars
  BY <1>3, <1>5 DEF vars, folder, session
<1>6. ASSUME NEW want \in Wishes, Scan(want)
      PROVE  content'[s] = IF pc' \in {"removing", "placing"} THEN owned'[s] ELSE list'[s]
  <2>1. Plan(want, list, content) /\ UNCHANGED folder /\ pc = "off"
    BY <1>1, <1>6 DEF Scan
  <2>2. content[s] = list[s]
    BY <1>3, <2>1 DEF folder
  <2>3. owned'[s] = content[s]
    BY <2>1, <2>2 DEF Plan, OwnedIn
  <2> QED
    BY <2>1, <2>2, <2>3 DEF folder
<1>7. CASE DropEmptyList
  <2>1. pc = "nothing" /\ UNCHANGED <<content, ours>>
    BY <1>7 DEF DropEmptyList
  <2>2. content[s] = list[s] /\ list[s] = None
    BY <1>1, <1>3, <2>1 DEF DoneInv, NothingInv, NoList
  <2> QED
    BY <1>4, <2>2
<1>8. CASE RemoveStale
  <2>1. PICK r \in stale : /\ content' = [content EXCEPT ![r] = Absent] /\ ours' = ours \ {r}
                           /\ owned' = [owned EXCEPT ![r] = None]
    BY <1>1, <1>8 DEF RemoveStale
  <2>2. pc = "removing" /\ pc' = pc
    BY <1>8 DEF RemoveStale
  <2> QED
    BY <1>3, <2>1, <2>2 DEF TypeOK, Lists
<1>9. CASE EndRemovals \/ Skip
  BY <1>3, <1>9 DEF EndRemovals, Skip, folder, session
<1>10. CASE Place
  <2>1. pc = "placing" /\ pc' = pc
    BY <1>10 DEF Place
  <2>2. PICK r \in free : /\ content' = [content EXCEPT ![r] = Head(kept)] /\ ours' = ours \cup {r}
                          /\ owned' = [owned EXCEPT ![r] = Head(kept)]
    <3>1. faults' # faults + 2
      BY <1>1
    <3> QED
      BY <1>1, <1>10, <3>1 DEF Place
  <2> QED
    BY <1>3, <2>1, <2>2 DEF TypeOK, Lists
<1>11. CASE WriteList
  <2>1. pc = "placing" /\ pc' = "done" /\ UNCHANGED <<content, ours, wanted>>
    BY <1>11 DEF WriteList, session
  <2>2. /\ owned[s] = IF content[s] \in Elements(wanted) THEN content[s] ELSE None
        /\ list'[s] = IF content'[s] \in Elements(wanted') THEN content'[s] ELSE None
    BY <1>1, <2>1, OwnedAreTheWanted DEF Working, DoneInv, ListIsTrue
  <2>3. Elements(wanted') = Elements(wanted)
    BY <2>1
  <2> QED
    BY <1>3, <2>1, <2>2, <2>3
<1>12. CASE Close
  BY <1>3, <1>12 DEF Close, Forget, folder
<1>13. CASE User
  <2>1. ASSUME NEW r \in Slots, NEW file \in Modules \cup Foreign \cup {Absent}, UserPuts(r, file)
        PROVE  content'[s] = IF pc' \in {"removing", "placing"} THEN owned'[s] ELSE list'[s]
    BY <1>3, <2>1 DEF UserPuts, TypeOK
  <2>2. CASE UserDropsList
    BY <2>2 DEF UserDropsList
  <2> QED
    BY <1>13, <2>1, <2>2 DEF User
<1> QED
  BY <1>2, <1>5, <1>6, <1>7, <1>8, <1>9, <1>10, <1>11, <1>12, <1>13 DEF Next, Install

\* While no call fails and no installation is cut short, a module leaves the
\* folder with its mod (code.rs:196-197), whatever the user copies, deletes or
\* turns off in between.
THEOREM GoneModsLeft == Spec => []GoneModsLeaveUnlessCutShort
<1>1. Init => OursInv
  BY DEF Init, OursInv
<1>2. TypeOK /\ TypeOK' /\ SnapshotStaysTrue /\ WorkInv /\ DoneInv /\ DoneInv' /\ OursInv /\ [Next]_vars => OursInv'
  BY OursStep
<1>3. TypeOK /\ DoneInv /\ OursInv => GoneModsLeaveUnlessCutShort
  <2>1. SUFFICES ASSUME TypeOK, DoneInv, OursInv, faults = 0, crashes = 0, pc = "done", NEW s \in ours
                 PROVE  content[s] \in Elements(wanted)
    BY DEF GoneModsLeaveUnlessCutShort, GoneModsLeave
  <2>2. s \in Slots /\ content[s] # None
    BY <2>1, CodeAssumption DEF TypeOK
  <2>3. content[s] = list[s]
    BY <2>1 DEF OursInv
  <2>4. list[s] = IF content[s] \in Elements(wanted) THEN content[s] ELSE None
    BY <2>1, <2>2 DEF DoneInv, ListIsTrue
  <2> QED
    BY <2>2, <2>3, <2>4
<1> QED
  BY <1>1, <1>2, <1>3, TypeCorrect, SnapshotCorrect, WorkCorrect, DoneCorrect, PTL DEF Spec
=============================================================================
