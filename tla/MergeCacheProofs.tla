-------------------------- MODULE MergeCacheProofs --------------------------
(***************************************************************************)
(* What the merge cache promises, proved for any number of mods, games,    *)
(* languages and contents, any merge_cache_size, and any number of power   *)
(* cuts and failing calls.                                                 *)
(***************************************************************************)
EXTENDS MergeCache, FiniteSetTheorems, SequenceTheorems, WellFoundedInduction, TLAPS

(* Lists in which nothing is there twice.                                  *)

Distinct(list) == \A m, n \in DOMAIN list : m # n => list[m] # list[n]

\* The numbers are well-ordered.
LEMMA LeastNumber ==
  ASSUME NEW T \in SUBSET Nat, T # {}
  PROVE  \E x \in T : \A y \in T : x <= y
<1>1. IsWellFoundedOn(OpToRel(<, Nat), Nat)
  BY NatLessThanWellFounded
<1>2. PICK x \in T : \A y \in T : ~(<<y, x>> \in OpToRel(<, Nat))
  BY <1>1, WFMin, Zenon
<1>3. \A y \in T : ~(y < x)
  BY <1>2 DEF OpToRel
<1> QED
  BY <1>3

\* rest is the list without its first entry that is e, if there is one.
TakenOut(rest, list, e) ==
  \/ e \notin ToSet(list) /\ rest = list
  \/ \E k \in 1..Len(list) :
       /\ list[k] = e /\ \A n \in 1..(k - 1) : list[n] # e
       /\ Len(rest) = Len(list) - 1
       /\ \A n \in 1..(Len(list) - 1) : rest[n] = IF n < k THEN list[n] ELSE list[n + 1]

\* RemoveFirst takes out the first entry that is e, and closes the gap.
LEMMA Removed ==
  ASSUME NEW S, NEW list \in Seq(S), NEW e
  PROVE  RemoveFirst(list, e) \in Seq(S) /\ TakenOut(RemoveFirst(list, e), list, e)
<1>1. CASE e \notin ToSet(list)
  <2>1. \A i \in 1..Len(list) : list[i] # e
    BY <1>1, LenProperties DEF ToSet
  <2> QED
    BY <1>1, <2>1 DEF RemoveFirst, TakenOut
<1>2. CASE e \in ToSet(list)
  <2> DEFINE at == {i \in 1..Len(list) : list[i] = e}
  <2>1. at \in SUBSET Nat /\ at # {} /\ Len(list) \in Nat
    BY <1>2, LenProperties DEF ToSet
  <2>2. PICK k \in at : \A n \in at : k <= n
    BY <2>1, LeastNumber
  <2>3. \A i \in at : (\A n \in at : i <= n) => i = k
    BY <2>1, <2>2
  <2>4. SelectInSeq(list, LAMBDA v : v = e) = k
    <3>1. Min(at) = k
      BY <2>2, <2>3 DEF Min
    <3> QED
      BY <2>1, <3>1 DEF SelectInSeq
  <2>5. RemoveFirst(list, e) = SubSeq(list, 1, k - 1) \o SubSeq(list, k + 1, Len(list))
    BY <2>1, <2>4 DEF RemoveFirst, RemoveAt
  <2> DEFINE before == SubSeq(list, 1, k - 1)
             after == SubSeq(list, k + 1, Len(list))
  <2>6. k \in 1..Len(list) /\ list[k] = e /\ \A n \in 1..(k - 1) : list[n] # e
    BY <2>1, <2>2
  <2>7. before \in Seq(S) /\ Len(before) = k - 1 /\ \A n \in 1..(k - 1) : before[n] = list[n]
    BY <2>1, <2>6
  <2>8. after \in Seq(S) /\ Len(after) = Len(list) - k /\ \A n \in 1..(Len(list) - k) : after[n] = list[n + k]
    BY <2>1, <2>6
  <2> HIDE DEF before, after
  <2>9. /\ before \o after \in Seq(S)
        /\ Len(before \o after) = Len(list) - 1
        /\ \A n \in 1..(Len(list) - 1) : (before \o after)[n] = IF n < k THEN list[n] ELSE list[n + 1]
    <3>1. /\ before \o after \in Seq(S)
          /\ Len(before \o after) = Len(before) + Len(after)
          /\ \A n \in 1..(Len(before) + Len(after)) :
               (before \o after)[n] = IF n <= Len(before) THEN before[n] ELSE after[n - Len(before)]
      BY <2>7, <2>8, ConcatProperties
    <3>2. Len(before) + Len(after) = Len(list) - 1 /\ Len(list) \in Nat /\ k \in Nat
      BY <2>1, <2>6, <2>7, <2>8
    <3>3. ASSUME NEW n \in 1..(Len(list) - 1)
          PROVE  (before \o after)[n] = IF n < k THEN list[n] ELSE list[n + 1]
      <4>1. CASE n < k
        BY <2>7, <3>1, <3>2, <4>1
      <4>2. CASE ~(n < k)
        <5>1. n - (k - 1) \in 1..(Len(list) - k) /\ (n - (k - 1)) + k = n + 1
          BY <3>2, <4>2
        <5>2. after[n - (k - 1)] = list[n + 1]
          BY <2>8, <5>1
        <5>3. (before \o after)[n] = after[n - (k - 1)]
          BY <2>7, <3>1, <3>2, <4>2
        <5> QED
          BY <4>2, <5>2, <5>3
      <4> QED
        BY <4>1, <4>2
    <3> QED
      BY <3>1, <3>2, <3>3
  <2> QED
    BY <2>5, <2>6, <2>9 DEF before, after, TakenOut
<1> QED
  BY <1>1, <1>2

-----------------------------------------------------------------------------
(* The inductive invariants.                                               *)

Found == {"touching", "evict", "evicting", "collecting", "serving"}

\* The folders: one that is not there has no files, a stamp that is cut short is
\* there, and the lists name no merge twice.
FoldersInv ==
  /\ \A i \in Ids \ dirs : files[i] = {}
  /\ \A i \in cut : "stamp" \in files[i]
  /\ Distinct(recent) /\ Distinct(kept)
  /\ pc \notin {"off", "serving"} => id \in Ids
  /\ pc \in {"merging", "saving"} => id \in dirs \ cut
  /\ pc = "merging" => files[id] = {}
  /\ pc = "saving" => files[id] = {EntryFiles[n] : n \in 1..(nextFile - 1)}

\* The merge being served, once it is recorded, is in its folder, whole.
Recorded ==
  /\ outcome.fresh
  /\ outcome.id \in dirs \ cut
  /\ files[outcome.id] = EntryFileNames
  /\ recorded[outcome.id].merged = outcome.merged
  /\ recorded[outcome.id].code = outcome.code

\* Every merge with a stamp has all that its mods produce, in the store.
CacheInv ==
  \A i \in dirs : Stamped(i) /\ Loadable(i, {}) =>
    /\ \A c \in Uses(i, {}) : store[c] = "whole"
    /\ recorded[i].merged = Merged[<<i.plan, i.locales>>]
    /\ "code" \in files[i] => recorded[i].code = Modules[i.plan]

\* So have the merge being made, as far as it goes, and the one being served.
ContentsInv ==
  /\ pc \in {"merging", "saving"} => \A c \in got.merged \cup got.code : store[c] = "whole"
  /\ pc = "merging" =>
       /\ got.merged = Merged[<<id.plan, id.locales>>] \ todo
       /\ got.code = Modules[id.plan] \ todo
  /\ pc = "saving" =>
       /\ got.merged = Merged[<<id.plan, id.locales>>] /\ got.code = Modules[id.plan]
       /\ outcome.fresh /\ outcome.id = id /\ outcome.merged = got.merged /\ outcome.code = got.code
       /\ nextFile > 1 => recorded[id] = got
  /\ pc \in Found => \A c \in outcome.merged \cup outcome.code : store[c] = "whole"

\* What eviction and the garbage collector go by, while no call has failed.
EvictionInv ==
  /\ pc = "touching" => outcome.id = id /\ (outcome.fresh => Recorded)
  /\ pc = "evict" => Recorded /\ recent # <<>> /\ recent[1] = outcome.id
  /\ pc \in {"evicting", "collecting"} => Recorded /\ kept # <<>> /\ kept[1] = outcome.id
  /\ pc = "evicting" =>
       /\ ToSet(kept) \subseteq dirs /\ Len(kept) <= Keep
       /\ ToSet(kept) \cap victims = {} /\ victim \notin ToSet(kept)
       /\ dirs \subseteq ToSet(kept) \cup victims \cup {victim}
  /\ pc = "collecting" =>
       /\ \A i \in dirs : Uses(i, {}) \cap todo = {}
       /\ \A c \in Contents \ todo : store[c] # "absent" => \E i \in dirs : c \in Uses(i, {})
  /\ pc = "collecting" \/ (pc = "serving" /\ outcome.fresh) =>
       /\ Recorded
       /\ recent # <<>> /\ recent[1] = outcome.id
       /\ dirs = ToSet(recent) /\ Len(recent) <= Keep
  /\ pc = "serving" /\ removed =>
       \A c \in Contents : store[c] # "absent" => \E i \in dirs : c \in Uses(i, {})
  /\ pc \notin {"evicting", "collecting", "serving"} => ~removed

\* While no call has failed, whatever crashes there were.
CallsInv == faults = 0 => CacheInv /\ ContentsInv /\ EvictionInv

\* A folder that has a stamp has the rest, unless its removal was begun.
FoldersWithAStampAreWhole ==
  \A i \in Ids : "stamp" \in files[i] /\ i \notin removing => files[i] = EntryFileNames

\* So what a merge that is found lacks was removed, or could not be read.
PartsInv ==
  /\ FoldersWithAStampAreWhole
  /\ outcome.fresh \/ pc \notin {"touching", "serving"} => outcome.whole
  /\ outcome.whole \/ outcome.id \in removing \/ outcome.unread

\* The links a merge serves are its plan's; with merge_at_boot on they are there.
LinksInv ==
  /\ \A i \in Ids : recorded[i].links \subseteq Linked[i.plan]
  /\ pc \in {"merging", "saving"} => got.links \subseteq Linked[id.plan]
  /\ pc \notin {"off", "serving"} => Linked[id.plan] \subseteq modFiles
  /\ outcome.links \subseteq IF pc = "off" THEN {} ELSE modFiles

-----------------------------------------------------------------------------
(* Lemmas on the lists.                                                    *)

\* A list of a finite set names each of its elements, once.
LEMMA ListOfASet ==
  ASSUME NEW S, IsFiniteSet(S), NEW list \in SetToSeqs(S)
  PROVE  list \in Seq(S) /\ Distinct(list) /\ ToSet(list) = S /\ Len(list) = Cardinality(S)
<1> DEFINE n == Cardinality(S)
<1>1. n \in Nat
  BY FS_CardinalityType
<1>2. list \in [1..n -> S] /\ \A i, j \in 1..n : i # j => list[i] # list[j]
  BY DEF SetToSeqs
<1>3. list \in Injection(1..n, S)
  BY <1>2 DEF Injection, IsInjective
<1>4. Cardinality(1..n) = n
  BY <1>1, FS_Interval
<1>5. list \in Surjection(1..n, S)
  BY <1>3, <1>4, FS_Injection
<1>6. \A s \in S : \E i \in 1..n : list[i] = s
  BY <1>5 DEF Surjection
<1> HIDE DEF n
<1>7. list \in Seq(S) /\ Len(list) = n
  BY <1>1, <1>2
<1> QED
  BY <1>2, <1>6, <1>7 DEF Distinct, ToSet, n

\* A list that names nothing twice is as long as the set it lists.
LEMMA DistinctLists ==
  ASSUME NEW S, NEW list \in Seq(S), Distinct(list)
  PROVE  Len(list) = Cardinality(ToSet(list))
<1>1. Len(list) \in Nat /\ DOMAIN list = 1..Len(list) /\ list \in [1..Len(list) -> ToSet(list)]
  BY LenProperties DEF ToSet
<1>2. list \in Bijection(1..Len(list), ToSet(list))
  BY <1>1 DEF Distinct, ToSet, Bijection, Injection, Surjection, IsInjective
<1>3. ExistsBijection(1..Len(list), ToSet(list))
  BY <1>2 DEF ExistsBijection
<1> QED
  BY <1>1, <1>3, FS_CountingElements

\* Moving a merge first keeps the others, once each.
LEMMA MovedFirstIsAList ==
  ASSUME recent \in Seq(Ids), Distinct(recent), id \in Ids
  PROVE  /\ MovedFirst \in Seq(Ids) /\ Distinct(MovedFirst)
         /\ Len(MovedFirst) > 0 /\ MovedFirst[1] = id
<1> DEFINE rest == RemoveFirst(recent, id)
<1>1. rest \in Seq(Ids) /\ Distinct(rest) /\ id \notin ToSet(rest)
  <2>1. CASE id \notin ToSet(recent) /\ rest = recent
    BY <2>1
  <2>2. rest \in Seq(Ids)
    BY Removed
  <2>3. ASSUME NEW k \in 1..Len(recent), recent[k] = id, Len(rest) = Len(recent) - 1,
               \A n \in 1..(Len(recent) - 1) : rest[n] = IF n < k THEN recent[n] ELSE recent[n + 1]
        PROVE  Distinct(rest) /\ id \notin ToSet(rest)
    <3> DEFINE from(n) == IF n < k THEN n ELSE n + 1
    <3>1. /\ Len(recent) \in Nat /\ DOMAIN recent = 1..Len(recent) /\ DOMAIN rest = 1..(Len(recent) - 1)
      BY <2>2, <2>3, LenProperties
    <3>2. \A n \in DOMAIN rest : rest[n] = recent[from(n)] /\ from(n) \in DOMAIN recent /\ from(n) # k
      BY <2>3, <3>1
    <3>3. \A m, n \in DOMAIN rest : m # n => from(m) # from(n)
      BY <3>1
    <3> QED
      BY <2>3, <3>1, <3>2, <3>3 DEF Distinct, ToSet
  <2> QED
    BY <2>1, <2>2, <2>3, Removed DEF TakenOut
<1> HIDE DEF rest
<1>2. <<id>> \in Seq(Ids) /\ Len(<<id>>) = 1 /\ <<id>>[1] = id
  OBVIOUS
<1>3. /\ <<id>> \o rest \in Seq(Ids) /\ Len(<<id>> \o rest) = 1 + Len(rest)
      /\ \A n \in 1..(1 + Len(rest)) : (<<id>> \o rest)[n] = IF n <= 1 THEN <<id>>[n] ELSE rest[n - 1]
  BY <1>1, <1>2, ConcatProperties
<1>4. Len(rest) \in Nat /\ DOMAIN rest = 1..Len(rest)
  BY <1>1, LenProperties
<1>5. (<<id>> \o rest)[1] = id /\ \A n \in 2..(1 + Len(rest)) : (<<id>> \o rest)[n] = rest[n - 1]
  BY <1>2, <1>3, <1>4
<1>6. Distinct(<<id>> \o rest)
  <2>1. DOMAIN (<<id>> \o rest) = 1..(1 + Len(rest))
    BY <1>3, LenProperties
  <2>2. \A n \in 2..(1 + Len(rest)) : n - 1 \in DOMAIN rest
    BY <1>4
  <2>3. \A n \in 2..(1 + Len(rest)) : rest[n - 1] # id
    BY <1>1, <2>2 DEF ToSet
  <2>4. \A m, n \in 2..(1 + Len(rest)) : m # n => rest[m - 1] # rest[n - 1]
    BY <1>1, <1>4, <2>2 DEF Distinct
  <2> QED
    BY <1>4, <1>5, <2>1, <2>3, <2>4 DEF Distinct
<1> QED
  BY <1>3, <1>4, <1>5, <1>6 DEF MovedFirst, rest

\* The first entries of a list are a list.
LEMMA FirstEntries ==
  ASSUME NEW S, NEW list \in Seq(S), NEW n \in Nat, n <= Len(list)
  PROVE  /\ SubSeq(list, 1, n) \in Seq(S) /\ Len(SubSeq(list, 1, n)) = n
         /\ ToSet(SubSeq(list, 1, n)) \subseteq ToSet(list)
         /\ Distinct(list) => Distinct(SubSeq(list, 1, n))
         /\ \A i \in 1..n : SubSeq(list, 1, n)[i] = list[i]
<1>1. Len(list) \in Nat /\ DOMAIN list = 1..Len(list)
  BY LenProperties
<1>2. /\ SubSeq(list, 1, n) \in Seq(S) /\ Len(SubSeq(list, 1, n)) = n
      /\ \A i \in 1..n : SubSeq(list, 1, n)[i] = list[i]
  BY <1>1
<1>3. DOMAIN SubSeq(list, 1, n) = 1..n
  BY <1>2, LenProperties
<1> QED
  BY <1>1, <1>2, <1>3 DEF ToSet, Distinct

\* What a torn write leaves of a list is a list.
LEMMA TornLists ==
  ASSUME NEW list \in Seq(Ids), NEW torn \in Torn(list)
  PROVE  torn \in Seq(Ids) /\ (Distinct(list) => Distinct(torn))
<1>1. PICK n \in 0..Len(list) : torn = SubSeq(list, 1, n)
  BY DEF Torn
<1>2. n \in Nat /\ n <= Len(list)
  BY <1>1, LenProperties
<1> QED
  BY <1>1, <1>2, FirstEntries

\* What evict keeps: complete merges, Keep of them at most, the newest first.
LEMMA KeptOnes ==
  ASSUME TypeOK, NEW lost, NEW list \in EntryLists(lost),
         NEW keep, keep = SubSeq(list, 1, IF Len(list) < Keep THEN Len(list) ELSE Keep)
  PROVE  /\ keep \in Seq(Ids) /\ Distinct(keep) /\ Len(keep) <= Keep
         /\ ToSet(keep) \subseteq dirs
         /\ lost = {} /\ recent # <<>> /\ Complete(recent[1], {}) => keep # <<>> /\ keep[1] = recent[1]
<1> DEFINE complete == {i \in ToSet(Recent(lost)) \cup Folders(lost) : Complete(i, lost)}
           n == IF Len(list) < Keep THEN Len(list) ELSE Keep
<1>1. IsFiniteSet(complete) /\ complete \subseteq dirs /\ complete \subseteq Ids
  <2>1. complete \subseteq dirs
    BY DEF Complete
  <2> QED
    BY <2>1, FS_Subset DEF TypeOK
<1>2. /\ list \in SetToSeqs(complete)
      /\ \A m, k \in DOMAIN list : m < k => ~ListedBefore(list[k], list[m], Recent(lost))
  BY DEF EntryLists
<1>3. list \in Seq(complete) /\ Distinct(list) /\ ToSet(list) = complete
  BY <1>1, <1>2, ListOfASet
<1>4. list \in Seq(Ids) /\ Len(list) \in Nat /\ DOMAIN list = 1..Len(list)
  BY <1>1, <1>3, SeqMonotonic, LenProperties
<1>5. n \in Nat /\ n <= Len(list) /\ n <= Keep
  BY <1>4, CacheAssumption
<1>6. /\ keep \in Seq(Ids) /\ Distinct(keep) /\ Len(keep) = n
      /\ ToSet(keep) \subseteq ToSet(list) /\ \A i \in 1..n : keep[i] = list[i]
  BY <1>3, <1>4, <1>5, FirstEntries
<1>7. ASSUME lost = {}, recent # <<>>, Complete(recent[1], {})
      PROVE  keep # <<>> /\ keep[1] = recent[1]
  <2>1. 1 \in DOMAIN recent /\ Recent(lost) = recent
    BY <1>7 DEF TypeOK, Recent
  <2>2. recent[1] \in complete
    BY <1>7, <2>1 DEF ToSet
  <2>3. PICK k \in DOMAIN list : list[k] = recent[1]
    BY <1>3, <2>2 DEF ToSet
  <2>4. k = 1
    <3>1. SUFFICES ASSUME 1 < k PROVE FALSE
      BY <1>4
    <3>2. 1 \in DOMAIN list /\ list[1] # recent[1]
      BY <1>3, <1>4, <2>3, <3>1 DEF Distinct
    <3>3. ListedBefore(list[k], list[1], Recent(lost))
      BY <2>1, <2>3, <3>2 DEF ListedBefore
    <3> QED
      BY <1>2, <3>1, <3>2, <3>3
  <2>5. 1 \in 1..n
    BY <1>4, <2>3, <2>4, CacheAssumption
  <2> QED
    BY <1>6, <2>3, <2>4, <2>5
<1> QED
  BY <1>1, <1>3, <1>5, <1>6, <1>7

-----------------------------------------------------------------------------
(* Types and folders.                                                      *)

LEMMA FilesOfAFolder ==
  /\ EntryFiles \in [1..8 -> EntryFileNames]
  /\ EntryFiles[8] = "stamp" /\ \A n \in 1..7 : EntryFiles[n] # "stamp"
  /\ EntryFiles[1] = "index"
  /\ \A f \in EntryFileNames : \E n \in 1..8 : f = EntryFiles[n]
BY DEF EntryFiles, EntryFileNames

\* remove_dir_all: one more file is gone, or the folder itself.
LEMMA RemovedFile ==
  ASSUME TypeOK, FoldersInv, NEW i \in Ids, RemoveFile(i)
  PROVE  /\ UNCHANGED <<store, dirs, recorded, recent, modFiles>> /\ removing' = removing \cup {i} /\ i \in dirs
         /\ \E f \in files[i] :
              /\ files' = [files EXCEPT ![i] = files[i] \ {f}]
              /\ cut' = IF f = "stamp" THEN cut \ {i} ELSE cut
         /\ files' \in [Ids -> SUBSET EntryFileNames]
         /\ \A j \in Ids : files'[j] \subseteq files[j] /\ (j # i => files'[j] = files[j])
         /\ cut' \subseteq cut /\ \A j \in cut' : "stamp" \in files'[j]
         /\ \A j \in cut : "stamp" \in files'[j] => j \in cut'
<1>1. PICK f \in files[i] :
        /\ files' = [files EXCEPT ![i] = files[i] \ {f}]
        /\ cut' = IF f = "stamp" THEN cut \ {i} ELSE cut
  BY DEF RemoveFile, ListedFirst
<1>2. /\ files' \in [Ids -> SUBSET EntryFileNames]
      /\ files'[i] = files[i] \ {f} /\ \A j \in Ids : j # i => files'[j] = files[j]
  BY <1>1 DEF TypeOK
<1>3. cut \subseteq Ids /\ \A j \in cut : "stamp" \in files[j]
  BY DEF TypeOK, FoldersInv
<1>4. cut' \subseteq cut /\ \A j \in cut : j \in cut' <=> "stamp" \in files'[j]
  BY <1>1, <1>2, <1>3
<1>5. UNCHANGED <<store, dirs, recorded, recent, modFiles>> /\ removing' = removing \cup {i}
  BY DEF RemoveFile
<1>6. i \in dirs
  BY <1>1 DEF FoldersInv
<1> HIDE DEF TypeOK, FoldersInv
<1> QED
  BY <1>1, <1>2, <1>4, <1>5, <1>6

\* A merge that is found is stamped and loadable; with merge_at_boot on, it was
\* made of these mods.
LEMMA WantedOnes ==
  ASSUME NEW list, NEW plan, NEW game, NEW needed, NEW atBoot, NEW lost,
         NEW i \in Wanted(list, plan, game, needed, atBoot, lost)
  PROVE  i \in Ids /\ Stamped(i) /\ Loadable(i, lost) /\ (atBoot => i.plan = plan)
BY DEF Wanted, IsFirst

\* What a session that loses some of its reads starts with.
StartedWith(lost, plan, game, needed, atBoot) ==
  /\ FaultIf(lost # {})
  /\ id' \in Ids
  /\ \/ /\ pc' = "comparing" /\ outcome' = outcome
        /\ id' = [plan |-> plan, game |-> game, locales |-> needed]
     \/ /\ pc' = "touching" /\ outcome' = Loaded(id', lost)
        /\ Stamped(id') /\ Loadable(id', lost) /\ (atBoot => id'.plan = plan)

LEMMA Started ==
  ASSUME NEW plan \in Plans, NEW game \in Games, NEW needed \in LocaleLists, NEW force, NEW atBoot,
         Start(plan, game, needed, force, atBoot)
  PROVE  /\ pc = "off" /\ Linked[plan] \subseteq modFiles
         /\ UNCHANGED <<card, todo, got, kept, victims, victim, removed, nextFile>>
         /\ \E lost \in Losses : StartedWith(lost, plan, game, needed, atBoot)
<1>1. PICK lost \in Losses :
        \E list \in EntryLists(lost) :
          LET found == IF force THEN {} ELSE Wanted(list, plan, game, needed, atBoot, lost)
          IN /\ IF found = {}
                THEN /\ pc' = "comparing" /\ outcome' = outcome
                     /\ id' = [plan |-> plan, game |-> game, locales |-> needed]
                ELSE pc' = "touching" /\ id' \in found /\ outcome' = Loaded(id', lost)
             /\ FaultIf(lost # {})
  BY DEF Start
<1> PICK list \in EntryLists(lost) :
      LET found == IF force THEN {} ELSE Wanted(list, plan, game, needed, atBoot, lost)
      IN /\ IF found = {}
            THEN /\ pc' = "comparing" /\ outcome' = outcome
                 /\ id' = [plan |-> plan, game |-> game, locales |-> needed]
            ELSE pc' = "touching" /\ id' \in found /\ outcome' = Loaded(id', lost)
         /\ FaultIf(lost # {})
  BY <1>1
<1> DEFINE wanted == Wanted(list, plan, game, needed, atBoot, lost)
<1>2. /\ FaultIf(lost # {})
      /\ \/ /\ pc' = "comparing" /\ outcome' = outcome
            /\ id' = [plan |-> plan, game |-> game, locales |-> needed]
         \/ pc' = "touching" /\ id' \in wanted /\ outcome' = Loaded(id', lost)
  BY <1>1
<1>3. id' \in wanted => id' \in Ids /\ Stamped(id') /\ Loadable(id', lost) /\ (atBoot => id'.plan = plan)
  BY WantedOnes
<1>4. [plan |-> plan, game |-> game, locales |-> needed] \in Ids
  BY DEF Ids
<1> HIDE DEF wanted
<1>5. StartedWith(lost, plan, game, needed, atBoot)
  BY <1>2, <1>3, <1>4 DEF StartedWith
<1> QED
  BY <1>5 DEF Start

\* Without a fault, nothing is lost.
LEMMA StartedWithoutAFault ==
  ASSUME TypeOK, FoldersInv, ~Fault, NEW plan \in Plans, NEW game \in Games, NEW needed \in LocaleLists,
         NEW force \in BOOLEAN, NEW atBoot \in AtBoot, Start(plan, game, needed, force, atBoot)
  PROVE  StartedWith({}, plan, game, needed, atBoot)
<1>1. PICK lost \in Losses : StartedWith(lost, plan, game, needed, atBoot)
  BY Started
<1>2. FaultIf(lost # {})
  BY <1>1 DEF StartedWith
<1>3. lost = {}
  BY <1>2 DEF FaultIf
<1> QED
  BY <1>1, <1>3

\* One fault more, or none.
LEMMA FaultsCount ==
  ASSUME TypeOK, NEW failed, FaultIf(failed)
  PROVE  faults' \in 0..MaxFaults /\ crashes' \in 0..MaxCrashes /\ faults' \in {faults, faults + 1}
BY CacheAssumption DEF TypeOK, FaultIf, Fault, NoFault, bounds

\* Types and folders stay right through every step.
LEMMA FoldersStep ==
  ASSUME TypeOK, FoldersInv, [Next]_vars
  PROVE  TypeOK' /\ FoldersInv'
<1> USE CacheAssumption
<1>1. CASE UNCHANGED vars
  BY <1>1 DEF TypeOK, FoldersInv, vars, card, session, bounds
<1>2. ASSUME NEW plan \in Plans, NEW game \in Games, NEW needed \in LocaleLists, NEW force \in BOOLEAN,
             NEW atBoot \in AtBoot, Start(plan, game, needed, force, atBoot)
      PROVE  TypeOK' /\ FoldersInv'
  <2>1. PICK lost \in Losses : StartedWith(lost, plan, game, needed, atBoot)
    BY <1>2, Started
  <2>2. /\ UNCHANGED <<card, todo, got, kept, victims, victim, removed, nextFile>>
        /\ id' \in Ids
        /\ \/ pc' = "comparing" /\ outcome' = outcome
           \/ pc' = "touching" /\ outcome' = Loaded(id', lost)
        /\ faults' \in 0..MaxFaults /\ crashes' \in 0..MaxCrashes
    BY <1>2, <2>1, Started, FaultsCount DEF StartedWith
  <2>3. outcome' \in Outcomes
    <3>1. \A i \in Ids : Loaded(i, lost) \in Outcomes
      <4>1. SUFFICES ASSUME NEW i \in Ids PROVE Loaded(i, lost) \in Outcomes
        OBVIOUS
      <4>2. recorded[i].merged \subseteq Contents /\ recorded[i].code \subseteq Contents /\ recorded[i].links \subseteq ModFiles
        BY DEF TypeOK, Results
      <4>3. (IF Has(i, "code", lost) THEN recorded[i].code ELSE {}) \subseteq Contents
        BY <4>2
      <4>4. (Has(i, "patches", lost) /\ Has(i, "code", lost)) \in BOOLEAN
        BY DEF Has
      <4> QED
        BY <4>2, <4>3, <4>4 DEF Loaded, Outcomes
    <3> QED
      BY <2>2, <3>1 DEF TypeOK
  <2> QED
    BY <2>2, <2>3 DEF TypeOK, FoldersInv, card, Steps
<1>3. CASE GoAhead \/ Cancel \/ EndCollect
  <2>1. NoOutcome \in Outcomes
    BY DEF NoOutcome, Outcomes
  <2> QED
    BY <1>3, <2>1 DEF TypeOK, FoldersInv, GoAhead, Cancel, EndCollect, Serve, NoFault, card, session, bounds, Steps
<1>4. ASSUME BeginRemoves
      PROVE  TypeOK' /\ FoldersInv'
  <2>1. pc = "begin" /\ id \in dirs /\ id \in Ids /\ UNCHANGED session
    BY <1>4 DEF BeginRemoves, TypeOK
  <2>2. CASE RemoveFile(id) /\ NoFault /\ UNCHANGED <<pc, outcome>>
    BY <2>1, <2>2, RemovedFile DEF TypeOK, FoldersInv, NoFault, bounds, session
  <2>3. CASE RemoveDir(id) /\ NoFault /\ UNCHANGED <<pc, outcome>>
    <3>1. IsFiniteSet(dirs \ {id})
      BY FS_Subset DEF TypeOK
    <3>2. id \notin cut
      BY <2>1, <2>3 DEF FoldersInv, RemoveDir
    <3>3. Nothing \in Results
      BY DEF Nothing, Results
    <3> QED
      BY <2>1, <2>3, <3>1, <3>2, <3>3 DEF TypeOK, FoldersInv, RemoveDir, NoFault, bounds, session
  <2>4. CASE Fault /\ Serve(NoOutcome) /\ UNCHANGED card
    <3>1. NoOutcome \in Outcomes
      BY DEF NoOutcome, Outcomes
    <3> QED
      BY <2>1, <2>4, <3>1 DEF TypeOK, FoldersInv, Fault, Serve, card, session, Steps
  <2> QED
    BY <1>4, <2>2, <2>3, <2>4 DEF BeginRemoves
<1>5. ASSUME BeginCreates
      PROVE  TypeOK' /\ FoldersInv'
  <2>1. /\ pc = "begin" /\ id \in Ids \ dirs
        /\ UNCHANGED <<store, files, cut, recorded, recent, modFiles, removing, id, kept, victims, victim, removed, nextFile>>
    BY <1>5 DEF BeginCreates, FoldersInv
  <2>2. CASE /\ dirs' = dirs \cup {id} /\ pc' = "merging"
             /\ todo' = Merged[<<id.plan, id.locales>>] \cup Modules[id.plan]
             /\ got' = [merged |-> {}, code |-> {}, links |-> Linked[id.plan]]
             /\ NoFault /\ UNCHANGED outcome
    <3>1. IsFiniteSet(dirs \cup {id})
      BY FS_AddElement DEF TypeOK
    <3>2. todo' \subseteq Contents /\ got' \in Results
      BY <2>1, <2>2 DEF Ids, Results
    <3>3. files[id] = {} /\ id \notin cut
      BY <2>1 DEF FoldersInv, TypeOK
    <3> QED
      BY <2>1, <2>2, <3>1, <3>2, <3>3 DEF TypeOK, FoldersInv, NoFault, bounds, Steps
  <2>3. CASE Fault /\ Serve(NoOutcome) /\ UNCHANGED <<dirs, todo, got>>
    <3>1. NoOutcome \in Outcomes
      BY DEF NoOutcome, Outcomes
    <3> QED
      BY <2>1, <2>3, <3>1 DEF TypeOK, FoldersInv, Fault, Serve, Steps
  <2> QED
    BY <1>5, <2>2, <2>3 DEF BeginCreates
<1>6. ASSUME NEW c \in Contents, Put(c)
      PROVE  TypeOK' /\ FoldersInv'
  <2>1. store' \in [Contents -> {"absent", "cut", "whole"}] /\ got' \in Results /\ todo' \subseteq Contents
    <3>1. store' \in [Contents -> {"absent", "cut", "whole"}] /\ todo' \subseteq Contents
      BY <1>6 DEF Put, TypeOK
    <3>2. \/ got' = got
          \/ got' = [got EXCEPT !.merged = @ \cup ({c} \cap Merged[<<id.plan, id.locales>>]),
                                !.code = @ \cup ({c} \cap Modules[id.plan])]
      BY <1>6 DEF Put
    <3>3. /\ got.merged \subseteq Contents /\ got.code \subseteq Contents /\ got.links \subseteq ModFiles
          /\ got = [merged |-> got.merged, code |-> got.code, links |-> got.links]
      BY DEF TypeOK, Results
    <3>4. \/ got' = got
          \/ got' = [merged |-> got.merged \cup ({c} \cap Merged[<<id.plan, id.locales>>]),
                     code |-> got.code \cup ({c} \cap Modules[id.plan]), links |-> got.links]
      BY <3>2, <3>3
    <3> QED
      BY <3>1, <3>3, <3>4 DEF Results
  <2>2. faults' \in 0..MaxFaults /\ crashes' \in 0..MaxCrashes
    BY <1>6 DEF Put, NoFault, Fault, bounds, TypeOK
  <2> QED
    BY <1>6, <2>1, <2>2 DEF Put, TypeOK, FoldersInv
<1>7. CASE MergeDone
  <2>1. outcome' \in Outcomes
    BY <1>7 DEF MergeDone, Outcomes, TypeOK, FoldersInv, Results
  <2> QED
    BY <1>7, <2>1 DEF MergeDone, TypeOK, FoldersInv, NoFault, bounds, card, Steps
<1>8. ASSUME SaveFile
      PROVE  TypeOK' /\ FoldersInv'
  <2>1. /\ pc = "saving" /\ id \in dirs \ cut /\ id \in Ids
        /\ UNCHANGED <<store, dirs, recent, modFiles, removing, outcome, id, todo, got, kept, victims, victim, removed>>
    BY <1>8 DEF SaveFile, FoldersInv, TypeOK
  <2>2. CASE /\ files' = [files EXCEPT ![id] = @ \cup {EntryFiles[nextFile]}]
             /\ recorded' = [recorded EXCEPT ![id] = got]
             /\ IF nextFile = 8 THEN pc' = "touching" /\ UNCHANGED nextFile ELSE nextFile' = nextFile + 1 /\ UNCHANGED pc
             /\ NoFault /\ UNCHANGED cut
    <3>1. files' \in [Ids -> SUBSET EntryFileNames] /\ recorded' \in [Ids -> Results]
      BY <2>1, <2>2, FilesOfAFolder DEF TypeOK
    <3>2. ASSUME nextFile # 8
          PROVE  files'[id] = {EntryFiles[n] : n \in 1..(nextFile' - 1)} /\ nextFile' \in 1..8
      BY <2>1, <2>2, <3>2 DEF TypeOK, FoldersInv
    <3> QED
      BY <2>1, <2>2, <3>1, <3>2 DEF TypeOK, FoldersInv, NoFault, bounds, Steps
  <2>3. CASE /\ Fault /\ pc' = "evict" /\ UNCHANGED <<recorded, nextFile>>
             /\ \/ UNCHANGED <<files, cut>>
                \/ /\ files' = [files EXCEPT ![id] = @ \cup {EntryFiles[nextFile]}]
                   /\ cut' = IF nextFile = 8 THEN cut \cup {id} ELSE cut
    <3>1. files' \in [Ids -> SUBSET EntryFileNames] /\ cut' \subseteq dirs
      <4>1. files \in [Ids -> SUBSET EntryFileNames] /\ cut \subseteq dirs /\ EntryFiles[nextFile] \in EntryFileNames
        BY FilesOfAFolder DEF TypeOK
      <4> QED
        BY <2>1, <2>3, <4>1
    <3>2. /\ \A i \in Ids \ dirs : files'[i] = {}
          /\ \A i \in cut' : "stamp" \in files'[i]
      <4>1. /\ \A i \in Ids : i # id => files'[i] = files[i]
            /\ files[id] \subseteq files'[id]
            /\ \A i \in cut' : (i = id /\ EntryFiles[nextFile] = "stamp" /\ EntryFiles[nextFile] \in files'[id]) \/ i \in cut
        BY <2>1, <2>3, FilesOfAFolder DEF TypeOK
      <4>2. \A i \in cut : i \in Ids /\ "stamp" \in files[i]
        BY DEF TypeOK, FoldersInv
      <4> QED
        BY <2>1, <4>1, <4>2 DEF FoldersInv
    <3>3. faults' \in 0..MaxFaults /\ crashes' = crashes
      BY <2>3 DEF TypeOK, Fault
    <3> QED
      BY <2>1, <2>3, <3>1, <3>2, <3>3 DEF TypeOK, FoldersInv, Steps
  <2> QED
    BY <1>8, <2>2, <2>3 DEF SaveFile
<1>9. ASSUME Touch
      PROVE  TypeOK' /\ FoldersInv'
  <2>1. recent' \in Seq(Ids) /\ Distinct(recent')
    <3>1. MovedFirst \in Seq(Ids) /\ Distinct(MovedFirst)
      BY <1>9, MovedFirstIsAList DEF Touch, TypeOK, FoldersInv
    <3>2. recent' \in {recent, MovedFirst} \cup Torn(MovedFirst) \cup Torn(<<id>>)
      BY <1>9 DEF Touch
    <3>3. <<id>> \in Seq(Ids) /\ Distinct(<<id>>)
      BY <1>9 DEF Touch, FoldersInv, Distinct
    <3> QED
      BY <3>1, <3>2, <3>3, TornLists DEF TypeOK, FoldersInv
  <2>2. faults' \in 0..MaxFaults /\ crashes' \in 0..MaxCrashes
    BY <1>9 DEF Touch, NoFault, Fault, bounds, TypeOK
  <2> QED
    BY <1>9, <2>1, <2>2 DEF Touch, TypeOK, FoldersInv, session, Steps
<1>10. ASSUME StartEvict
       PROVE  TypeOK' /\ FoldersInv'
  <2>1. kept' \in Seq(Ids) /\ Distinct(kept')
    BY <1>10, KeptOnes DEF StartEvict
  <2>2. victims' \subseteq Ids
    BY <1>10 DEF StartEvict, TypeOK, Folders
  <2>3. faults' \in 0..MaxFaults /\ crashes' \in 0..MaxCrashes
    BY <1>10, FaultsCount DEF StartEvict
  <2> QED
    BY <1>10, <2>1, <2>2, <2>3 DEF StartEvict, TypeOK, FoldersInv, card, Steps
<1>11. ASSUME NEW i \in Ids, PickVictim(i)
       PROVE  TypeOK' /\ FoldersInv'
  BY <1>11 DEF PickVictim, TypeOK, FoldersInv, NoFault, bounds, card
<1>12. ASSUME EvictRemoves
       PROVE  TypeOK' /\ FoldersInv'
  <2>1. /\ pc = "evicting" /\ victim \in Ids
        /\ UNCHANGED <<pc, id, todo, got, kept, victims, nextFile, outcome>>
    BY <1>12 DEF EvictRemoves, TypeOK
  <2>2. CASE RemoveFile(victim) /\ NoFault /\ UNCHANGED <<victim, removed>>
    BY <2>1, <2>2, RemovedFile DEF TypeOK, FoldersInv, NoFault, bounds
  <2>3. CASE RemoveDir(victim) /\ NoFault /\ victim' = NoId /\ removed' = TRUE
    <3>1. IsFiniteSet(dirs \ {victim})
      BY FS_Subset DEF TypeOK
    <3>2. victim \notin cut
      BY <2>1, <2>3 DEF FoldersInv, RemoveDir
    <3>3. Nothing \in Results
      BY DEF Nothing, Results
    <3> QED
      BY <2>1, <2>3, <3>1, <3>2, <3>3 DEF TypeOK, FoldersInv, RemoveDir, NoFault, bounds
  <2>4. CASE Fault /\ victim' = NoId /\ UNCHANGED <<card, removed>>
    BY <2>1, <2>4 DEF TypeOK, FoldersInv, Fault, card
  <2> QED
    BY <1>12, <2>2, <2>3, <2>4 DEF EvictRemoves
<1>13. ASSUME WriteRecent
       PROVE  TypeOK' /\ FoldersInv'
  <2>1. recent' \in Seq(Ids) /\ Distinct(recent')
    <3>1. recent' \in {recent, kept} \cup Torn(kept)
      BY <1>13 DEF WriteRecent
    <3> QED
      BY <3>1, TornLists DEF TypeOK, FoldersInv
  <2>2. faults' \in 0..MaxFaults /\ crashes' \in 0..MaxCrashes
    BY <1>13, FaultsCount DEF WriteRecent, Fault, TypeOK
  <2>3. todo' \subseteq Contents
    BY <1>13 DEF WriteRecent, TypeOK
  <2> QED
    BY <1>13, <2>1, <2>2, <2>3 DEF WriteRecent, TypeOK, FoldersInv, Steps
<1>14. ASSUME NEW c \in Contents, Collect(c)
       PROVE  TypeOK' /\ FoldersInv'
  <2>1. /\ pc = "collecting" /\ pc' = pc /\ todo' \subseteq Contents
        /\ store' \in [Contents -> {"absent", "cut", "whole"}]
        /\ UNCHANGED <<dirs, files, cut, recorded, recent, modFiles, removing, outcome>>
        /\ UNCHANGED <<id, got, kept, victims, victim, removed, nextFile>>
    BY <1>14 DEF Collect, TypeOK
  <2>2. faults' \in 0..MaxFaults /\ crashes' \in 0..MaxCrashes
    BY <1>14 DEF Collect, NoFault, Fault, bounds, TypeOK
  <2> QED
    BY <2>1, <2>2 DEF TypeOK, FoldersInv
<1>15. ASSUME Forget, UNCHANGED <<dirs, recorded, modFiles, removing>>, faults' = faults, crashes' \in 0..MaxCrashes,
              store' \in [Contents -> {"absent", "cut", "whole"}],
              files' \in [Ids -> SUBSET EntryFileNames], \A i \in Ids \ dirs : files'[i] = {},
              cut' \subseteq dirs, \A i \in cut' : "stamp" \in files'[i],
              recent' \in Seq(Ids), Distinct(recent')
       PROVE  TypeOK' /\ FoldersInv'
  <2>1. NoOutcome \in Outcomes /\ Nothing \in Results
    BY DEF NoOutcome, Outcomes, Nothing, Results
  <2>2. kept' \in Seq(Ids) /\ Distinct(kept')
    <3>1. kept' = <<>>
      BY <1>15 DEF Forget
    <3> QED
      BY <3>1 DEF Distinct
  <2>3. FoldersInv'
    BY <1>15, <2>2 DEF Forget, FoldersInv, TypeOK
  <2>4. /\ store' \in [Contents -> {"absent", "cut", "whole"}]
        /\ dirs' \subseteq Ids /\ IsFiniteSet(dirs') /\ cut' \subseteq dirs'
        /\ files' \in [Ids -> SUBSET EntryFileNames] /\ recorded' \in [Ids -> Results]
        /\ recent' \in Seq(Ids) /\ modFiles' \subseteq ModFiles /\ removing' \subseteq dirs'
    BY <1>15 DEF TypeOK
  <2>5. /\ got' \in Results /\ kept' \in Seq(Ids) /\ pc' \in Steps /\ id' \in Ids \cup {NoId} /\ todo' \subseteq Contents
        /\ victims' \subseteq Ids /\ victim' \in Ids \cup {NoId} /\ removed' \in BOOLEAN
        /\ nextFile' \in 1..8 /\ outcome' \in Outcomes
    <3>1. got' = Nothing /\ outcome' = NoOutcome
      BY <1>15 DEF Forget
    <3>2. pc' \in Steps /\ id' \in Ids \cup {NoId} /\ victim' \in Ids \cup {NoId}
      BY <1>15 DEF Forget, Steps
    <3>3. todo' \subseteq Contents /\ victims' \subseteq Ids /\ nextFile' \in 1..8
      BY <1>15 DEF Forget
    <3>4. removed' \in BOOLEAN
      BY <1>15 DEF Forget
    <3> QED
      BY <2>1, <2>2, <3>1, <3>2, <3>3, <3>4
  <2>6. faults' \in 0..MaxFaults /\ crashes' \in 0..MaxCrashes
    BY <1>15 DEF TypeOK
  <2>7. TypeOK'
    BY <2>4, <2>5, <2>6 DEF TypeOK
  <2> QED
    BY <2>3, <2>7
<1>16. CASE Close
  BY <1>15, <1>16 DEF Close, NoFault, bounds, card, TypeOK, FoldersInv
<1>17. ASSUME Crash
       PROVE  TypeOK' /\ FoldersInv'
  <2>1. faults' = faults /\ crashes' \in 0..MaxCrashes /\ Forget
    BY <1>17 DEF Crash, TypeOK
  <2>2. CASE UNCHANGED card
    BY <1>15, <2>1, <2>2 DEF card, TypeOK, FoldersInv
  <2>3. CASE /\ \E c \in todo : store' = [store EXCEPT ![c] = "cut"]
             /\ UNCHANGED <<dirs, files, cut, recorded, recent, modFiles, removing>>
    BY <1>15, <2>1, <2>3 DEF TypeOK, FoldersInv
  <2>4. CASE /\ pc = "saving"
             /\ files' = [files EXCEPT ![id] = @ \cup {EntryFiles[nextFile]}]
             /\ cut' = IF nextFile = 8 THEN cut \cup {id} ELSE cut
             /\ UNCHANGED <<store, dirs, recorded, recent, modFiles, removing>>
    <3>1. /\ files' \in [Ids -> SUBSET EntryFileNames] /\ \A i \in Ids \ dirs : files'[i] = {}
          /\ cut' \subseteq dirs /\ \A i \in cut' : "stamp" \in files'[i]
      BY <2>4, FilesOfAFolder DEF TypeOK, FoldersInv
    <3> QED
      BY <1>15, <2>1, <2>4, <3>1 DEF TypeOK, FoldersInv
  <2>5. CASE /\ (pc = "touching" /\ recent' \in Torn(MovedFirst)) \/ recent' \in Torn(kept)
             /\ UNCHANGED <<store, dirs, files, cut, recorded, modFiles, removing>>
    <3>1. recent' \in Seq(Ids) /\ Distinct(recent')
      BY <2>5, MovedFirstIsAList, TornLists DEF TypeOK, FoldersInv
    <3> QED
      BY <1>15, <2>1, <2>5, <3>1 DEF TypeOK, FoldersInv
  <2> QED
    BY <1>17, <2>2, <2>3, <2>4, <2>5 DEF Crash, Interrupted
<1>18. ASSUME NEW f \in ModFiles, RemoveMod(f) \/ InstallMod(f)
       PROVE  TypeOK' /\ FoldersInv'
  BY <1>18 DEF RemoveMod, InstallMod, TypeOK, FoldersInv, NoFault, bounds, session
<1> QED
  BY <1>1, <1>2, <1>3, <1>4, <1>5, <1>6, <1>7, <1>8, <1>9, <1>10, <1>11, <1>12, <1>13, <1>14, <1>16, <1>17, <1>18
  DEF Next, Step

LEMMA FoldersAtFirst == Init => TypeOK /\ FoldersInv
<1> SUFFICES ASSUME Init PROVE TypeOK /\ FoldersInv
  OBVIOUS
<1>1. NoOutcome \in Outcomes /\ Nothing \in Results
  BY DEF NoOutcome, Outcomes, Nothing, Results
<1>2. recent \in Seq(Ids) /\ kept \in Seq(Ids) /\ Distinct(recent) /\ Distinct(kept)
  <2>1. recent = <<>> /\ kept = <<>>
    BY DEF Init
  <2> QED
    BY <2>1 DEF Distinct
<1>3. IsFiniteSet(dirs) /\ faults \in 0..MaxFaults /\ crashes \in 0..MaxCrashes
  BY FS_EmptySet, CacheAssumption DEF Init
<1>4. got \in Results /\ outcome \in Outcomes
  <2>1. got = Nothing /\ outcome = NoOutcome
    BY DEF Init
  <2> QED
    BY <1>1, <2>1
<1>5. recorded \in [Ids -> Results]
  BY <1>1 DEF Init
<1>6. removed \in BOOLEAN
  BY DEF Init
<1>7. TypeOK
  BY <1>2, <1>3, <1>4, <1>5, <1>6 DEF Init, TypeOK, Steps
<1>8. FoldersInv
  BY <1>2 DEF Init, FoldersInv
<1> QED
  BY <1>7, <1>8

LEMMA TypesAndFolders == Spec => [](TypeOK /\ FoldersInv)
<1>1. TypeOK /\ FoldersInv /\ [Next]_vars => TypeOK' /\ FoldersInv'
  BY FoldersStep
<1> QED
  BY FoldersAtFirst, <1>1, PTL DEF Spec

\* The SD card and the session are always what their types say.
THEOREM TypeCorrect == Spec => []TypeOK
BY TypesAndFolders, PTL

-----------------------------------------------------------------------------
(* The store and the folders, while no call fails.                         *)

LEMMA FaultsAreCounted ==
  ASSUME TypeOK, Fault
  PROVE  faults' # 0
BY CacheAssumption DEF TypeOK, Fault

LEMMA UsesAreContents ==
  ASSUME TypeOK, NEW i \in Ids
  PROVE  Uses(i, {}) \subseteq Contents
<1>1. recorded[i] \in Results
  BY DEF TypeOK
<1>2. recorded[i].merged \subseteq Contents /\ recorded[i].code \subseteq Contents
  BY <1>1 DEF Results
<1> QED
  BY <1>2 DEF Uses, Has

\* Removing a folder, file after file, takes nothing from the other merges.
LEMMA RemovalKeepsTheCache ==
  ASSUME TypeOK, FoldersInv, CacheInv, NEW i \in Ids, RemoveFile(i) \/ RemoveDir(i)
  PROVE  CacheInv'
<1>1. CASE RemoveFile(i)
  <2>1. /\ UNCHANGED <<store, dirs, recorded>>
        /\ \A j \in Ids : files'[j] \subseteq files[j]
        /\ \A j \in cut : "stamp" \in files'[j] => j \in cut'
    BY <1>1, RemovedFile
  <2>2. \A j \in dirs : j \in Ids
    BY DEF TypeOK
  <2> QED
    BY <2>1, <2>2 DEF CacheInv, Stamped, Complete, Loadable, Uses, Has
<1>2. CASE RemoveDir(i)
  <2>1. /\ dirs' = dirs \ {i} /\ UNCHANGED <<store, files, cut>>
        /\ \A j \in dirs' : recorded'[j] = recorded[j]
    BY <1>2 DEF RemoveDir, TypeOK
  <2> QED
    BY <2>1 DEF CacheInv, Stamped, Complete, Loadable, Uses, Has
<1> QED
  BY <1>1, <1>2

\* The merge found in the cache, or made, is in the store, whole.
LEMMA ContentsStep ==
  ASSUME TypeOK, FoldersInv, faults = 0, faults' = 0, CacheInv, ContentsInv, EvictionInv, [Next]_vars
  PROVE  CacheInv' /\ ContentsInv'
<1>0. ~Fault
  BY FaultsAreCounted
<1> USE CacheAssumption
<1>1. ASSUME UNCHANGED <<store, dirs, files, cut, recorded>>
      PROVE  CacheInv'
  BY <1>1 DEF CacheInv, Stamped, Complete, Loadable, Uses, Has
<1>2. ASSUME UNCHANGED <<store, dirs, files, cut, recorded, outcome>>, pc \in Found /\ pc' \in Found
      PROVE  CacheInv' /\ ContentsInv'
  BY <1>1, <1>2 DEF ContentsInv, Found
<1>3. CASE UNCHANGED vars
  BY <1>1, <1>3 DEF ContentsInv, vars, card, session
<1>4. ASSUME NEW plan \in Plans, NEW game \in Games, NEW needed \in LocaleLists, NEW force \in BOOLEAN,
             NEW atBoot \in AtBoot, Start(plan, game, needed, force, atBoot)
      PROVE  CacheInv' /\ ContentsInv'
  <2>1. CacheInv'
    BY <1>1, <1>4, Started DEF card
  <2>2. CASE pc' = "comparing"
    BY <2>1, <2>2 DEF ContentsInv, Found
  <2>3. CASE /\ pc' = "touching" /\ outcome' = Loaded(id', {}) /\ store' = store
             /\ Stamped(id') /\ Loadable(id', {})
    <3>1. outcome'.merged \cup outcome'.code \subseteq Uses(id', {})
      BY <2>3 DEF Loaded, Uses, Loadable, Has
    <3>2. \A c \in Uses(id', {}) : store[c] = "whole"
      BY <2>3 DEF CacheInv, Stamped, Complete, Has
    <3> QED
      BY <2>1, <2>3, <3>1, <3>2 DEF ContentsInv
  <2>4. StartedWith({}, plan, game, needed, atBoot)
    BY <1>0, <1>4, StartedWithoutAFault
  <2> QED
    BY <1>4, <2>2, <2>3, <2>4, Started DEF StartedWith, card
<1>5. CASE GoAhead
  BY <1>1, <1>5 DEF ContentsInv, GoAhead, card, Found
<1>6. CASE Cancel
  BY <1>1, <1>6 DEF ContentsInv, Cancel, Serve, NoOutcome, card
<1>7. ASSUME BeginRemoves
      PROVE  CacheInv' /\ ContentsInv'
  <2>1. id \in Ids /\ pc = "begin" /\ pc' = "begin" /\ (RemoveFile(id) \/ RemoveDir(id))
    BY <1>0, <1>7 DEF BeginRemoves, TypeOK
  <2>2. CacheInv'
    BY <2>1, RemovalKeepsTheCache
  <2> QED
    BY <2>1, <2>2 DEF ContentsInv, Found
<1>8. ASSUME BeginCreates
      PROVE  CacheInv' /\ ContentsInv'
  <2>1. /\ id \in Ids \ dirs /\ files[id] = {}
        /\ dirs' = dirs \cup {id} /\ pc' = "merging"
        /\ todo' = Merged[<<id.plan, id.locales>>] \cup Modules[id.plan]
        /\ got' = [merged |-> {}, code |-> {}, links |-> Linked[id.plan]]
        /\ UNCHANGED <<store, files, cut, recorded, id>>
    BY <1>0, <1>8 DEF BeginCreates, FoldersInv
  <2>2. CacheInv'
    BY <2>1 DEF CacheInv, Stamped, Complete, Loadable, Uses, Has
  <2>3. ContentsInv'
    BY <2>1 DEF ContentsInv, Found
  <2> QED
    BY <2>2, <2>3
<1>9. ASSUME NEW c \in Contents, Put(c)
      PROVE  CacheInv' /\ ContentsInv'
  <2>1. /\ pc = "merging" /\ pc' = "merging" /\ c \in todo /\ todo' = todo \ {c}
        /\ store' = [store EXCEPT ![c] = "whole"]
        /\ got' = [got EXCEPT !.merged = @ \cup ({c} \cap Merged[<<id.plan, id.locales>>]),
                              !.code = @ \cup ({c} \cap Modules[id.plan])]
        /\ UNCHANGED <<dirs, files, cut, recorded, id>>
    BY <1>0, <1>9 DEF Put
  <2>2. \A d \in Contents : store'[d] = IF d = c THEN "whole" ELSE store[d]
    BY <2>1 DEF TypeOK
  <2>3. CacheInv'
    <3>1. \A i \in dirs : Uses(i, {}) \subseteq Contents
      BY UsesAreContents DEF TypeOK
    <3>2. \A i \in dirs : Uses(i, {})' = Uses(i, {}) /\ (Stamped(i)' => Stamped(i)) /\ (Loadable(i, {})' => Loadable(i, {}))
      BY <2>1 DEF Stamped, Complete, Loadable, Uses, Has
    <3> QED
      BY <2>1, <2>2, <3>1, <3>2 DEF CacheInv
  <2>4. /\ got'.merged = got.merged \cup ({c} \cap Merged[<<id.plan, id.locales>>])
        /\ got'.code = got.code \cup ({c} \cap Modules[id.plan])
        /\ got.merged \subseteq Contents /\ got.code \subseteq Contents
    BY <2>1 DEF TypeOK, Results
  <2>5. /\ got'.merged = Merged[<<id.plan, id.locales>>] \ todo'
        /\ got'.code = Modules[id.plan] \ todo'
    BY <2>1, <2>4 DEF ContentsInv
  <2>6. \A d \in got'.merged \cup got'.code : store'[d] = "whole"
    BY <2>1, <2>2, <2>4 DEF ContentsInv
  <2>7. ContentsInv'
    BY <2>1, <2>5, <2>6 DEF ContentsInv, Found
  <2> QED
    BY <2>3, <2>7
<1>10. ASSUME MergeDone
       PROVE  CacheInv' /\ ContentsInv'
  <2>1. CacheInv'
    BY <1>1, <1>10 DEF MergeDone, card
  <2>2. /\ outcome'.fresh /\ outcome'.id = id /\ outcome'.merged = got.merged /\ outcome'.code = got.code
        /\ pc = "merging" /\ todo = {} /\ pc' = "saving" /\ nextFile' = 1 /\ UNCHANGED <<card, id, got>>
    BY <1>10 DEF MergeDone
  <2>3. ContentsInv'
    BY <2>2 DEF ContentsInv, Found, card
  <2> QED
    BY <2>1, <2>3
<1>11. ASSUME SaveFile
       PROVE  CacheInv' /\ ContentsInv'
  <2>1. /\ pc = "saving" /\ id \in dirs /\ id \in Ids
        /\ files' = [files EXCEPT ![id] = @ \cup {EntryFiles[nextFile]}]
        /\ recorded' = [recorded EXCEPT ![id] = got]
        /\ IF nextFile = 8 THEN pc' = "touching" /\ UNCHANGED nextFile ELSE nextFile' = nextFile + 1 /\ UNCHANGED pc
        /\ UNCHANGED <<store, dirs, cut, outcome, id, todo, got>>
    BY <1>0, <1>11 DEF SaveFile, FoldersInv, TypeOK
  <2>2. /\ recorded'[id] = got
        /\ \A i \in Ids : i # id => files'[i] = files[i] /\ recorded'[i] = recorded[i]
    BY <2>1 DEF TypeOK
  <2>3. /\ \A c \in got.merged \cup got.code : store[c] = "whole"
        /\ got.merged = Merged[<<id.plan, id.locales>>] /\ got.code = Modules[id.plan]
        /\ outcome.fresh /\ outcome.id = id /\ outcome.merged = got.merged /\ outcome.code = got.code
    BY <2>1 DEF ContentsInv
  <2>4. CacheInv'
    <3>1. ASSUME NEW i \in dirs, i # id, Stamped(i)', Loadable(i, {})'
          PROVE  /\ \A c \in Uses(i, {})' : store'[c] = "whole"
                 /\ recorded'[i].merged = Merged[<<i.plan, i.locales>>]
                 /\ "code" \in files'[i] => recorded'[i].code = Modules[i.plan]
      <4>1. i \in Ids /\ files'[i] = files[i] /\ recorded'[i] = recorded[i] /\ UNCHANGED <<store, dirs, cut>>
        BY <2>1, <2>2, <3>1 DEF TypeOK
      <4>2. Stamped(i) /\ Loadable(i, {}) /\ Uses(i, {})' = Uses(i, {})
        BY <3>1, <4>1 DEF Stamped, Complete, Loadable, Uses, Has
      <4> QED
        BY <4>1, <4>2 DEF CacheInv
    <3>2. /\ \A c \in Uses(id, {})' : store'[c] = "whole"
          /\ recorded'[id].merged = Merged[<<id.plan, id.locales>>]
          /\ recorded'[id].code = Modules[id.plan]
      BY <2>1, <2>2, <2>3 DEF Uses
    <3> QED
      BY <2>1, <3>1, <3>2 DEF CacheInv
  <2>5. ContentsInv'
    BY <2>1, <2>2, <2>3 DEF ContentsInv
  <2> QED
    BY <2>4, <2>5
<1>12. CASE Touch
  BY <1>1, <1>2, <1>12 DEF Touch, Found
<1>13. CASE StartEvict \/ EndCollect \/ \E i \in Ids : PickVictim(i)
  BY <1>2, <1>13 DEF StartEvict, EndCollect, PickVictim, card, Found
<1>14. ASSUME EvictRemoves
       PROVE  CacheInv' /\ ContentsInv'
  <2>1. /\ victim \in Ids /\ (RemoveFile(victim) \/ RemoveDir(victim))
        /\ pc = "evicting" /\ UNCHANGED <<pc, outcome>>
    BY <1>0, <1>14 DEF EvictRemoves, TypeOK
  <2>2. CacheInv'
    BY <2>1, RemovalKeepsTheCache
  <2>3. store' = store
    BY <2>1 DEF RemoveFile, RemoveDir
  <2> QED
    BY <2>1, <2>2, <2>3 DEF ContentsInv
<1>15. CASE WriteRecent
  BY <1>2, <1>15 DEF WriteRecent, Found
<1>16. ASSUME NEW c \in Contents, Collect(c)
       PROVE  CacheInv' /\ ContentsInv'
  <2>1. /\ pc = "collecting" /\ c \in todo /\ store' = [store EXCEPT ![c] = "absent"]
        /\ UNCHANGED <<dirs, files, cut, recorded, pc, outcome>>
    BY <1>0, <1>16 DEF Collect
  <2>2. \A d \in Contents : d # c => store'[d] = store[d]
    BY <2>1 DEF TypeOK
  <2>3. \A i \in dirs : Uses(i, {}) \subseteq Contents \ {c}
    <3>1. \A i \in dirs : Uses(i, {}) \subseteq Contents /\ Uses(i, {}) \cap todo = {}
      BY <2>1, UsesAreContents DEF TypeOK, EvictionInv
    <3> QED
      BY <2>1, <3>1
  <2>4. CacheInv'
    <3>1. \A i \in dirs : Uses(i, {})' = Uses(i, {}) /\ (Stamped(i) /\ Loadable(i, {}))' = (Stamped(i) /\ Loadable(i, {}))
      BY <2>1 DEF Uses, Stamped, Complete, Loadable, Has
    <3>2. \A i \in dirs : \A d \in Uses(i, {}) : store'[d] = store[d]
      BY <2>2, <2>3
    <3> QED
      BY <2>1, <3>1, <3>2 DEF CacheInv
  <2>5. outcome.id \in dirs /\ outcome.merged \cup outcome.code \subseteq Uses(outcome.id, {})
    <3>1. Recorded
      BY <2>1 DEF EvictionInv
    <3>2. "index" \in EntryFileNames /\ "code" \in EntryFileNames
      BY DEF EntryFileNames, EntryFiles
    <3> QED
      BY <3>1, <3>2 DEF Recorded, Uses, Has
  <2>6. ContentsInv'
    <3>1. \A d \in outcome.merged \cup outcome.code : d \in Contents \ {c} /\ store[d] = "whole"
      BY <2>1, <2>3, <2>5 DEF ContentsInv, Found
    <3> QED
      BY <2>1, <2>2, <3>1 DEF ContentsInv
  <2> QED
    BY <2>4, <2>6
<1>17. CASE Close
  BY <1>1, <1>17 DEF ContentsInv, Close, Forget, card, Found
<1>18. ASSUME Crash
       PROVE  CacheInv' /\ ContentsInv'
  <2>1. ContentsInv'
    BY <1>18 DEF Crash, Forget, ContentsInv, Found
  <2>2. CASE UNCHANGED card
    BY <1>1, <2>1, <2>2 DEF card
  <2>3. CASE /\ \E c \in todo : store[c] # "whole" /\ store' = [store EXCEPT ![c] = "cut"]
             /\ UNCHANGED <<dirs, files, cut, recorded, recent, modFiles, removing>>
    <3>1. \A d \in Contents : store[d] = "whole" => store'[d] = "whole"
      BY <2>3 DEF TypeOK
    <3>2. \A i \in dirs : Uses(i, {}) \subseteq Contents
      BY UsesAreContents DEF TypeOK
    <3>3. CacheInv'
      BY <2>3, <3>1, <3>2 DEF CacheInv, Stamped, Complete, Loadable, Uses, Has
    <3> QED
      BY <2>1, <3>3
  <2>4. CASE /\ pc = "saving"
             /\ files' = [files EXCEPT ![id] = @ \cup {EntryFiles[nextFile]}]
             /\ cut' = IF nextFile = 8 THEN cut \cup {id} ELSE cut
             /\ UNCHANGED <<store, dirs, recorded, recent, modFiles, removing>>
    <3>1. id \in Ids /\ files'[id] = {EntryFiles[n] : n \in 1..nextFile}
          /\ \A i \in dirs : i # id => files'[i] = files[i]
      BY <2>4 DEF FoldersInv, TypeOK
    <3>2. ASSUME NEW i \in dirs, i = id
          PROVE  ~Stamped(i)'
      <4>1. CASE nextFile = 8
        BY <2>4, <3>2, <4>1 DEF Stamped
      <4>2. CASE nextFile # 8
        <5>1. \A n \in 1..nextFile : n \in 1..7
          BY <4>2 DEF TypeOK
        <5> QED
          BY <3>1, <3>2, <5>1, FilesOfAFolder DEF Stamped, Complete, Has
      <4> QED
        BY <4>1, <4>2
    <3>3. \A i \in dirs : i # id => (Stamped(i)' => Stamped(i))
      BY <2>4, <3>1 DEF Stamped, Complete, Has
    <3>4. CacheInv'
      <4>1. ASSUME NEW i \in dirs, Stamped(i)', Loadable(i, {})'
            PROVE  i # id /\ Stamped(i) /\ Loadable(i, {}) /\ files'[i] = files[i]
        BY <3>1, <3>2, <3>3, <4>1 DEF Loadable, Has
      <4> QED
        BY <2>4, <4>1 DEF CacheInv, Uses, Has
    <3> QED
      BY <2>1, <3>4
  <2>5. CASE UNCHANGED <<store, dirs, files, cut, recorded, modFiles, removing>>
    BY <1>1, <2>1, <2>5
  <2> QED
    BY <1>18, <2>2, <2>3, <2>4, <2>5 DEF Crash, Interrupted
<1>19. ASSUME NEW f \in ModFiles, RemoveMod(f) \/ InstallMod(f)
       PROVE  CacheInv' /\ ContentsInv'
  BY <1>1, <1>19 DEF RemoveMod, InstallMod, ContentsInv, Found
<1> QED
  BY <1>3, <1>4, <1>5, <1>6, <1>7, <1>8, <1>9, <1>10, <1>11, <1>12, <1>13, <1>14, <1>15, <1>16, <1>17, <1>18, <1>19
  DEF Next, Step

\* Eviction removes the merges that are not kept and no other, and the garbage
\* collector what no folder uses.
LEMMA EvictionStep ==
  ASSUME TypeOK, FoldersInv, faults = 0, faults' = 0, ContentsInv, EvictionInv, [Next]_vars
  PROVE  EvictionInv'
<1>0. ~Fault
  BY FaultsAreCounted
<1> USE CacheAssumption
<1>1. CASE UNCHANGED vars
  BY <1>1 DEF EvictionInv, Recorded, Uses, vars, card, session, Has
<1>2. ASSUME pc' \in {"off", "comparing", "begin", "merging", "saving"}, removed' = FALSE
      PROVE  EvictionInv'
  BY <1>2 DEF EvictionInv
<1>3. ASSUME pc \notin {"evicting", "collecting", "serving"}, UNCHANGED removed
      PROVE  removed' = FALSE
  BY <1>3 DEF EvictionInv, TypeOK
<1>4. ASSUME NEW plan \in Plans, NEW game \in Games, NEW needed \in LocaleLists, NEW force \in BOOLEAN,
             NEW atBoot \in AtBoot, Start(plan, game, needed, force, atBoot)
      PROVE  EvictionInv'
  <2>1. CASE pc' = "comparing"
    BY <1>2, <1>3, <1>4, <2>1, Started
  <2>2. CASE pc' = "touching" /\ outcome' = Loaded(id', {})
    BY <1>3, <1>4, <2>2, Started DEF EvictionInv, Loaded, Has
  <2>3. StartedWith({}, plan, game, needed, atBoot)
    BY <1>0, <1>4, StartedWithoutAFault
  <2> QED
    BY <2>1, <2>2, <2>3 DEF StartedWith
<1>5. CASE GoAhead \/ BeginRemoves \/ BeginCreates \/ MergeDone \/ (\E c \in Contents : Put(c))
  <2>1. pc \in {"comparing", "begin", "merging"} /\ pc' \in {"begin", "merging", "saving"} /\ UNCHANGED removed
    <3>1. CASE GoAhead \/ MergeDone
      BY <3>1 DEF GoAhead, MergeDone, session
    <3>2. CASE BeginRemoves \/ BeginCreates
      BY <1>0, <3>2 DEF BeginRemoves, BeginCreates, session
    <3>3. CASE \E c \in Contents : Put(c)
      BY <3>3 DEF Put
    <3> QED
      BY <1>5, <3>1, <3>2, <3>3
  <2> QED
    BY <1>2, <1>3, <2>1
<1>6. CASE Cancel
  BY <1>3, <1>6 DEF Cancel, Serve, NoOutcome, session, EvictionInv
<1>7. ASSUME SaveFile
      PROVE  EvictionInv'
  <2>1. /\ pc = "saving" /\ id \in dirs \ cut /\ id \in Ids /\ files[id] = {EntryFiles[n] : n \in 1..(nextFile - 1)}
        /\ files' = [files EXCEPT ![id] = @ \cup {EntryFiles[nextFile]}]
        /\ recorded' = [recorded EXCEPT ![id] = got]
        /\ IF nextFile = 8 THEN pc' = "touching" ELSE UNCHANGED pc
        /\ UNCHANGED <<dirs, cut, outcome, id, got, removed>>
    BY <1>0, <1>7 DEF SaveFile, FoldersInv, TypeOK
  <2>2. CASE nextFile # 8
    BY <1>2, <1>3, <2>1, <2>2
  <2>3. CASE nextFile = 8
    <3>1. files'[id] = EntryFileNames
      BY <2>1, <2>3 DEF TypeOK, EntryFileNames
    <3>2. recorded'[id] = got
      BY <2>1 DEF TypeOK
    <3>3. outcome.fresh /\ outcome.id = id /\ outcome.merged = got.merged /\ outcome.code = got.code
      BY <2>1 DEF ContentsInv
    <3>4. Recorded'
      BY <2>1, <3>1, <3>2, <3>3 DEF Recorded
    <3> QED
      BY <1>3, <2>1, <2>3, <3>3, <3>4 DEF EvictionInv
  <2> QED
    BY <2>2, <2>3
<1>8. ASSUME Touch
      PROVE  EvictionInv'
  <2>1. /\ pc = "touching" /\ recent' = MovedFirst /\ pc' = IF outcome.fresh THEN "evict" ELSE "serving"
        /\ UNCHANGED <<dirs, files, cut, recorded, outcome, id, removed>>
    BY <1>0, <1>8 DEF Touch, session
  <2>2. recent' # <<>> /\ recent'[1] = id
    BY <2>1, MovedFirstIsAList DEF TypeOK, FoldersInv
  <2>3. outcome.id = id /\ (outcome.fresh => Recorded)
    BY <2>1 DEF EvictionInv
  <2> QED
    BY <1>3, <2>1, <2>2, <2>3 DEF EvictionInv, Recorded
<1>9. ASSUME StartEvict
      PROVE  EvictionInv'
  <2>1. /\ pc = "evict" /\ pc' = "evicting" /\ removed' = FALSE
        /\ victim' = NoId
        /\ UNCHANGED <<dirs, files, cut, recorded, outcome>>
        /\ \E list \in EntryLists({}) : kept' = SubSeq(list, 1, IF Len(list) < Keep THEN Len(list) ELSE Keep)
        /\ victims' = dirs \ ToSet(kept')
    BY <1>0, <1>9 DEF StartEvict, card, FaultIf, Folders
  <2>2. Recorded /\ recent # <<>> /\ recent[1] = outcome.id
    BY <2>1 DEF EvictionInv
  <2>3. Complete(recent[1], {})
    BY <2>2 DEF Recorded, Complete, EntryFileNames, EntryFiles, Has
  <2>4. /\ Len(kept') <= Keep /\ ToSet(kept') \subseteq dirs
        /\ kept' # <<>> /\ kept'[1] = recent[1]
    BY <2>1, <2>2, <2>3, KeptOnes
  <2>5. NoId \notin ToSet(kept')
    BY <2>4 DEF TypeOK
  <2> QED
    BY <2>1, <2>2, <2>4, <2>5 DEF EvictionInv, Recorded
<1>10. ASSUME NEW i \in Ids, PickVictim(i)
       PROVE  EvictionInv'
  <2>1. /\ pc = "evicting" /\ victim = NoId /\ i \in victims
        /\ victim' = i /\ victims' = victims \ {i}
        /\ UNCHANGED <<dirs, files, cut, recorded, pc, kept, outcome>>
    BY <1>10 DEF PickVictim, card
  <2>2. NoId \notin dirs
    BY DEF TypeOK
  <2> QED
    BY <2>1, <2>2 DEF EvictionInv, Recorded
<1>11. ASSUME EvictRemoves
       PROVE  EvictionInv'
  <2>1. /\ pc = "evicting" /\ victim \in Ids /\ UNCHANGED <<pc, kept, victims, outcome>>
    BY <1>11 DEF EvictRemoves, TypeOK
  <2>2. outcome.id \in Ids /\ outcome.id # victim
    <3>1. Recorded /\ kept # <<>> /\ kept[1] = outcome.id /\ victim \notin ToSet(kept)
      BY <2>1 DEF EvictionInv
    <3>2. 1 \in DOMAIN kept
      BY <3>1 DEF TypeOK
    <3> QED
      BY <3>1, <3>2 DEF ToSet, Recorded, TypeOK
  <2>3. CASE RemoveFile(victim) /\ UNCHANGED <<victim, removed>>
    <3>1. dirs' = dirs /\ recorded' = recorded /\ files'[outcome.id] = files[outcome.id] /\ cut' \subseteq cut
      BY <2>1, <2>2, <2>3, RemovedFile
    <3> QED
      BY <2>1, <2>3, <3>1 DEF EvictionInv, Recorded
  <2>4. CASE RemoveDir(victim) /\ victim' = NoId /\ removed' = TRUE
    <3>1. /\ dirs' = dirs \ {victim} /\ recorded'[outcome.id] = recorded[outcome.id]
          /\ files' = files /\ cut' = cut
      BY <2>1, <2>2, <2>4 DEF RemoveDir, TypeOK
    <3>2. NoId \notin ToSet(kept)
      BY <2>1 DEF EvictionInv, TypeOK
    <3> QED
      BY <2>1, <2>2, <2>4, <3>1, <3>2 DEF EvictionInv, Recorded
  <2> QED
    BY <1>0, <1>11, <2>3, <2>4 DEF EvictRemoves
<1>12. ASSUME WriteRecent
       PROVE  EvictionInv'
  <2>1. /\ pc = "evicting" /\ victim = NoId /\ victims = {} /\ recent' = kept
        /\ IF removed
           THEN /\ pc' = "collecting"
                /\ todo' = {c \in Contents : store[c] # "absent"} \ UNION {Uses(i, {}) : i \in ToSet(kept)}
           ELSE pc' = "serving"
        /\ UNCHANGED <<store, dirs, files, cut, recorded, outcome, kept, removed>>
    <3>1. PICK lost \in Losses :
            /\ recent' = kept /\ FaultIf(lost # {})
            /\ IF removed
               THEN /\ pc' = "collecting"
                    /\ todo' = {c \in Contents : store[c] # "absent" /\ <<"store">> \notin lost}
                                 \ UNION {Uses(i, lost) : i \in ToSet(kept)}
               ELSE pc' = "serving" /\ UNCHANGED todo
      BY <1>0, <1>12 DEF WriteRecent
    <3>2. FaultIf(lost # {})
      BY <3>1
    <3>3. lost = {}
      BY <1>0, <3>2 DEF FaultIf
    <3>4. {c \in Contents : store[c] # "absent" /\ <<"store">> \notin {}} = {c \in Contents : store[c] # "absent"}
      OBVIOUS
    <3> QED
      BY <1>12, <3>1, <3>3, <3>4 DEF WriteRecent
  <2>2. /\ Recorded /\ kept # <<>> /\ kept[1] = outcome.id /\ Len(kept) <= Keep
        /\ dirs = ToSet(kept)
    <3>1. NoId \notin dirs
      BY DEF TypeOK
    <3> QED
      BY <2>1, <3>1 DEF EvictionInv
  <2>3. \A i \in dirs : Uses(i, {})' = Uses(i, {})
    BY <2>1 DEF Uses, Has
  <2>4. CASE removed
    <3>1. /\ \A i \in dirs : Uses(i, {}) \cap todo' = {}
          /\ \A c \in Contents \ todo' : store[c] # "absent" => \E i \in dirs : c \in Uses(i, {})
      BY <2>1, <2>2, <2>4
    <3> QED
      BY <2>1, <2>2, <2>3, <2>4, <3>1 DEF EvictionInv, Recorded
  <2>5. CASE ~removed
    BY <2>1, <2>2, <2>5 DEF EvictionInv, Recorded
  <2> QED
    BY <2>4, <2>5
<1>13. ASSUME NEW c \in Contents, Collect(c)
       PROVE  EvictionInv'
  <2>1. /\ pc = "collecting" /\ c \in todo /\ todo' = todo \ {c} /\ store' = [store EXCEPT ![c] = "absent"]
        /\ UNCHANGED <<dirs, files, cut, recorded, recent, pc, outcome, kept, removed>>
    BY <1>0, <1>13 DEF Collect
  <2>2. \A d \in Contents : store'[d] = IF d = c THEN "absent" ELSE store[d]
    BY <2>1 DEF TypeOK
  <2>3. \A i \in dirs : Uses(i, {})' = Uses(i, {})
    BY <2>1 DEF Uses, Has
  <2>4. /\ \A i \in dirs' : Uses(i, {})' \cap todo' = {}
        /\ \A d \in Contents \ todo' : store'[d] # "absent" => \E i \in dirs' : d \in Uses(i, {})'
    BY <2>1, <2>2, <2>3 DEF EvictionInv
  <2> QED
    BY <2>1, <2>4 DEF EvictionInv, Recorded
<1>14. CASE EndCollect
  <2>1. pc = "collecting" /\ todo = {} /\ pc' = "serving" /\ UNCHANGED <<card, session, outcome>>
    BY <1>14 DEF EndCollect
  <2>2. \A i \in dirs : Uses(i, {})' = Uses(i, {})
    BY <2>1 DEF Uses, card, Has
  <2> QED
    BY <2>1, <2>2 DEF EvictionInv, Recorded, card, session
<1>15. CASE Close \/ Crash
  BY <1>2, <1>15 DEF Close, Crash, Forget
<1>16. ASSUME NEW f \in ModFiles, RemoveMod(f) \/ InstallMod(f)
       PROVE  EvictionInv'
  BY <1>2, <1>3, <1>16 DEF RemoveMod, InstallMod, session
<1> QED
  BY <1>1, <1>4, <1>5, <1>6, <1>7, <1>8, <1>9, <1>10, <1>11, <1>12, <1>13, <1>14, <1>15, <1>16 DEF Next, Step

LEMMA Calls == Spec => [](TypeOK /\ FoldersInv /\ CallsInv)
<1>1. Init => CallsInv
  BY DEF Init, CallsInv, CacheInv, ContentsInv, EvictionInv, Found
<1>2. TypeOK /\ FoldersInv /\ CallsInv /\ [Next]_vars => CallsInv'
  <2> SUFFICES ASSUME TypeOK, FoldersInv, CallsInv, [Next]_vars, faults' = 0
               PROVE  (CacheInv /\ ContentsInv /\ EvictionInv)'
    BY DEF CallsInv
  <2>1. faults = 0
    <3>1. faults \in Nat
      BY CacheAssumption DEF TypeOK
    <3>2. faults' \in {faults, faults + 1}
      <4>1. CASE UNCHANGED vars
        BY <4>1 DEF vars, bounds
      <4>2. CASE Step
        <5>1. CASE BeginRemoves \/ BeginCreates \/ SaveFile \/ Touch \/ EvictRemoves
          BY <5>1 DEF BeginRemoves, BeginCreates, SaveFile, Touch, EvictRemoves, NoFault, Fault, bounds
        <5>2. CASE \E c \in Contents : Put(c) \/ Collect(c)
          BY <5>2 DEF Put, Collect, NoFault, Fault, bounds
        <5>3. CASE MergeDone \/ EndCollect \/ \E i \in Ids : PickVictim(i)
          BY <5>3 DEF MergeDone, EndCollect, PickVictim, NoFault, bounds
        <5>4. CASE StartEvict \/ WriteRecent
          BY <5>4, FaultsCount DEF StartEvict, WriteRecent, Fault
        <5> QED
          BY <4>2, <5>1, <5>2, <5>3, <5>4 DEF Step
      <4>3. ASSUME NEW plan, NEW game, NEW needed, NEW force, NEW atBoot, Start(plan, game, needed, force, atBoot)
            PROVE  faults' \in {faults, faults + 1}
        BY <4>3, FaultsCount DEF Start
      <4>4. CASE GoAhead \/ Cancel \/ Close \/ Crash \/ \E f \in ModFiles : RemoveMod(f) \/ InstallMod(f)
        BY <4>4 DEF GoAhead, Cancel, Close, Crash, RemoveMod, InstallMod, NoFault, bounds
      <4> QED
        BY <4>1, <4>2, <4>3, <4>4 DEF Next
    <3> QED
      BY <3>1, <3>2
  <2> QED
    BY <2>1, ContentsStep, EvictionStep DEF CallsInv
<1> QED
  BY <1>1, <1>2, TypesAndFolders, PTL DEF Spec

\* merge_cache.rs:21-22: whatever is deleted or written at any moment, the stored
\* files of every merge that a later session would find are there, whole, as long
\* as no call failed.
THEOREM CacheIsThere == Spec => []CachedFilesExist
<1>1. TypeOK /\ CallsInv => CachedFilesExist
  BY DEF CallsInv, CacheInv, CachedFilesExist
<1> QED
  BY <1>1, Calls, PTL

\* merge_cache.rs:17: a merge with a stamp holds everything its mods produce.
THEOREM StampsAreTrue == Spec => []StampedMergesAreWhole
<1>1. CallsInv => StampedMergesAreWhole
  BY DEF CallsInv, CacheInv, StampedMergesAreWhole
<1> QED
  BY <1>1, Calls, PTL

\* vfs.rs open_file_hook: the files the game's reads are sent to are there, whole.
THEOREM ServedFilesAreThere == Spec => []ServedFilesExistUnlessACallFails
<1>1. CallsInv => ServedFilesExistUnlessACallFails
  BY DEF CallsInv, ContentsInv, Found, ServedFilesExistUnlessACallFails, ServedFilesExist
<1> QED
  BY <1>1, Calls, PTL

\* merge_cache.rs touch, evict: after a merge the folders are those of the last
\* merge_cache_size ones, whatever was there before.
THEOREM LastMergesRemain == Spec => []OnlyTheLastMergesRemain
<1>1. ASSUME TypeOK, FoldersInv, CallsInv, faults = 0, pc = "serving", outcome.fresh
      PROVE  /\ dirs = ToSet(recent) /\ Len(recent) = Cardinality(dirs) /\ Len(recent) <= Keep
             /\ Stamped(outcome.id) /\ Loadable(outcome.id, {}) /\ Head(recent) = outcome.id
  <2>1. Recorded /\ recent # <<>> /\ recent[1] = outcome.id /\ dirs = ToSet(recent) /\ Len(recent) <= Keep
    BY <1>1 DEF CallsInv, EvictionInv
  <2>2. Len(recent) = Cardinality(ToSet(recent))
    BY <1>1, DistinctLists DEF TypeOK, FoldersInv
  <2>3. Stamped(outcome.id) /\ Loadable(outcome.id, {})
    BY <2>1 DEF Recorded, Stamped, Complete, Loadable, EntryFileNames, EntryFiles, Has
  <2>4. Head(recent) = outcome.id
    BY <1>1, <2>1 DEF TypeOK
  <2> QED
    BY <2>1, <2>2, <2>3, <2>4
<1>2. TypeOK /\ FoldersInv /\ CallsInv => OnlyTheLastMergesRemain
  BY <1>1 DEF OnlyTheLastMergesRemain
<1> QED
  BY <1>2, Calls, PTL

\* merge_cache.rs collect_garbage: after a removal, nothing stays in the store that
\* no remaining merge serves.
THEOREM NoGarbageStays == Spec => []NoGarbageAfterARemoval
<1>1. CallsInv => NoGarbageAfterARemoval
  BY DEF CallsInv, EvictionInv, NoGarbageAfterARemoval
<1> QED
  BY <1>1, Calls, PTL

-----------------------------------------------------------------------------
(* What is half written, or half removed.                                  *)

LEMMA PartsStep ==
  ASSUME TypeOK, FoldersInv, PartsInv, [Next]_vars
  PROVE  PartsInv'
<1> USE CacheAssumption
<1>1. CASE UNCHANGED vars
  BY <1>1 DEF PartsInv, FoldersWithAStampAreWhole, vars, card
<1>2. ASSUME UNCHANGED <<files, removing>>
      PROVE  FoldersWithAStampAreWhole'
  BY <1>2 DEF PartsInv, FoldersWithAStampAreWhole
<1>3. ASSUME NEW plan \in Plans, NEW game \in Games, NEW needed \in LocaleLists, NEW force \in BOOLEAN,
             NEW atBoot \in AtBoot, Start(plan, game, needed, force, atBoot)
      PROVE  PartsInv'
  <2>1. PICK lost \in Losses : StartedWith(lost, plan, game, needed, atBoot)
    BY <1>3, Started
  <2>2. pc = "off" /\ UNCHANGED <<files, removing>>
    BY <1>3, Started DEF card
  <2>3. CASE pc' = "comparing" /\ outcome' = outcome
    BY <1>2, <2>2, <2>3 DEF PartsInv
  <2>4. CASE pc' = "touching" /\ outcome' = Loaded(id', lost) /\ Stamped(id') /\ id' \in Ids
    <3>1. outcome'.id = id' /\ outcome'.fresh = FALSE
      BY <2>4 DEF Loaded
    <3>2. ASSUME id' \notin removing', ~outcome'.unread
          PROVE  outcome'.whole
      <4>1. files[id'] = EntryFileNames
        BY <2>2, <2>4, <3>2 DEF Stamped, Complete, Has, PartsInv, FoldersWithAStampAreWhole
      <4>2. "patches" \in files[id'] /\ "code" \in files[id']
        BY <4>1 DEF EntryFileNames, EntryFiles
      <4>3. <<id', "patches">> \notin lost /\ <<id', "code">> \notin lost
        BY <2>4, <3>2 DEF Loaded
      <4>4. Has(id', "patches", lost) /\ Has(id', "code", lost)
        BY <4>2, <4>3 DEF Has
      <4> QED
        BY <2>4, <4>4, Zenon DEF Loaded
    <3> QED
      BY <1>2, <2>2, <2>4, <3>1, <3>2 DEF PartsInv
  <2> QED
    BY <2>1, <2>3, <2>4 DEF StartedWith
<1>4. ASSUME UNCHANGED <<files, removing>>, outcome' = NoOutcome
      PROVE  PartsInv'
  BY <1>2, <1>4 DEF PartsInv, NoOutcome
<1>5. ASSUME UNCHANGED <<files, removing, outcome>>, pc \notin {"touching", "serving"}
      PROVE  PartsInv'
  BY <1>2, <1>5 DEF PartsInv
<1>6. CASE GoAhead \/ EndCollect \/ StartEvict \/ WriteRecent \/ \E i \in Ids : PickVictim(i)
  BY <1>5, <1>6 DEF GoAhead, EndCollect, StartEvict, WriteRecent, PickVictim, card
<1>7. CASE Cancel \/ Close
  BY <1>4, <1>7 DEF Cancel, Serve, Close, Forget, card
<1>8. ASSUME NEW i \in Ids, RemoveFile(i) \/ RemoveDir(i)
      PROVE  FoldersWithAStampAreWhole'
  <2>1. CASE RemoveFile(i)
    BY <2>1, RemovedFile DEF PartsInv, FoldersWithAStampAreWhole
  <2>2. CASE RemoveDir(i)
    BY <2>2 DEF RemoveDir, PartsInv, FoldersWithAStampAreWhole
  <2> QED
    BY <1>8, <2>1, <2>2
<1>9. ASSUME BeginRemoves
      PROVE  PartsInv'
  <2>1. id \in Ids /\ pc = "begin"
    BY <1>9 DEF BeginRemoves, TypeOK
  <2>2. CASE (RemoveFile(id) \/ RemoveDir(id)) /\ UNCHANGED outcome
    BY <1>8, <2>1, <2>2 DEF PartsInv
  <2>3. CASE Serve(NoOutcome) /\ UNCHANGED card
    BY <1>4, <2>3 DEF Serve, card
  <2> QED
    BY <1>9, <2>2, <2>3 DEF BeginRemoves
<1>10. CASE BeginCreates
  BY <1>4, <1>5, <1>10 DEF BeginCreates, Serve
<1>11. CASE MergeDone
  BY <1>2, <1>11 DEF MergeDone, PartsInv, card
<1>12. ASSUME NEW i \in Ids, pc = "saving", i = id, UNCHANGED removing,
              files' = [files EXCEPT ![i] = @ \cup {EntryFiles[nextFile]}]
       PROVE  FoldersWithAStampAreWhole'
  <2>1. /\ files'[i] = {EntryFiles[n] : n \in 1..nextFile}
        /\ \A j \in Ids : j # i => files'[j] = files[j]
    BY <1>12 DEF FoldersInv, TypeOK
  <2>2. "stamp" \in files'[i] => files'[i] = EntryFileNames
    <3>1. SUFFICES ASSUME "stamp" \in files'[i] PROVE nextFile = 8
      BY <2>1 DEF EntryFileNames
    <3>2. PICK n \in 1..nextFile : EntryFiles[n] = "stamp"
      BY <2>1, <3>1
    <3> QED
      BY <3>2, FilesOfAFolder DEF TypeOK
  <2> QED
    BY <1>12, <2>1, <2>2 DEF PartsInv, FoldersWithAStampAreWhole
<1>13. ASSUME SaveFile
       PROVE  PartsInv'
  <2>1. pc = "saving" /\ id \in Ids /\ UNCHANGED <<outcome, removing>>
    BY <1>13 DEF SaveFile, FoldersInv
  <2>2. FoldersWithAStampAreWhole'
    BY <1>2, <1>12, <1>13, <2>1 DEF SaveFile
  <2> QED
    BY <2>1, <2>2 DEF PartsInv
<1>14. CASE Touch
  <2>1. pc = "touching" /\ pc' = (IF outcome.fresh THEN "evict" ELSE "serving") /\ UNCHANGED <<files, removing, outcome>>
    BY <1>14 DEF Touch
  <2> QED
    BY <1>2, <2>1 DEF PartsInv
<1>15. ASSUME EvictRemoves
       PROVE  PartsInv'
  <2>1. victim \in Ids /\ pc = "evicting" /\ UNCHANGED <<outcome, pc>>
    BY <1>15 DEF EvictRemoves, TypeOK
  <2>2. CASE RemoveFile(victim) \/ RemoveDir(victim)
    BY <1>8, <2>1, <2>2 DEF PartsInv
  <2>3. CASE UNCHANGED card
    BY <1>5, <2>1, <2>3 DEF card
  <2> QED
    BY <1>15, <2>2, <2>3 DEF EvictRemoves
<1>16. ASSUME Crash
       PROVE  PartsInv'
  <2>1. outcome' = NoOutcome /\ UNCHANGED removing
    BY <1>16 DEF Crash, Interrupted, Forget, card
  <2>2. \/ UNCHANGED files
        \/ pc = "saving" /\ id \in Ids /\ files' = [files EXCEPT ![id] = @ \cup {EntryFiles[nextFile]}]
    BY <1>16 DEF Crash, Interrupted, FoldersInv, card
  <2>3. FoldersWithAStampAreWhole'
    BY <1>2, <1>12, <2>1, <2>2
  <2> QED
    BY <2>1, <2>3 DEF PartsInv, NoOutcome
<1>17. CASE \E c \in Contents : Put(c) \/ Collect(c)
  BY <1>5, <1>17 DEF Put, Collect
<1>18. CASE \E f \in ModFiles : RemoveMod(f) \/ InstallMod(f)
  BY <1>5, <1>18 DEF RemoveMod, InstallMod
<1> QED
  BY <1>1, <1>3, <1>6, <1>7, <1>9, <1>10, <1>11, <1>13, <1>14, <1>15, <1>16, <1>17, <1>18 DEF Next, Step

\* merge_cache.rs:17: wherever the power went, whatever failed and in whatever
\* order folders are removed, a merge is served without its patches or its modules
\* only if the removal of its folder was cut short, or they could not be read in
\* this session: never because its writing was.
THEOREM OnlyRemovalsHalve == Spec => []OnlyRemovalsLeaveHalf
<1>1. Init => PartsInv
  BY DEF Init, PartsInv, FoldersWithAStampAreWhole, NoOutcome
<1>2. TypeOK /\ FoldersInv /\ PartsInv /\ [Next]_vars => PartsInv'
  BY PartsStep
<1>3. PartsInv => OnlyRemovalsLeaveHalf
  BY DEF PartsInv, OnlyRemovalsLeaveHalf
<1> QED
  BY <1>1, <1>2, <1>3, TypesAndFolders, PTL DEF Spec

-----------------------------------------------------------------------------
(* The links.                                                              *)

LEMMA LinksStep ==
  ASSUME TypeOK, FoldersInv, LinksInv, AtBoot \subseteq {TRUE}, [Next]_vars
  PROVE  LinksInv'
<1> USE CacheAssumption
<1>1. ASSUME UNCHANGED <<recorded, modFiles>>, pc \notin {"off", "serving"}, pc' \notin {"off", "merging", "saving"},
             id' = id, outcome' \in {outcome, NoOutcome}
      PROVE  LinksInv'
  BY <1>1 DEF LinksInv, NoOutcome
<1>2. CASE UNCHANGED vars
  BY <1>2 DEF LinksInv, vars, card, session
<1>3. ASSUME NEW plan \in Plans, NEW game \in Games, NEW needed \in LocaleLists, NEW force \in BOOLEAN,
             NEW atBoot \in AtBoot, Start(plan, game, needed, force, atBoot)
      PROVE  LinksInv'
  <2>1. atBoot
    OBVIOUS
  <2>2. /\ pc = "off" /\ Linked[plan] \subseteq modFiles /\ UNCHANGED <<recorded, modFiles, got>> /\ id' \in Ids
        /\ \/ pc' = "comparing" /\ outcome' = outcome /\ id'.plan = plan
           \/ pc' = "touching" /\ outcome'.links = recorded[id'].links /\ id'.plan = plan
    <3>1. /\ pc = "off" /\ Linked[plan] \subseteq modFiles
          /\ UNCHANGED <<recorded, modFiles, got>> /\ id' \in Ids
          /\ \/ pc' = "comparing" /\ outcome' = outcome /\ id' = [plan |-> plan, game |-> game, locales |-> needed]
             \/ pc' = "touching" /\ outcome'.links = recorded[id'].links /\ (atBoot => id'.plan = plan)
      BY <1>3, Started DEF StartedWith, Loaded, card
    <3> QED
      BY <2>1, <3>1
  <2>3. outcome'.links \subseteq modFiles
    BY <2>2 DEF LinksInv
  <2> QED
    BY <2>2, <2>3 DEF LinksInv
<1>4. CASE GoAhead \/ Cancel \/ EndCollect \/ StartEvict \/ Touch \/ WriteRecent
  BY <1>1, <1>4 DEF GoAhead, Cancel, Serve, EndCollect, StartEvict, Touch, WriteRecent, card, session
<1>5. CASE \E c \in Contents : Collect(c)
  BY <1>1, <1>5 DEF Collect
<1>6. CASE \E i \in Ids : PickVictim(i)
  BY <1>1, <1>6 DEF PickVictim, card
<1>7. ASSUME NEW i \in Ids, RemoveFile(i) \/ RemoveDir(i)
      PROVE  (\A j \in Ids : recorded'[j].links \subseteq Linked[j.plan]) /\ UNCHANGED modFiles
  <2>1. recorded' \in {recorded, [recorded EXCEPT ![i] = Nothing]} /\ UNCHANGED modFiles
    BY <1>7 DEF RemoveFile, RemoveDir
  <2>2. Nothing.links = {}
    BY DEF Nothing
  <2> QED
    BY <2>1, <2>2 DEF LinksInv, TypeOK
<1>8. ASSUME BeginRemoves
      PROVE  LinksInv'
  <2>1. id \in Ids /\ pc = "begin" /\ id' = id
    BY <1>8 DEF BeginRemoves, session, TypeOK
  <2>2. CASE (RemoveFile(id) \/ RemoveDir(id)) /\ UNCHANGED <<pc, outcome>>
    BY <1>7, <2>1, <2>2 DEF LinksInv
  <2>3. CASE Serve(NoOutcome) /\ UNCHANGED card
    BY <1>1, <2>1, <2>3 DEF Serve, card
  <2> QED
    BY <1>8, <2>2, <2>3 DEF BeginRemoves
<1>9. ASSUME BeginCreates
      PROVE  LinksInv'
  <2>1. pc = "begin" /\ UNCHANGED <<id, recorded, modFiles>>
    BY <1>9 DEF BeginCreates
  <2>2. CASE pc' = "merging" /\ got' = [merged |-> {}, code |-> {}, links |-> Linked[id.plan]] /\ UNCHANGED outcome
    BY <2>1, <2>2 DEF LinksInv
  <2>3. CASE Serve(NoOutcome)
    BY <1>1, <2>1, <2>3 DEF Serve
  <2> QED
    BY <1>9, <2>2, <2>3 DEF BeginCreates
<1>10. ASSUME NEW c \in Contents, Put(c)
       PROVE  LinksInv'
  <2>1. pc = "merging" /\ UNCHANGED <<recorded, modFiles, pc, outcome, id>> /\ got'.links = got.links
    BY <1>10 DEF Put, TypeOK, Results
  <2> QED
    BY <2>1 DEF LinksInv
<1>11. CASE MergeDone
  <2>1. /\ pc = "merging" /\ pc' = "saving" /\ UNCHANGED <<recorded, modFiles, id, got>>
        /\ outcome'.links = got.links
    BY <1>11 DEF MergeDone, card
  <2> QED
    BY <2>1 DEF LinksInv
<1>12. ASSUME SaveFile
       PROVE  LinksInv'
  <2>1. /\ pc = "saving" /\ pc' \in {"saving", "touching", "evict"}
        /\ UNCHANGED <<modFiles, outcome, id, got>>
        /\ recorded' \in {recorded, [recorded EXCEPT ![id] = got]}
    BY <1>12 DEF SaveFile
  <2>2. \A j \in Ids : recorded'[j].links \subseteq Linked[j.plan]
    BY <2>1 DEF LinksInv, TypeOK
  <2> QED
    BY <2>1, <2>2 DEF LinksInv
<1>13. ASSUME EvictRemoves
       PROVE  LinksInv'
  <2>1. victim \in Ids /\ pc = "evicting" /\ UNCHANGED <<pc, id, outcome>>
    BY <1>13 DEF EvictRemoves, TypeOK
  <2>2. (\A j \in Ids : recorded'[j].links \subseteq Linked[j.plan]) /\ UNCHANGED modFiles
    BY <1>7, <1>13, <2>1 DEF EvictRemoves, card, LinksInv
  <2> QED
    BY <2>1, <2>2 DEF LinksInv
<1>14. ASSUME Close \/ Crash
       PROVE  LinksInv'
  <2>1. Forget /\ UNCHANGED recorded
    BY <1>14 DEF Close, Crash, Interrupted, card
  <2> QED
    BY <2>1 DEF Forget, NoOutcome, LinksInv
<1>15. CASE \E f \in ModFiles : RemoveMod(f) \/ InstallMod(f)
  <2>1. pc = "off" /\ UNCHANGED <<pc, recorded, outcome>>
    BY <1>15 DEF RemoveMod, InstallMod
  <2> QED
    BY <2>1 DEF LinksInv
<1> QED
  BY <1>2, <1>3, <1>4, <1>5, <1>6, <1>8, <1>9, <1>10, <1>11, <1>12, <1>13, <1>14, <1>15 DEF Next, Step

\* vfs.rs open_file_hook: with merge_at_boot on, the files of mods served where
\* they are, are there, whatever fails.
THEOREM LinksAreThere ==
  ASSUME AtBoot \subseteq {TRUE}
  PROVE  Spec => []ServedLinksExist
<1>1. Init => LinksInv
  BY DEF Init, LinksInv, NoOutcome, Nothing
<1>2. TypeOK /\ FoldersInv /\ LinksInv /\ [Next]_vars => LinksInv'
  BY LinksStep
<1>3. LinksInv => ServedLinksExist
  BY DEF LinksInv, ServedLinksExist
<1> QED
  BY <1>1, <1>2, <1>3, TypesAndFolders, PTL DEF Spec
=============================================================================
