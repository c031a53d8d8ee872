------------------------- MODULE MergeCacheRefines -------------------------
(***************************************************************************)
(* MergeCache implements MergeLru while nothing fails: the list on the SD  *)
(* card is that of the merges used last, whatever touch, evict and the     *)
(* listing of the folders do to it on the way.                             *)
(***************************************************************************)
EXTENDS MergeCacheProofs

\* What MergeLru sees of a list.
Newest(list) == SubSeq(list, 1, IF Len(list) < Keep THEN Len(list) ELSE Keep)

-----------------------------------------------------------------------------
(* Lists.                                                                  *)

\* The merges seen of a list are the first ones.
LEMMA NewestOnes ==
  ASSUME NEW list \in Seq(Ids)
  PROVE  /\ Newest(list) \in Seq(Ids)
         /\ Len(list) < Keep => Newest(list) = list
         /\ Keep <= Len(list) => Len(Newest(list)) = Keep
         /\ \A n \in 1..Len(list) : n <= Keep => Newest(list)[n] = list[n]
<1>1. Len(list) \in Nat /\ Keep \in Nat
  BY LenProperties, CacheAssumption
<1>2. CASE Len(list) < Keep
  <2>1. Newest(list) = list
    BY <1>2, SubSeqFull DEF Newest
  <2> QED
    BY <1>1, <1>2, <2>1
<1>3. CASE Keep <= Len(list)
  <2>1. Newest(list) = SubSeq(list, 1, Keep)
    BY <1>1, <1>3 DEF Newest
  <2> QED
    BY <1>1, <1>3, <2>1, FirstEntries
<1> QED
  BY <1>1, <1>2, <1>3

\* A list seen no further than its Keep first merges.
LEMMA SameNewest ==
  ASSUME NEW a \in Seq(Ids), NEW b \in Seq(Ids), Keep <= Len(a), Keep <= Len(b),
         \A n \in 1..Keep : a[n] = b[n]
  PROVE  Newest(a) = Newest(b)
<1>1. Keep \in Nat /\ Len(a) \in Nat /\ Len(b) \in Nat
  BY LenProperties, CacheAssumption
<1>2. /\ Newest(a) \in Seq(Ids) /\ Newest(b) \in Seq(Ids) /\ Len(Newest(a)) = Keep /\ Len(Newest(b)) = Keep
      /\ \A n \in 1..Keep : Newest(a)[n] = a[n] /\ Newest(b)[n] = b[n]
  BY <1>1, NewestOnes
<1> QED
  BY <1>2, SeqEqual

\* One merge put first in a list.
LEMMA PutFirst ==
  ASSUME NEW m \in Ids, NEW list \in Seq(Ids)
  PROVE  /\ <<m>> \o list \in Seq(Ids) /\ Len(<<m>> \o list) = Len(list) + 1
         /\ (<<m>> \o list)[1] = m
         /\ \A n \in 1..Len(list) : (<<m>> \o list)[n + 1] = list[n]
<1>1. <<m>> \in Seq(Ids) /\ Len(<<m>>) = 1 /\ <<m>>[1] = m /\ Len(list) \in Nat
  BY LenProperties
<1>2. /\ <<m>> \o list \in Seq(Ids) /\ Len(<<m>> \o list) = 1 + Len(list)
      /\ \A n \in 1..(1 + Len(list)) : (<<m>> \o list)[n] = IF n <= 1 THEN <<m>>[n] ELSE list[n - 1]
  BY <1>1, ConcatProperties
<1>3. ASSUME NEW n \in 1..Len(list)
      PROVE  (<<m>> \o list)[n + 1] = list[n]
  <2>1. n + 1 \in 1..(1 + Len(list)) /\ ~(n + 1 <= 1) /\ (n + 1) - 1 = n
    BY <1>1
  <2> QED
    BY <1>2, <2>1
<1> QED
  BY <1>1, <1>2, <1>3

\* Where a merge is taken out of a list is the same whether or not one sees what
\* comes after the Keep first ones.
LEMMA RemovedFromTheNewest ==
  ASSUME NEW list \in Seq(Ids), Keep <= Len(list), NEW m,
         NEW newest \in Seq(Ids), Len(newest) = Keep, \A n \in 1..Keep : newest[n] = list[n],
         NEW all, all = RemoveFirst(list, m),
         NEW seen, seen = RemoveFirst(newest, m)
  PROVE  /\ all \in Seq(Ids) /\ seen \in Seq(Ids)
         /\ Keep - 1 <= Len(all) /\ Keep - 1 <= Len(seen)
         /\ \A n \in 1..(Keep - 1) : all[n] = seen[n]
<1>1. /\ Keep \in Nat \ {0} /\ Len(list) \in Nat /\ newest \in Seq(Ids) /\ Len(newest) = Keep
      /\ \A n \in 1..Keep : newest[n] = list[n]
      /\ DOMAIN list = 1..Len(list) /\ DOMAIN newest = 1..Keep
  BY LenProperties, CacheAssumption
<1>2. all \in Seq(Ids) /\ TakenOut(all, list, m)
  BY Removed
<1>3. seen \in Seq(Ids) /\ TakenOut(seen, newest, m)
  BY Removed
<1>4. CASE m \notin ToSet(newest) /\ seen = newest
  <2>1. \A n \in 1..Keep : list[n] # m
    BY <1>1, <1>4 DEF ToSet
  <2>2. CASE all = list
    BY <1>1, <1>4, <2>2
  <2>3. ASSUME NEW k \in 1..Len(list), list[k] = m, Len(all) = Len(list) - 1,
               \A n \in 1..(Len(list) - 1) : all[n] = IF n < k THEN list[n] ELSE list[n + 1]
        PROVE  Keep - 1 <= Len(all) /\ \A n \in 1..(Keep - 1) : all[n] = list[n]
    <3>1. k \notin 1..Keep
      BY <2>1, <2>3
    <3>2. k \in Nat /\ Keep < k
      BY <1>1, <3>1
    <3> QED
      BY <1>1, <2>3, <3>2
  <2>4. Keep - 1 <= Len(all) /\ \A n \in 1..(Keep - 1) : all[n] = list[n]
    BY <1>1, <1>2, <2>2, <2>3 DEF TakenOut
  <2> QED
    BY <1>1, <1>2, <1>3, <1>4, <2>4
<1>5. ASSUME NEW k \in 1..Len(newest), newest[k] = m, \A n \in 1..(k - 1) : newest[n] # m,
             Len(seen) = Len(newest) - 1,
             \A n \in 1..(Len(newest) - 1) : seen[n] = IF n < k THEN newest[n] ELSE newest[n + 1]
      PROVE  /\ Keep - 1 <= Len(all) /\ Keep - 1 <= Len(seen)
             /\ \A n \in 1..(Keep - 1) : all[n] = seen[n]
  <2>1. k \in 1..Keep /\ list[k] = m /\ \A n \in 1..(k - 1) : list[n] # m
    BY <1>1, <1>5
  <2>2. m \in ToSet(list)
    BY <1>1, <2>1 DEF ToSet
  <2>3. PICK j \in 1..Len(list) :
          /\ list[j] = m /\ \A n \in 1..(j - 1) : list[n] # m
          /\ Len(all) = Len(list) - 1
          /\ \A n \in 1..(Len(list) - 1) : all[n] = IF n < j THEN list[n] ELSE list[n + 1]
    BY <1>2, <2>2 DEF TakenOut
  <2>4. j = k
    BY <1>1, <2>1, <2>3
  <2>5. ASSUME NEW n \in 1..(Keep - 1)
        PROVE  all[n] = seen[n]
    <3>1. n \in 1..(Len(list) - 1) /\ n \in 1..(Len(newest) - 1) /\ n \in 1..Keep /\ n + 1 \in 1..Keep
      BY <1>1
    <3>2. all[n] = IF n < k THEN list[n] ELSE list[n + 1]
      BY <2>3, <2>4, <3>1
    <3>3. seen[n] = IF n < k THEN newest[n] ELSE newest[n + 1]
      BY <1>5, <3>1
    <3> QED
      BY <1>1, <3>1, <3>2, <3>3
  <2> QED
    BY <1>1, <1>5, <2>3, <2>5
<1> QED
  BY <1>2, <1>3, <1>4, <1>5 DEF TakenOut

\* Only what is seen of a list decides what is seen of it once a merge is put first.
LEMMA NewestAfterAUse ==
  ASSUME NEW list \in Seq(Ids), NEW m \in Ids
  PROVE  Newest(<<m>> \o RemoveFirst(list, m)) = Newest(<<m>> \o RemoveFirst(Newest(list), m))
<1>1. Len(list) \in Nat /\ Keep \in Nat
  BY LenProperties, CacheAssumption
<1>2. CASE Len(list) < Keep
  BY <1>2, NewestOnes
<1>3. CASE Keep <= Len(list)
  <2> DEFINE all == RemoveFirst(list, m)
             seen == RemoveFirst(Newest(list), m)
  <2>1. /\ all \in Seq(Ids) /\ seen \in Seq(Ids) /\ Keep - 1 <= Len(all) /\ Keep - 1 <= Len(seen)
        /\ \A n \in 1..(Keep - 1) : all[n] = seen[n]
    <3>1. /\ Newest(list) \in Seq(Ids) /\ Len(Newest(list)) = Keep
          /\ \A n \in 1..Keep : Newest(list)[n] = list[n]
      BY <1>1, <1>3, NewestOnes
    <3> QED
      BY <1>3, <3>1, RemovedFromTheNewest
  <2> HIDE DEF all, seen
  <2>2. Keep \in Nat \ {0} /\ Len(all) \in Nat /\ Len(seen) \in Nat
    BY <2>1, LenProperties, CacheAssumption
  <2>3. /\ <<m>> \o all \in Seq(Ids) /\ Len(<<m>> \o all) = Len(all) + 1 /\ (<<m>> \o all)[1] = m
        /\ \A n \in 1..Len(all) : (<<m>> \o all)[n + 1] = all[n]
    BY <2>1, PutFirst
  <2>4. /\ <<m>> \o seen \in Seq(Ids) /\ Len(<<m>> \o seen) = Len(seen) + 1 /\ (<<m>> \o seen)[1] = m
        /\ \A n \in 1..Len(seen) : (<<m>> \o seen)[n + 1] = seen[n]
    BY <2>1, PutFirst
  <2>5. ASSUME NEW n \in 1..Keep
        PROVE  (<<m>> \o all)[n] = (<<m>> \o seen)[n]
    <3>1. CASE n = 1
      BY <2>3, <2>4, <3>1
    <3>2. CASE n # 1
      <4>1. n - 1 \in 1..(Keep - 1) /\ n - 1 \in 1..Len(all) /\ n - 1 \in 1..Len(seen) /\ (n - 1) + 1 = n
        BY <2>1, <2>2, <3>2
      <4>2. (<<m>> \o all)[n] = all[n - 1] /\ (<<m>> \o seen)[n] = seen[n - 1]
        BY <2>3, <2>4, <4>1
      <4> QED
        BY <2>1, <4>1, <4>2
    <3> QED
      BY <3>1, <3>2
  <2>6. Keep <= Len(<<m>> \o all) /\ Keep <= Len(<<m>> \o seen)
    BY <2>1, <2>2, <2>3, <2>4
  <2>7. Newest(<<m>> \o all) = Newest(<<m>> \o seen)
    BY <2>3, <2>4, <2>5, <2>6, SameNewest
  <2> QED
    BY <2>7 DEF all, seen
<1> QED
  BY <1>1, <1>2, <1>3

\* Two lists of the same merges, one ordered by the other, are the same list.
LEMMA SameOrder ==
  ASSUME NEW a \in Seq(Ids), NEW b \in Seq(Ids), Distinct(a), Distinct(b), ToSet(a) = ToSet(b),
         \A m, n \in DOMAIN b : m < n => \A i, j \in DOMAIN a : a[i] = b[n] /\ a[j] = b[m] => ~(i < j)
  PROVE  a = b
<1>1. /\ Len(a) \in Nat /\ Len(b) \in Nat /\ DOMAIN a = 1..Len(a) /\ DOMAIN b = 1..Len(b)
  BY LenProperties
<1>2. Len(a) = Len(b)
  BY DistinctLists
<1>3. \A n \in DOMAIN a : a[n] = b[n]
  <2> DEFINE wrong == {n \in DOMAIN a : a[n] # b[n]}
  <2>1. SUFFICES ASSUME wrong # {} PROVE FALSE
    OBVIOUS
  <2>2. PICK n \in wrong : \A x \in wrong : n <= x
    <3>1. wrong \in SUBSET Nat
      BY <1>1
    <3> QED
      BY <2>1, <3>1, LeastNumber
  <2>3. n \in DOMAIN a /\ a[n] # b[n] /\ \A x \in DOMAIN a : x < n => a[x] = b[x]
    BY <1>1, <2>2
  <2>4. PICK m \in DOMAIN b : b[m] = a[n]
    BY <2>3 DEF ToSet
  <2>5. n < m
    BY <1>1, <1>2, <2>3, <2>4 DEF Distinct
  <2>6. PICK j \in DOMAIN a : a[j] = b[n]
    BY <1>1, <1>2, <2>3 DEF ToSet
  <2>7. n < j
    BY <1>1, <1>2, <2>3, <2>6 DEF Distinct
  <2> QED
    BY <1>1, <1>2, <2>3, <2>4, <2>5, <2>6, <2>7
<1> QED
  BY <1>1, <1>2, <1>3, SeqEqual

\* When the folders are those of the list, entries gives them as it lists them.
LEMMA ListedAsTheyAre ==
  ASSUME TypeOK, FoldersInv, dirs = ToSet(recent), \A i \in dirs : Complete(i, {}), NEW list \in EntryLists({})
  PROVE  list = recent
<1>1. Recent({}) = recent /\ Folders({}) = dirs
  BY DEF Recent, Folders
<1>2. {i \in ToSet(Recent({})) \cup Folders({}) : Complete(i, {})} = dirs
  BY <1>1
<1>3. /\ list \in SetToSeqs(dirs)
      /\ \A m, n \in DOMAIN list : m < n => ~ListedBefore(list[n], list[m], recent)
  BY <1>1, <1>2 DEF EntryLists
<1>4. list \in Seq(dirs) /\ Distinct(list) /\ ToSet(list) = dirs
  BY <1>3, ListOfASet DEF TypeOK
<1>5. list \in Seq(Ids) /\ recent \in Seq(Ids) /\ Distinct(recent)
  BY <1>4, SeqMonotonic DEF TypeOK, FoldersInv
<1>6. ASSUME NEW m \in DOMAIN list, NEW n \in DOMAIN list, m < n, NEW i \in DOMAIN recent, NEW j \in DOMAIN recent,
             recent[i] = list[n], recent[j] = list[m], i < j
      PROVE  FALSE
  <2>1. \A k \in 1..i : recent[k] # list[m]
    BY <1>5, <1>6, LenProperties DEF Distinct
  <2>2. ListedBefore(list[n], list[m], recent)
    BY <1>6, <2>1 DEF ListedBefore
  <2> QED
    BY <1>3, <1>6, <2>2
<1> QED
  BY <1>4, <1>5, <1>6, SameOrder

\* What a merge put first makes of the merges listed.
LEMMA MovedFirstLists ==
  ASSUME recent \in Seq(Ids), Distinct(recent), id \in Ids
  PROVE  ToSet(MovedFirst) = ToSet(recent) \cup {id}
<1> DEFINE rest == RemoveFirst(recent, id)
<1>1. rest \in Seq(Ids) /\ TakenOut(rest, recent, id)
  BY Removed
<1>2. Len(rest) \in Nat /\ Len(recent) \in Nat /\ DOMAIN rest = 1..Len(rest) /\ DOMAIN recent = 1..Len(recent)
  BY <1>1, LenProperties
<1> HIDE DEF rest
<1>3. ToSet(rest) \cup {id} = ToSet(recent) \cup {id}
  <2>1. CASE id \notin ToSet(recent) /\ rest = recent
    BY <2>1
  <2>2. ASSUME NEW k \in 1..Len(recent), recent[k] = id, Len(rest) = Len(recent) - 1,
               \A n \in 1..(Len(recent) - 1) : rest[n] = IF n < k THEN recent[n] ELSE recent[n + 1]
        PROVE  ToSet(rest) \cup {id} = ToSet(recent) \cup {id}
    <3>1. \A n \in DOMAIN rest : rest[n] \in ToSet(recent)
      BY <1>2, <2>2 DEF ToSet
    <3>2. ASSUME NEW n \in DOMAIN recent, n # k
          PROVE  recent[n] \in ToSet(rest)
      <4>1. CASE n < k
        BY <1>2, <2>2, <4>1 DEF ToSet
      <4>2. CASE k < n
        <5>1. n - 1 \in DOMAIN rest /\ ~(n - 1 < k) /\ (n - 1) + 1 = n
          BY <1>2, <2>2, <4>2
        <5>2. rest[n - 1] = recent[n]
          BY <1>2, <2>2, <5>1
        <5> QED
          BY <5>1, <5>2 DEF ToSet
      <4> QED
        BY <1>2, <3>2, <4>1, <4>2
    <3> QED
      BY <2>2, <3>1, <3>2 DEF ToSet
  <2> QED
    BY <1>1, <2>1, <2>2 DEF TakenOut
<1>4. /\ <<id>> \o rest \in Seq(Ids) /\ Len(<<id>> \o rest) = Len(rest) + 1 /\ (<<id>> \o rest)[1] = id
      /\ \A n \in 1..Len(rest) : (<<id>> \o rest)[n + 1] = rest[n]
  BY <1>1, PutFirst
<1>5. ToSet(<<id>> \o rest) = {id} \cup ToSet(rest)
  <2>1. DOMAIN (<<id>> \o rest) = 1..(Len(rest) + 1)
    BY <1>4, LenProperties
  <2>2. \A n \in DOMAIN (<<id>> \o rest) : n # 1 => n - 1 \in DOMAIN rest /\ (n - 1) + 1 = n
    BY <1>2, <2>1
  <2>3. \A n \in DOMAIN rest : n + 1 \in DOMAIN (<<id>> \o rest)
    BY <1>2, <2>1
  <2>4. 1 \in DOMAIN (<<id>> \o rest)
    BY <1>2, <2>1
  <2>5. \A n \in DOMAIN (<<id>> \o rest) : (<<id>> \o rest)[n] \in {id} \cup ToSet(rest)
    BY <1>2, <1>4, <2>2 DEF ToSet
  <2>6. \A n \in DOMAIN rest : rest[n] \in ToSet(<<id>> \o rest)
    BY <1>2, <1>4, <2>3 DEF ToSet
  <2>7. id \in ToSet(<<id>> \o rest)
    BY <1>4, <2>4 DEF ToSet
  <2> QED
    BY <2>5, <2>6, <2>7 DEF ToSet
<1> QED
  BY <1>3, <1>5 DEF MovedFirst, rest

LEMMA NewestTwice ==
  ASSUME NEW list \in Seq(Ids)
  PROVE  Newest(Newest(list)) = Newest(list)
<1>1. Len(list) \in Nat /\ Keep \in Nat
  BY LenProperties, CacheAssumption
<1>2. CASE Len(list) < Keep
  BY <1>2, NewestOnes
<1>3. CASE Keep <= Len(list)
  <2>1. Newest(list) \in Seq(Ids) /\ Len(Newest(list)) = Keep
    BY <1>3, NewestOnes
  <2>2. ~(Len(Newest(list)) < Keep)
    BY <1>1, <2>1
  <2>3. Newest(Newest(list)) = SubSeq(Newest(list), 1, Len(Newest(list)))
    BY <2>1, <2>2 DEF Newest
  <2> QED
    BY <2>1, <2>3, SubSeqFull
<1> QED
  BY <1>1, <1>2, <1>3

-----------------------------------------------------------------------------
(* The list and the folders, while nothing fails.                          *)

\* The folders are those of the list, but for the merge being made; eviction
\* keeps the first ones of the list.
ListInv ==
  /\ pc \in {"off", "comparing", "touching", "evict", "collecting", "serving"} => \A i \in dirs : Complete(i, {})
  /\ pc \in {"off", "comparing", "evict", "collecting", "serving"} => dirs = ToSet(recent)
  /\ pc \in {"begin", "merging", "saving"} => \A i \in dirs \ {id} : Complete(i, {})
  /\ pc \in {"begin", "merging", "saving", "touching"} => dirs \ {id} = ToSet(recent) \ {id}
  /\ pc = "touching" => id \in dirs
  /\ pc = "evicting" => kept = Newest(recent) /\ \A i \in ToSet(kept) : Complete(i, {})

LEMMA NothingFails ==
  ASSUME TypeOK, MaxFaults = 0, MaxCrashes = 0
  PROVE  faults = 0 /\ ~Fault /\ ~Crash
BY DEF TypeOK, Fault, Crash

\* Without a fault, the list becomes that of the merges kept.
LEMMA WritesWhatIsKept ==
  ASSUME ~Fault, WriteRecent
  PROVE  /\ pc = "evicting" /\ pc' \in {"collecting", "serving"} /\ victim = NoId /\ victims = {}
         /\ recent' = kept /\ UNCHANGED <<dirs, files, outcome>>
BY DEF WriteRecent

LEMMA ListStep ==
  ASSUME TypeOK, FoldersInv, CallsInv, ListInv, MaxFaults = 0, MaxCrashes = 0, [Next]_vars
  PROVE  ListInv'
<1>0. faults = 0 /\ ~Fault /\ ~Crash
  BY NothingFails
<1>1. ASSUME UNCHANGED <<dirs, files>>
      PROVE  \A i : Complete(i, {})' <=> Complete(i, {})
  BY <1>1 DEF Complete, Has
<1>2. CASE UNCHANGED vars
  BY <1>1, <1>2 DEF ListInv, vars, card, session
<1>3. ASSUME NEW plan \in Plans, NEW game \in Games, NEW needed \in LocaleLists, NEW force \in BOOLEAN,
             NEW atBoot \in AtBoot, Start(plan, game, needed, force, atBoot)
      PROVE  ListInv'
  <2>1. /\ pc = "off" /\ UNCHANGED <<dirs, files, recent>>
        /\ pc' = "comparing" \/ (pc' = "touching" /\ Stamped(id'))
    BY <1>0, <1>3, Started, StartedWithoutAFault DEF StartedWith, card
  <2> QED
    BY <1>1, <2>1 DEF ListInv, Stamped, Complete, Has
<1>4. CASE GoAhead \/ Cancel \/ EndCollect \/ Close
  <2>1. /\ \/ pc = "comparing" /\ pc' \in {"begin", "serving"} /\ id' = id
           \/ pc = "collecting" /\ pc' = "serving"
           \/ pc = "serving" /\ pc' = "off"
        /\ UNCHANGED <<dirs, files, recent>>
    BY <1>4 DEF GoAhead, Cancel, Serve, EndCollect, Close, Forget, card, session
  <2> QED
    BY <1>1, <2>1 DEF ListInv
<1>5. ASSUME BeginRemoves
      PROVE  ListInv'
  <2>1. pc = "begin" /\ pc' = "begin" /\ id' = id /\ id \in Ids /\ (RemoveFile(id) \/ RemoveDir(id))
    BY <1>0, <1>5 DEF BeginRemoves, session, TypeOK
  <2>2. recent' = recent /\ dirs' \ {id} = dirs \ {id} /\ \A i \in dirs \ {id} : files'[i] = files[i]
    BY <2>1 DEF RemoveFile, RemoveDir, TypeOK
  <2>3. \A i \in dirs \ {id} : i \in dirs' /\ (Complete(i, {})' <=> Complete(i, {}))
    BY <2>2 DEF Complete, Has
  <2> QED
    BY <2>1, <2>2, <2>3 DEF ListInv
<1>6. ASSUME BeginCreates
      PROVE  ListInv'
  <2>1. pc = "begin" /\ pc' = "merging" /\ dirs' = dirs \cup {id} /\ UNCHANGED <<id, files, recent>>
    BY <1>0, <1>6 DEF BeginCreates
  <2>2. \A i \in dirs \ {id} : Complete(i, {})' <=> Complete(i, {})
    BY <2>1 DEF Complete, Has
  <2> QED
    BY <2>1, <2>2 DEF ListInv
<1>7. CASE MergeDone \/ \E c \in Contents : Put(c)
  <2>1. pc = "merging" /\ pc' \in {"merging", "saving"} /\ UNCHANGED <<id, dirs, files, recent>>
    BY <1>7 DEF MergeDone, Put, card
  <2> QED
    BY <1>1, <2>1 DEF ListInv
<1>8. ASSUME SaveFile
      PROVE  ListInv'
  <2>1. /\ pc = "saving" /\ id \in dirs /\ UNCHANGED <<id, dirs, recent>>
        /\ files' = [files EXCEPT ![id] = @ \cup {EntryFiles[nextFile]}]
        /\ pc' = IF nextFile = 8 THEN "touching" ELSE "saving"
    BY <1>0, <1>8 DEF SaveFile, FoldersInv
  <2>2. \A i \in dirs \ {id} : Complete(i, {})' <=> Complete(i, {})
    BY <2>1 DEF Complete, TypeOK, Has
  <2>3. nextFile = 8 => \A i \in dirs : i = id => Complete(i, {})'
    BY <2>1, FilesOfAFolder DEF Complete, TypeOK, Has
  <2> QED
    BY <2>1, <2>2, <2>3 DEF ListInv
<1>9. ASSUME Touch
      PROVE  ListInv'
  <2>1. pc = "touching" /\ pc' \in {"evict", "serving"} /\ recent' = MovedFirst /\ UNCHANGED <<dirs, files>>
    BY <1>0, <1>9 DEF Touch
  <2>2. ToSet(recent') = ToSet(recent) \cup {id}
    BY <2>1, MovedFirstLists DEF TypeOK, FoldersInv
  <2> QED
    BY <1>1, <2>1, <2>2 DEF ListInv
<1>10. ASSUME StartEvict
       PROVE  ListInv'
  <2>1. pc = "evict" /\ pc' = "evicting" /\ UNCHANGED <<dirs, files, recent>>
    BY <1>10 DEF StartEvict, card
  <2>2. PICK lost \in Losses, lostAgain \in Losses :
          /\ \E list \in EntryLists(lost) : kept' = SubSeq(list, 1, IF Len(list) < Keep THEN Len(list) ELSE Keep)
          /\ FaultIf(lost \cup lostAgain # {})
    BY <1>10 DEF StartEvict
  <2>3. lost = {}
    BY <1>0, <2>2 DEF FaultIf
  <2>4. PICK list \in EntryLists({}) : kept' = SubSeq(list, 1, IF Len(list) < Keep THEN Len(list) ELSE Keep)
    BY <2>2, <2>3
  <2>5. list = recent
    BY <2>1, <2>4, ListedAsTheyAre DEF ListInv
  <2>6. ToSet(kept') \subseteq dirs
    BY <2>4, KeptOnes
  <2>7. \A i \in ToSet(kept') : Complete(i, {})'
    BY <1>1, <2>1, <2>6 DEF ListInv
  <2> QED
    BY <2>1, <2>4, <2>5, <2>7 DEF ListInv, Newest
<1>11. ASSUME EvictRemoves
       PROVE  ListInv'
  <2>1. /\ pc = "evicting" /\ pc' = "evicting" /\ victim \in Ids /\ kept' = kept
        /\ RemoveFile(victim) \/ RemoveDir(victim)
    BY <1>0, <1>11 DEF EvictRemoves, TypeOK
  <2>2. recent' = recent /\ dirs \ {victim} \subseteq dirs' /\ \A i \in dirs \ {victim} : files'[i] = files[i]
    BY <2>1 DEF RemoveFile, RemoveDir, TypeOK
  <2>3. ToSet(kept) \subseteq dirs \ {victim}
    BY <1>0, <2>1 DEF CallsInv, EvictionInv
  <2>4. \A i \in ToSet(kept) : Complete(i, {})'
    BY <2>1, <2>2, <2>3 DEF ListInv, Complete, Has
  <2> QED
    BY <2>1, <2>2, <2>4 DEF ListInv, Newest
<1>12. CASE \E i \in Ids : PickVictim(i)
  <2>1. pc = "evicting" /\ UNCHANGED <<pc, dirs, files, recent, kept>>
    BY <1>12 DEF PickVictim, card
  <2> QED
    BY <1>1, <2>1 DEF ListInv, Newest
<1>13. ASSUME WriteRecent
       PROVE  ListInv'
  <2>1. /\ pc = "evicting" /\ pc' \in {"collecting", "serving"} /\ recent' = kept /\ UNCHANGED <<dirs, files>>
        /\ victim = NoId /\ victims = {}
    BY <1>0, <1>13, WritesWhatIsKept
  <2>2. NoId \notin dirs
    BY CacheAssumption DEF TypeOK
  <2>3. dirs = ToSet(kept)
    BY <1>0, <2>1, <2>2 DEF CallsInv, EvictionInv
  <2> QED
    BY <1>1, <2>1, <2>3 DEF ListInv
<1>14. CASE \E c \in Contents : Collect(c)
  <2>1. pc = "collecting" /\ UNCHANGED <<pc, dirs, files, recent>>
    BY <1>14 DEF Collect
  <2> QED
    BY <1>1, <2>1 DEF ListInv
<1>15. CASE \E f \in ModFiles : RemoveMod(f) \/ InstallMod(f)
  <2>1. pc = "off" /\ UNCHANGED <<pc, dirs, files, recent>>
    BY <1>15 DEF RemoveMod, InstallMod
  <2> QED
    BY <1>1, <2>1 DEF ListInv
<1> QED
  BY <1>0, <1>2, <1>3, <1>4, <1>5, <1>6, <1>7, <1>8, <1>9, <1>10, <1>11, <1>12, <1>13, <1>14, <1>15 DEF Next, Step

-----------------------------------------------------------------------------
(* Every step is one of MergeLru, or changes nothing of what it speaks of. *)

\* The merge MergeLru takes a session to use.
Using == IF pc \in {"evict", "evicting", "collecting", "serving"} THEN {outcome.id} \ {NoId} ELSE {}

\* touch is the one use of a merge.
LEMMA TouchUses ==
  ASSUME TypeOK, FoldersInv, CallsInv, MaxFaults = 0, MaxCrashes = 0, Touch
  PROVE  Lru!Use(id)
<1>1. faults = 0 /\ ~Fault
  BY NothingFails
<1>2. /\ pc = "touching" /\ pc' \in {"evict", "serving"} /\ outcome' = outcome /\ recent' = MovedFirst
  BY <1>1 DEF Touch
<1>3. outcome.id = id /\ id \in Ids /\ id # NoId
  BY <1>1, <1>2, CacheAssumption DEF CallsInv, EvictionInv, FoldersInv
<1>4. Newest(recent)' = Newest(<<id>> \o RemoveFirst(Newest(recent), id))
  BY <1>2, <1>3, NewestAfterAUse DEF MovedFirst, TypeOK, Newest
<1>5. Using = {} /\ Using' = {id}
  BY <1>2, <1>3 DEF Using
<1>6. \A list : Lru!FirstOf(list) = Newest(list)
  BY DEF Lru!FirstOf, Newest
<1>7. \A list, m : Lru!RemoveFirst(list, m) = RemoveFirst(list, m)
  BY DEF RemoveFirst, Lru!RemoveFirst, RemoveAt, Lru!RemoveAt, SelectInSeq, Lru!SelectInSeq, Min, Lru!Min
<1>8. Newest(recent)' = Lru!FirstOf(<<id>> \o Lru!RemoveFirst(Newest(recent), id))
  BY <1>4, <1>6, <1>7
<1> QED
  BY <1>5, <1>8, Zenon DEF Lru!Use, Newest, Using

\* The rewriting of the list, once the other folders are gone, is not seen.
LEMMA WriteRecentIsNotSeen ==
  ASSUME TypeOK, ListInv, MaxFaults = 0, MaxCrashes = 0, WriteRecent
  PROVE  UNCHANGED <<Newest(recent), Using>>
<1>1. pc = "evicting" /\ pc' \in {"collecting", "serving"} /\ outcome' = outcome /\ recent' = kept
  BY NothingFails, WritesWhatIsKept
<1>2. Newest(recent') = Newest(recent)
  BY <1>1, NewestTwice DEF ListInv, TypeOK
<1> QED
  BY <1>1, <1>2 DEF Using, Newest

\* Neither are the other steps, but for the end of the session.
LEMMA OtherSteps ==
  ASSUME TypeOK, MaxFaults = 0, MaxCrashes = 0, [Next]_vars
  PROVE  UNCHANGED <<recent, Using>> \/ Touch \/ WriteRecent \/ Close
<1>0. ~Fault /\ ~Crash
  BY NothingFails
<1>1. CASE UNCHANGED vars
  BY <1>1 DEF vars, card, Using
<1>2. ASSUME NEW plan \in Plans, NEW game \in Games, NEW needed \in LocaleLists, NEW force \in BOOLEAN,
             NEW atBoot \in AtBoot, Start(plan, game, needed, force, atBoot)
      PROVE  UNCHANGED <<recent, Using>>
  <2>1. pc = "off" /\ recent' = recent /\ pc' \in {"comparing", "touching"}
    BY <1>2 DEF Start, card
  <2> QED
    BY <2>1 DEF Using
<1>3. CASE GoAhead \/ Cancel \/ EndCollect \/ StartEvict
  <2>1. CASE Cancel
    <3>1. pc = "comparing" /\ pc' = "serving" /\ outcome' = NoOutcome /\ recent' = recent
      BY <2>1 DEF Cancel, Serve, card
    <3>2. NoOutcome.id = NoId
      BY DEF NoOutcome
    <3>3. Using = {} /\ Using' = {}
      BY <3>1, <3>2 DEF Using
    <3> QED
      BY <3>1, <3>3
  <2>2. CASE GoAhead \/ EndCollect \/ StartEvict
    BY <2>2 DEF GoAhead, EndCollect, StartEvict, card, Using
  <2> QED
    BY <1>3, <2>1, <2>2
<1>4. CASE BeginRemoves \/ BeginCreates
  BY <1>0, <1>4 DEF BeginRemoves, BeginCreates, RemoveFile, RemoveDir, Using
<1>5. CASE MergeDone \/ SaveFile
  BY <1>0, <1>5 DEF MergeDone, SaveFile, card, Using
<1>6. CASE \E c \in Contents : Put(c) \/ Collect(c)
  BY <1>6 DEF Put, Collect, Using
<1>7. CASE EvictRemoves
  BY <1>0, <1>7 DEF EvictRemoves, RemoveFile, RemoveDir, Using
<1>8. CASE \E i \in Ids : PickVictim(i)
  BY <1>8 DEF PickVictim, card, Using
<1>9. CASE \E f \in ModFiles : RemoveMod(f) \/ InstallMod(f)
  BY <1>9 DEF RemoveMod, InstallMod, Using
<1>10. CASE Step
  BY <1>3, <1>4, <1>5, <1>6, <1>7, <1>8, <1>10 DEF Step
<1> QED
  BY <1>0, <1>1, <1>2, <1>3, <1>9, <1>10 DEF Next

\* README.md of totk-mod-merger-plugin: the last merge_cache_size merges stay on
\* the SD card, the least recently used one being the one that goes, while no call
\* fails and the power stays on.
THEOREM LastUsedAreKept ==
  ASSUME MaxFaults = 0, MaxCrashes = 0
  PROVE  Spec => KeepsTheLastUsed
<1>1. Init => ListInv
  BY DEF Init, ListInv, ToSet
<1>2. TypeOK /\ FoldersInv /\ CallsInv /\ ListInv /\ [Next]_vars => ListInv'
  BY ListStep
<1>3. Init => Lru!Init
  <2> SUFFICES ASSUME Init PROVE Newest(recent) = <<>> /\ Using = {}
    BY DEF Lru!Init, Newest, Using
  <2>1. recent = <<>> /\ pc = "off"
    BY DEF Init
  <2>2. Newest(recent) = <<>>
    <3>1. recent \in Seq(Ids) /\ Len(recent) < Keep
      BY <2>1, CacheAssumption
    <3> QED
      BY <2>1, <3>1, NewestOnes
  <2> QED
    BY <2>1, <2>2 DEF Using
<1>4. TypeOK /\ FoldersInv /\ CallsInv /\ ListInv /\ [Next]_vars => [Lru!Next]_<<Newest(recent), Using>>
  <2> SUFFICES ASSUME TypeOK, FoldersInv, CallsInv, ListInv, [Next]_vars
               PROVE  [Lru!Next]_<<Newest(recent), Using>>
    OBVIOUS
  <2>1. CASE UNCHANGED <<recent, Using>>
    BY <2>1 DEF Newest
  <2>2. CASE Touch
    <3>1. id \in Ids
      BY <2>2 DEF Touch, FoldersInv
    <3> QED
      BY <2>2, <3>1, TouchUses DEF Lru!Next
  <2>3. CASE WriteRecent
    BY <2>3, WriteRecentIsNotSeen
  <2>4. CASE Close
    <3>1. recent' = recent /\ pc = "serving" /\ Using' = {}
      BY <2>4 DEF Close, Forget, card, Using
    <3>2. CASE Using = {}
      BY <3>1, <3>2 DEF Newest
    <3>3. CASE Using # {}
      BY <3>1, <3>3 DEF Lru!Next, Lru!Stop, Newest, Using
    <3> QED
      BY <3>2, <3>3
  <2> QED
    BY <2>1, <2>2, <2>3, <2>4, OtherSteps
<1> QED
  BY <1>1, <1>2, <1>3, <1>4, Calls, PTL DEF Spec, KeepsTheLastUsed, Lru!Spec, Newest, Using
=============================================================================
