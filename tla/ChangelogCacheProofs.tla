------------------------ MODULE ChangelogCacheProofs ------------------------
(***************************************************************************)
(* Which entries a merge may take from the folder of changelogs, proved    *)
(* for any mods, names and contents, and any number of failures and power  *)
(* cuts.                                                                   *)
(***************************************************************************)
EXTENDS ChangelogCache, FiniteSetTheorems, SequenceTheorems, TLAPS

-----------------------------------------------------------------------------
(* Names of entries.                                                       *)

\* What the names of a mod's entries begin with.
Begins(mod) == EntryName(NameOf[mod], <<>>)

\* What is kept of a name is a text.
LEMMA SafeNames ==
  ASSUME NEW mod \in Mods
  PROVE  SafeName(NameOf[mod]) \in Seq(Characters)
<1> DEFINE name == NameOf[mod]
           n == Least(MaxName, Len(name))
<1>1. name \in Seq(Characters)
  BY ChangelogCacheAssumption
<1>2. MaxName \in Nat
  BY ChangelogCacheAssumption
<1>3. Len(name) \in Nat /\ name \in [1..Len(name) -> Characters]
  BY <1>1, LenProperties
<1> HIDE DEF name
<1>4. n \in Nat /\ n <= Len(name)
  BY <1>2, <1>3 DEF Least
<1> HIDE DEF n
<1> DEFINE letter(i) == IF name[i] \in Plain THEN name[i] ELSE "_"
           kept == [i \in 1..n |-> letter(i)]
<1>5. "_" \in Characters
  BY ChangelogCacheAssumption DEF Characters
<1>6. \A i \in 1..n : name[i] \in Characters
  BY <1>3, <1>4
<1>7. \A i \in 1..n : letter(i) \in Characters
  BY <1>5, <1>6
<1> HIDE DEF letter
<1>8. kept \in [1..n -> Characters]
  BY <1>7
<1>9. SafeName(name) = kept
  BY DEF SafeName, n, letter
<1> HIDE DEF kept
<1>10. kept \in Seq(Characters)
  BY <1>4, <1>8, SeqDef
<1> QED
  BY <1>9, <1>10 DEF name

LEMMA SingleIsASeq ==
  ASSUME NEW S, NEW x \in S
  PROVE  <<x>> \in Seq(S) /\ Len(<<x>>) = 1 /\ <<x>>[1] = x
OBVIOUS

LEMMA OneCharacter == <<"-">> \in Seq(Characters) /\ Len(<<"-">>) = 1
BY ChangelogCacheAssumption, SingleIsASeq DEF Characters

\* An entry is named like its mod, and has one character more: its fingerprint.
LEMMA EntryNames ==
  ASSUME NEW mod \in Mods, NEW f
  PROVE  LET e == EntryName(NameOf[mod], <<f>>)
         IN /\ Begins(mod) \in Seq(Characters) /\ Len(Begins(mod)) = Len(SafeName(NameOf[mod])) + 1
            /\ e \in Seq(Characters \cup {f}) /\ Len(e) = Len(Begins(mod)) + 1
            /\ e[Len(e)] = f
            /\ Front(e) = Begins(mod)
            /\ \A k \in 1..Len(Begins(mod)) : e[k] = Begins(mod)[k]
<1> DEFINE safe == SafeName(NameOf[mod])
           start == safe \o <<"-">>
           e == EntryName(NameOf[mod], <<f>>)
           S == Characters \cup {f}
<1>1. safe \in Seq(Characters) /\ safe \in Seq(S) /\ Len(safe) \in Nat
  BY SafeNames, LenProperties, SeqMonotonic, Characters \subseteq S
<1>2. <<"-">> \in Seq(Characters) /\ <<f>> \in Seq(S) /\ Len(<<"-">>) = 1 /\ Len(<<f>>) = 1 /\ <<f>>[1] = f
  BY OneCharacter, f \in S, SingleIsASeq
<1> HIDE DEF safe
<1>3. start \in Seq(Characters) /\ start \in Seq(S) /\ Len(start) = Len(safe) + 1 /\ Len(start) \in Nat
  BY <1>1, <1>2, ConcatProperties, SeqMonotonic, Characters \subseteq S
<1>4. Begins(mod) = start
  BY <1>3, ConcatEmptySeq DEF Begins, EntryName, safe
<1>5. e = start \o <<f>>
  BY DEF EntryName, safe
<1> HIDE DEF start, e, S
<1>6. /\ e \in Seq(S) /\ Len(e) = Len(start) + 1
      /\ \A k \in 1..(Len(start) + 1) : e[k] = IF k <= Len(start) THEN start[k] ELSE <<f>>[k - Len(start)]
  BY <1>2, <1>3, <1>5, ConcatProperties
<1>7. e[Len(e)] = f /\ \A k \in 1..Len(start) : e[k] = start[k]
  BY <1>2, <1>3, <1>6
<1>8. Front(e) = start
  <2>1. Front(e) = SubSeq(e, 1, Len(start))
    BY <1>3, <1>6 DEF Front
  <2>2. \A k \in 1..Len(start) : e[k] \in S
    BY <1>3, <1>6, ElementOfSeq
  <2>3. /\ SubSeq(e, 1, Len(start)) \in Seq(S) /\ Len(SubSeq(e, 1, Len(start))) = Len(start)
        /\ \A k \in 1..Len(start) : SubSeq(e, 1, Len(start))[k] = e[k]
    BY <1>3, <2>2, SubSeqProperties
  <2> QED
    BY <1>3, <1>7, <2>1, <2>3, SeqEqual
<1> QED
  BY <1>3, <1>4, <1>6, <1>7, <1>8 DEF e, S, safe

\* Two names begin alike only if what is kept of them is the same.
LEMMA BeginAlike ==
  ASSUME NEW m \in Mods, NEW n \in Mods
  PROVE  SameSafeName(m, n) <=> Begins(m) = Begins(n)
<1> DEFINE s == SafeName(NameOf[m])
           t == SafeName(NameOf[n])
<1>1. s \in Seq(Characters) /\ t \in Seq(Characters) /\ Len(s) \in Nat /\ Len(t) \in Nat
  BY SafeNames, LenProperties
<1>2. <<"-">> \in Seq(Characters) /\ Len(<<"-">>) = 1
  BY OneCharacter
<1> HIDE DEF s, t
<1>3. /\ s \o <<"-">> \in Seq(Characters) /\ Len(s \o <<"-">>) = Len(s) + 1
      /\ \A k \in 1..Len(s) : (s \o <<"-">>)[k] = s[k]
  BY <1>1, <1>2, ConcatProperties
<1>4. /\ t \o <<"-">> \in Seq(Characters) /\ Len(t \o <<"-">>) = Len(t) + 1
      /\ \A k \in 1..Len(t) : (t \o <<"-">>)[k] = t[k]
  BY <1>1, <1>2, ConcatProperties
<1>5. Begins(m) = s \o <<"-">> /\ Begins(n) = t \o <<"-">>
  BY <1>3, <1>4, ConcatEmptySeq DEF Begins, EntryName, s, t
<1>6. ASSUME s \o <<"-">> = t \o <<"-">> PROVE s = t
  <2>1. Len(s) = Len(t)
    BY <1>1, <1>3, <1>4, <1>6
  <2>2. \A k \in 1..Len(s) : s[k] = t[k]
    BY <1>3, <1>4, <1>6, <2>1
  <2> QED
    BY <1>1, <2>1, <2>2, SeqEqual
<1> QED
  BY <1>5, <1>6 DEF SameSafeName, s, t

\* An entry of some mod, whatever its fingerprint.
IsEntryName(e) == \E mod \in Mods : e = EntryName(NameOf[mod], <<Last(e)>>)

LEMMA NamesOfEntries ==
  ASSUME NEW mod \in Mods, NEW f
  PROVE  IsEntryName(EntryName(NameOf[mod], <<f>>)) /\ Front(EntryName(NameOf[mod], <<f>>)) = Begins(mod)
BY EntryNames DEF IsEntryName, Last

\* What prune takes: the other entries of the mods that are named alike.
LEMMA OutdatedAreItsOwn ==
  ASSUME Mod \in Mods, NEW f, \A e \in DOMAIN entries : IsEntryName(e)
  PROVE  Outdated(EntryName(NameOf[Mod], <<f>>)) = EntriesOf(Mod) \ {EntryName(NameOf[Mod], <<f>>)}
<1> DEFINE p == Begins(Mod)
           keep == EntryName(NameOf[Mod], <<f>>)
<1>1. p \in Seq(Characters) /\ Len(p) \in Nat /\ Len(keep) = Len(p) + 1
  BY EntryNames, LenProperties
<1>2. ASSUME NEW e \in DOMAIN entries
      PROVE  (IsPrefix(p, e) /\ Len(e) = Len(keep)) <=> p = Front(e)
  <2>1. PICK n \in Mods : e = EntryName(NameOf[n], <<Last(e)>>)
    BY DEF IsEntryName
  <2> DEFINE q == Begins(n)
             g == Last(e)
  <2> HIDE DEF g
  <2>0. e = EntryName(NameOf[n], <<g>>)
    BY <2>1 DEF g
  <2>2. /\ q \in Seq(Characters) /\ Len(q) \in Nat /\ Len(e) = Len(q) + 1 /\ Front(e) = q
        /\ \A k \in 1..Len(q) : e[k] = q[k]
    BY <2>0, EntryNames, LenProperties
  <2> HIDE DEF p, q, keep
  <2>3. ASSUME IsPrefix(p, e), Len(e) = Len(keep) PROVE p = q
    <3>1. Len(q) = Len(p) /\ SubSeq(p, 1, Len(p)) = SubSeq(e, 1, Len(p))
      BY <1>1, <2>2, <2>3 DEF IsPrefix
    <3>2. \A k \in 1..Len(p) : p[k] \in Characters /\ e[k] \in Characters
      BY <1>1, <2>2, <3>1, ElementOfSeq
    <3>3. \A k \in 1..Len(p) : SubSeq(p, 1, Len(p))[k] = p[k] /\ SubSeq(e, 1, Len(p))[k] = e[k]
      BY <1>1, <3>2, SubSeqProperties
    <3>4. \A k \in 1..Len(p) : p[k] = q[k]
      BY <2>2, <3>1, <3>3
    <3> QED
      BY <1>1, <2>2, <3>1, <3>4, SeqEqual
  <2>4. ASSUME p = q PROVE IsPrefix(p, e) /\ Len(e) = Len(keep)
    <3>1. \A k \in 1..Len(p) : p[k] \in Characters /\ e[k] = p[k]
      BY <1>1, <2>2, <2>4, ElementOfSeq
    <3>2. /\ \A k \in 1..Len(p) : SubSeq(p, 1, Len(p))[k] = p[k] /\ SubSeq(e, 1, Len(p))[k] = e[k]
          /\ SubSeq(p, 1, Len(p)) \in Seq(Characters) /\ SubSeq(e, 1, Len(p)) \in Seq(Characters)
          /\ Len(SubSeq(p, 1, Len(p))) = Len(p) /\ Len(SubSeq(e, 1, Len(p))) = Len(p)
      BY <1>1, <3>1, SubSeqProperties
    <3>3. SubSeq(p, 1, Len(p)) = SubSeq(e, 1, Len(p))
      BY <1>1, <3>1, <3>2, SeqEqual
    <3> QED
      BY <1>1, <2>2, <2>4, <3>3 DEF IsPrefix
  <2> QED
    BY <2>2, <2>3, <2>4
<1> QED
  BY <1>2 DEF Outdated, EntriesOf, Begins, keep

-----------------------------------------------------------------------------
(* The invariants.                                                         *)

Steps == {"off", "loading", "clearing", "creating", "data", "index", "changelog", "listing", "pruning", "merging"}
Storing == {"clearing", "creating", "data", "index", "changelog", "listing", "pruning"}

\* An entry of a mod, whatever its fingerprint.
NamedFor(e, mod) == e = EntryName(NameOf[mod], <<Last(e)>>)

\* Where the merge is; every entry is some mod's, and there are finitely many.
PlaceInv ==
  /\ pc \in Steps /\ at \in 1..(Len(Order) + 1)
  /\ pc \in Storing => at <= Len(Order) /\ NamedFor(dir, Mod)
  /\ faults \in Nat /\ crashes \in Nat
  /\ \A e \in DOMAIN entries : IsEntryName(e)
  /\ IsFiniteSet(DOMAIN entries)

\* What prune has yet to delete is named like the mod in hand.
VictimsInv ==
  /\ victims \subseteq DOMAIN entries
  /\ pc # "pruning" => victims = {}
  /\ \A e \in victims : Front(e) = Begins(Mod)

Extra(mod) == IF pc \in Storing \ {"clearing", "creating"} /\ SameSafeName(Mod, mod) THEN 1 ELSE 0
Allowed(mod) == 1 + faults + crashes + Extra(mod)

\* Entries of one name: those calls that failed and power cuts left, the last
\* one, and the one being stored until prune has been.
CountInv ==
  /\ \A mod \in Mods :
       Cardinality(EntriesOf(mod)) <= Allowed(mod)
  /\ pc = "pruning" => Cardinality(EntriesOf(Mod) \ victims) <= 1 + faults + crashes

\* The plan is a list of mods.
LEMMA OrderIsASeq == Order \in Seq(Mods) /\ Len(Order) \in Nat
<1>1. Order \in Seq(Mods)
  BY ChangelogCacheAssumption
<1> QED
  BY <1>1, LenProperties

\* Before the first merge there are no entries.
LEMMA AtFirst ==
  ASSUME Init
  PROVE  PlaceInv /\ VictimsInv /\ CountInv
<1>1. DOMAIN entries = {} /\ pc = "off" /\ at = 1 /\ victims = {} /\ faults = 0 /\ crashes = 0
  BY DEF Init
<1>2. Len(Order) \in Nat
  BY OrderIsASeq
<1>3. PlaceInv
  BY <1>1, <1>2, FS_EmptySet DEF PlaceInv, Steps, Storing
<1>4. VictimsInv
  BY <1>1 DEF VictimsInv
<1>5. \A mod \in Mods : EntriesOf(mod) = {}
  BY <1>1 DEF EntriesOf
<1>6. ASSUME NEW mod \in Mods PROVE Cardinality(EntriesOf(mod)) <= Allowed(mod)
  <2>1. Cardinality(EntriesOf(mod)) = 0
    BY <1>5, FS_EmptySet
  <2>2. Allowed(mod) = 1
    BY <1>1 DEF Allowed, Extra, Storing
  <2> QED
    BY <2>1, <2>2
<1>7. CountInv
  BY <1>1, <1>6 DEF CountInv
<1> QED
  BY <1>3, <1>4, <1>7

\* The mod in hand, and any name it may be given.
LEMMA ModInHand ==
  ASSUME PlaceInv, at <= Len(Order)
  PROVE  Mod \in Mods /\ \A lost : NamedFor(EntryOf(Mod, lost), Mod)
<1>1. at \in 1..Len(Order)
  BY OrderIsASeq DEF PlaceInv
<1>2. Mod \in Mods
  BY <1>1, OrderIsASeq, ElementOfSeq DEF Mod
<1>3. ASSUME NEW f
      PROVE  NamedFor(EntryName(NameOf[Mod], <<f>>), Mod)
  BY <1>2, EntryNames DEF NamedFor, Last
<1> QED
  BY <1>2, <1>3 DEF EntryOf, Fingerprint

\* While an entry is stored it is one of the mod in hand.
LEMMA InHand ==
  ASSUME PlaceInv, pc \in Storing
  PROVE  Mod \in Mods /\ IsEntryName(dir) /\ Front(dir) = Begins(Mod)
<1>1. Mod \in Mods /\ NamedFor(dir, Mod)
  BY ModInHand DEF PlaceInv
<1> QED
  BY <1>1, NamesOfEntries DEF NamedFor

\* A removal changes no other entry, and a write none but the one in hand.
LEMMA RemovalChangesOne ==
  ASSUME NEW x, RemoveFrom(x)
  PROVE  /\ DOMAIN entries' = DOMAIN entries \/ DOMAIN entries' = DOMAIN entries \ {x}
         /\ \A e \in DOMAIN entries : e # x => e \in DOMAIN entries' /\ entries'[e] = entries[e]
BY DEF RemoveFrom

LEMMA WriteChangesOne ==
  ASSUME NEW file, NEW content, NEW then, Write(file, content, then)
  PROVE  /\ DOMAIN entries' = DOMAIN entries
         /\ \A e \in DOMAIN entries : e # dir => entries'[e] = entries[e]
BY DEF Write, CutShort, With

LEMMA CutChangesOne ==
  ASSUME NEW file, NEW content, CutShort(file, content)
  PROVE  /\ DOMAIN entries' = DOMAIN entries
         /\ \A e \in DOMAIN entries : e # dir => entries'[e] = entries[e]
BY DEF CutShort, With

LEMMA PowerCutChangesOne ==
  ASSUME PowerCut
  PROVE  /\ DOMAIN entries' = DOMAIN entries
         /\ \A e \in DOMAIN entries : e # dir => entries'[e] = entries[e]
<1>1. \/ CutShort("data", Blob(built)) \/ CutShort("index", IndexText(built))
      \/ CutShort("changelog", ChangelogText(built)) \/ entries' = entries
  BY DEF PowerCut
<1> QED
  BY <1>1, CutChangesOne

\* The calls of a merge that write a file of the entry in hand.
LEMMA Writes ==
  ASSUME WriteData \/ WriteIndex \/ WriteChangelog
  PROVE  /\ pc \in {"data", "index", "changelog"}
         /\ DOMAIN entries' = DOMAIN entries
         /\ \A e \in DOMAIN entries : e # dir => entries'[e] = entries[e]
         /\ \/ NoFault /\ pc' \in {"index", "changelog", "listing"} /\ at' = at /\ dir' = dir /\ victims' = victims
            \/ GiveUp
BY WriteChangesOne DEF WriteData, WriteIndex, WriteChangelog, Write

LEMMA PlaceStep ==
  ASSUME PlaceInv, [Next]_vars
  PROVE  PlaceInv'
<1> USE DEF PlaceInv, Steps, Storing
<1>0. Len(Order) \in Nat
  BY OrderIsASeq
<1>1. ASSUME DOMAIN entries' \subseteq DOMAIN entries
      PROVE  (\A e \in DOMAIN entries' : IsEntryName(e)) /\ IsFiniteSet(DOMAIN entries')
  BY <1>1, FS_Subset
<1>2. CASE UNCHANGED vars
  BY <1>2 DEF vars, world, bounds, NamedFor, Mod
<1>3. CASE (\E mod \in Mods : ChangeFolder(mod)) \/ UpdateGame
  BY <1>3 DEF ChangeFolder, UpdateGame, Engine, bounds
<1>4. CASE Start \/ Merge \/ Finish
  BY <1>0, <1>4 DEF Start, Merge, Finish, bounds
<1>5. CASE LoadCached
  <2>1. /\ pc = "loading" /\ at <= Len(Order) /\ pc' = "loading" /\ at' = at + 1 /\ UNCHANGED entries
        /\ NoFault \/ Fault
    BY <1>5 DEF LoadCached, Loaded, FaultIf
  <2> QED
    BY <1>0, <2>1 DEF NoFault, Fault, bounds
<1>13. CASE WorkOut
  <2>1. /\ pc = "loading" /\ at <= Len(Order) /\ pc' \in {"clearing", "creating"} /\ UNCHANGED <<entries, at>>
        /\ NoFault \/ Fault
    BY <1>13 DEF WorkOut, FaultIf
  <2>2. NamedFor(dir', Mod) /\ Mod' = Mod
    BY <1>13, <2>1, ModInHand DEF WorkOut, Mod
  <2>3. NamedFor(dir, Mod)'
    BY <2>2 DEF NamedFor
  <2> QED
    BY <1>0, <2>1, <2>3 DEF NoFault, Fault, bounds
<1>14. ASSUME UNCHANGED <<dir, at>>
       PROVE  NamedFor(dir, Mod)' <=> NamedFor(dir, Mod)
  BY <1>14 DEF NamedFor, Mod
<1>6. CASE Clear
  <2>1. DOMAIN entries' \subseteq DOMAIN entries
    BY <1>6, RemovalChangesOne DEF Clear
  <2> QED
    BY <1>0, <1>1, <1>6, <1>14, <2>1 DEF Clear, GiveUp, Loaded, NoFault, Fault, bounds
<1>7. CASE Create
  <2>1. DOMAIN entries' \subseteq DOMAIN entries \cup {dir}
    BY <1>7 DEF Create
  <2>2. IsEntryName(dir)
    BY <1>7, InHand DEF Create
  <2>3. IsFiniteSet(DOMAIN entries')
    BY <2>1, FS_AddElement, FS_Subset
  <2> QED
    BY <1>0, <1>7, <1>14, <2>1, <2>2, <2>3 DEF Create, GiveUp, Loaded, NoFault, Fault, bounds
<1>8. CASE WriteData \/ WriteIndex \/ WriteChangelog
  BY <1>0, <1>1, <1>8, <1>14, Writes DEF GiveUp, Loaded, NoFault, Fault, bounds
<1>9. CASE ListEntries
  BY <1>0, <1>9, <1>14 DEF ListEntries, GiveUp, Loaded, NoFault, Fault, bounds
<1>10. ASSUME NEW entry \in victims, Prune(entry) PROVE PlaceInv'
  <2>1. DOMAIN entries' \subseteq DOMAIN entries
    BY <1>10, RemovalChangesOne DEF Prune
  <2> QED
    BY <1>1, <1>10, <1>14, <2>1 DEF Prune, NoFault, Fault, bounds
<1>11. CASE Pruned
  BY <1>0, <1>11 DEF Pruned, Loaded, bounds
<1>12. CASE PowerCut
  <2>1. DOMAIN entries' = DOMAIN entries
    BY <1>12, PowerCutChangesOne
  <2>2. pc' = "off" /\ at' = 1 /\ crashes' = crashes + 1 /\ faults' = faults
    BY <1>12 DEF PowerCut
  <2> QED
    BY <1>0, <2>1, <2>2
<1> QED
  BY <1>2, <1>3, <1>4, <1>5, <1>6, <1>7, <1>8, <1>9, <1>10, <1>11, <1>12, <1>13 DEF Next

LEMMA VictimsStep ==
  ASSUME PlaceInv, VictimsInv, [Next]_vars
  PROVE  VictimsInv'
<1> USE DEF VictimsInv
<1>1. CASE UNCHANGED vars
  BY <1>1 DEF vars, world, bounds, Mod
<1>2. CASE (\E mod \in Mods : ChangeFolder(mod)) \/ UpdateGame
  BY <1>2 DEF ChangeFolder, UpdateGame, Engine
<1>3. CASE Start \/ Merge \/ Finish \/ LoadCached \/ WorkOut \/ Clear \/ Create
  BY <1>3 DEF Start, Merge, Finish, LoadCached, WorkOut, Clear, Create, GiveUp, Loaded
<1>4. CASE WriteData \/ WriteIndex \/ WriteChangelog
  BY <1>4, Writes DEF GiveUp, Loaded
<1>5. CASE ListEntries
  <2>1. CASE GiveUp
    BY <1>5, <2>1 DEF ListEntries, GiveUp, Loaded
  <2>2. CASE victims' = Outdated(dir) /\ pc' = "pruning" /\ at' = at
    <3>1. Outdated(dir) = EntriesOf(Mod) \ {dir}
      BY <1>5, InHand, OutdatedAreItsOwn DEF ListEntries, PlaceInv, Storing, NamedFor
    <3>2. Mod' = Mod /\ entries' = entries
      BY <1>5, <2>2 DEF ListEntries, Mod
    <3> QED
      BY <2>2, <3>1, <3>2 DEF EntriesOf, Begins
  <2> QED
    BY <1>5, <2>1, <2>2 DEF ListEntries
<1>6. ASSUME NEW entry \in victims, Prune(entry) PROVE VictimsInv'
  <2>1. pc = "pruning" /\ pc' = "pruning" /\ Mod' = Mod
    BY <1>6 DEF Prune, Mod
  <2>2. victims' \subseteq victims /\ victims' \subseteq DOMAIN entries'
    BY <1>6, RemovalChangesOne DEF Prune
  <2> QED
    BY <2>1, <2>2
<1>7. CASE Pruned
  BY <1>7 DEF Pruned, Loaded
<1>8. CASE PowerCut
  BY <1>8 DEF PowerCut
<1> QED
  BY <1>1, <1>2, <1>3, <1>4, <1>5, <1>6, <1>7, <1>8 DEF Next

LEMMA AtMostOneMore ==
  ASSUME NEW S, IsFiniteSet(S), NEW x
  PROVE  /\ IsFiniteSet(S \cup {x}) /\ Cardinality(S \cup {x}) \in Nat
         /\ Cardinality(S \cup {x}) <= Cardinality(S) + 1
<1>1. IsFiniteSet(S \cup {x}) /\ Cardinality(S) \in Nat
  BY FS_AddElement, FS_CardinalityType
<1>2. Cardinality(S \cup {x}) = IF x \in S THEN Cardinality(S) ELSE Cardinality(S) + 1
  BY FS_AddElement
<1> QED
  BY <1>1, <1>2

LEMMA AtMostOne ==
  ASSUME NEW x, NEW S \in SUBSET {x}
  PROVE  Cardinality(S) \in Nat /\ Cardinality(S) <= 1
<1>1. IsFiniteSet({x}) /\ Cardinality({x}) = 1
  BY FS_Singleton
<1>2. IsFiniteSet(S) /\ Cardinality(S) <= Cardinality({x})
  BY <1>1, FS_Subset
<1> QED
  BY <1>1, <1>2, FS_CardinalityType

\* What is left of the entries of a name, and what one more makes of them.
LEMMA Fewer ==
  ASSUME PlaceInv, NEW mod, DOMAIN entries' \subseteq DOMAIN entries
  PROVE  /\ EntriesOf(mod)' \subseteq EntriesOf(mod)
         /\ IsFiniteSet(EntriesOf(mod)) /\ IsFiniteSet(EntriesOf(mod)')
         /\ Cardinality(EntriesOf(mod)) \in Nat /\ Cardinality(EntriesOf(mod)') \in Nat
         /\ Cardinality(EntriesOf(mod)') <= Cardinality(EntriesOf(mod))
<1>1. EntriesOf(mod)' \subseteq EntriesOf(mod) /\ EntriesOf(mod) \subseteq DOMAIN entries
  BY DEF EntriesOf
<1>2. IsFiniteSet(EntriesOf(mod)) /\ IsFiniteSet(EntriesOf(mod)')
  BY <1>1, FS_Subset DEF PlaceInv
<1> QED
  BY <1>1, <1>2, FS_Subset, FS_CardinalityType

LEMMA OneMore ==
  ASSUME PlaceInv, pc \in Storing, NEW mod \in Mods, DOMAIN entries' = DOMAIN entries \cup {dir}
  PROVE  /\ Cardinality(EntriesOf(mod)) \in Nat /\ Cardinality(EntriesOf(mod)') \in Nat
         /\ Cardinality(EntriesOf(mod)') <= Cardinality(EntriesOf(mod)) + IF SameSafeName(Mod, mod) THEN 1 ELSE 0
<1>1. Mod \in Mods /\ Front(dir) = Begins(Mod)
  BY InHand
<1>2. EntriesOf(mod)' \subseteq EntriesOf(mod) \cup IF SameSafeName(Mod, mod) THEN {dir} ELSE {}
  BY <1>1, BeginAlike DEF EntriesOf, Begins
<1>3. IsFiniteSet(EntriesOf(mod))
  BY FS_Subset DEF EntriesOf, PlaceInv
<1>4. /\ IsFiniteSet(EntriesOf(mod) \cup {dir}) /\ Cardinality(EntriesOf(mod)) \in Nat
      /\ Cardinality(EntriesOf(mod) \cup {dir}) \in Nat
      /\ Cardinality(EntriesOf(mod) \cup {dir}) <= Cardinality(EntriesOf(mod)) + 1
  BY <1>3, AtMostOneMore, FS_CardinalityType
<1>5. CASE SameSafeName(Mod, mod)
  <2>1. EntriesOf(mod)' \subseteq EntriesOf(mod) \cup {dir}
    BY <1>2, <1>5
  <2>2. /\ Cardinality(EntriesOf(mod)') <= Cardinality(EntriesOf(mod) \cup {dir})
        /\ Cardinality(EntriesOf(mod)') \in Nat
    BY <1>4, <2>1, FS_Subset, FS_CardinalityType
  <2> QED
    BY <1>4, <1>5, <2>2
<1>6. CASE ~SameSafeName(Mod, mod)
  <2>1. EntriesOf(mod)' \subseteq EntriesOf(mod)
    BY <1>2, <1>6
  <2>2. Cardinality(EntriesOf(mod)') <= Cardinality(EntriesOf(mod)) /\ Cardinality(EntriesOf(mod)') \in Nat
    BY <1>3, <2>1, FS_Subset, FS_CardinalityType
  <2> QED
    BY <1>4, <1>6, <2>2
<1> QED
  BY <1>5, <1>6

LEMMA AllowedIsANumber ==
  ASSUME PlaceInv, PlaceInv', NEW mod
  PROVE  Allowed(mod) \in Nat /\ Allowed(mod)' \in Nat
<1>1. Extra(mod) \in {0, 1} /\ Extra(mod)' \in {0, 1}
  BY DEF Extra
<1>2. faults \in Nat /\ crashes \in Nat /\ faults' \in Nat /\ crashes' \in Nat
  BY DEF PlaceInv
<1> QED
  BY <1>1, <1>2 DEF Allowed

\* As long as no entry is made, the count holds when what is allowed does not shrink.
LEMMA CountStays ==
  ASSUME PlaceInv, PlaceInv', CountInv, DOMAIN entries' \subseteq DOMAIN entries,
         \A mod \in Mods : Allowed(mod) <= Allowed(mod)'
  PROVE  \A mod \in Mods : Cardinality(EntriesOf(mod)') <= Allowed(mod)'
<1> SUFFICES ASSUME NEW mod \in Mods PROVE Cardinality(EntriesOf(mod)') <= Allowed(mod)'
  OBVIOUS
<1>1. Allowed(mod) \in Nat /\ Allowed(mod)' \in Nat
  BY AllowedIsANumber
<1>2. Cardinality(EntriesOf(mod)) <= Allowed(mod)
  BY DEF CountInv
<1>3. /\ Cardinality(EntriesOf(mod)) \in Nat /\ Cardinality(EntriesOf(mod)') \in Nat
      /\ Cardinality(EntriesOf(mod)') <= Cardinality(EntriesOf(mod))
  BY Fewer
<1> QED
  BY <1>1, <1>2, <1>3

\* A call that fails, and a power cut, allow for the entry they leave.
LEMMA FaultAllows ==
  ASSUME PlaceInv, Fault
  PROVE  \A mod \in Mods : Allowed(mod) <= Allowed(mod)'
<1> SUFFICES ASSUME NEW mod \in Mods PROVE Allowed(mod) <= Allowed(mod)'
  OBVIOUS
<1>1. Extra(mod) \in {0, 1} /\ Extra(mod)' \in {0, 1}
  BY DEF Extra
<1>2. faults' = faults + 1 /\ crashes' = crashes /\ faults \in Nat /\ crashes \in Nat
  BY DEF Fault, PlaceInv
<1> QED
  BY <1>1, <1>2 DEF Allowed

LEMMA CutAllows ==
  ASSUME PlaceInv, PowerCut
  PROVE  \A mod \in Mods : Allowed(mod) <= Allowed(mod)'
<1> SUFFICES ASSUME NEW mod \in Mods PROVE Allowed(mod) <= Allowed(mod)'
  OBVIOUS
<1>1. Extra(mod) \in {0, 1} /\ Extra(mod)' \in {0, 1}
  BY DEF Extra
<1>2. faults' = faults /\ crashes' = crashes + 1 /\ faults \in Nat /\ crashes \in Nat
  BY DEF PowerCut, PlaceInv
<1> QED
  BY <1>1, <1>2 DEF Allowed

\* A call that does what it should between two places where an entry is allowed for.
LEMMA AllowedAlike ==
  ASSUME PlaceInv, UNCHANGED bounds, \/ pc \notin Storing \ {"clearing", "creating"}
                                     \/ pc' \in Storing \ {"clearing", "creating"} /\ UNCHANGED at
  PROVE  \A mod \in Mods : Allowed(mod) <= Allowed(mod)'
<1> SUFFICES ASSUME NEW mod \in Mods PROVE Allowed(mod) <= Allowed(mod)'
  OBVIOUS
<1>1. Extra(mod) \in {0, 1} /\ Extra(mod)' \in {0, 1} /\ Extra(mod) <= Extra(mod)'
  <2>1. CASE pc \notin Storing \ {"clearing", "creating"}
    BY <2>1 DEF Extra
  <2>2. CASE pc' \in Storing \ {"clearing", "creating"} /\ UNCHANGED at
    BY <2>2 DEF Extra, Mod, SameSafeName
  <2> QED
    BY <2>1, <2>2
<1>2. faults' = faults /\ crashes' = crashes /\ faults \in Nat /\ crashes \in Nat
  BY DEF bounds, PlaceInv
<1> QED
  BY <1>1, <1>2 DEF Allowed

LEMMA CountStep ==
  ASSUME PlaceInv, PlaceInv', VictimsInv, CountInv, [Next]_vars
  PROVE  CountInv'
<1> DEFINE Few == \A mod \in Mods : Cardinality(EntriesOf(mod)') <= Allowed(mod)'
           PrunedSoFar == pc = "pruning" => Cardinality(EntriesOf(Mod) \ victims) <= 1 + faults + crashes
<1>0. Few /\ PrunedSoFar' => CountInv'
  BY DEF CountInv
<1>1. CASE UNCHANGED vars
  BY <1>1 DEF CountInv, vars, world, bounds, EntriesOf, Allowed, Extra, Mod, SameSafeName
<1>2. CASE \/ \E mod \in Mods : ChangeFolder(mod)
           \/ UpdateGame \/ Start \/ Merge \/ Finish \/ LoadCached \/ WorkOut
  <2>1. /\ DOMAIN entries' = DOMAIN entries /\ pc \in {"off", "loading", "merging"} /\ pc' # "pruning"
        /\ \/ UNCHANGED bounds
           \/ Fault
    BY <1>2 DEF ChangeFolder, UpdateGame, Start, Merge, Finish, LoadCached, WorkOut, Loaded, Engine, FaultIf, NoFault, bounds
  <2>2. \A mod \in Mods : Allowed(mod) <= Allowed(mod)'
    BY <2>1, AllowedAlike, FaultAllows DEF Storing
  <2> QED
    BY <1>0, <2>1, <2>2, CountStays
<1>3. CASE Clear
  <2>1. /\ DOMAIN entries' \subseteq DOMAIN entries /\ pc = "clearing" /\ pc' # "pruning"
        /\ \/ UNCHANGED bounds
           \/ Fault
    BY <1>3, RemovalChangesOne DEF Clear, NoFault, GiveUp, Loaded
  <2>2. \A mod \in Mods : Allowed(mod) <= Allowed(mod)'
    BY <2>1, AllowedAlike, FaultAllows DEF Storing
  <2> QED
    BY <1>0, <2>1, <2>2, CountStays
<1>4. CASE Create
  <2>1. pc = "creating" /\ at <= Len(Order)
    BY <1>4 DEF Create, PlaceInv, Storing
  <2>2. CASE GiveUp /\ UNCHANGED entries
    <3>1. \A mod \in Mods : Allowed(mod) <= Allowed(mod)'
      BY <2>2, FaultAllows DEF GiveUp
    <3> QED
      BY <1>0, <2>2, <3>1, CountStays DEF GiveUp, Loaded
  <2>3. CASE NoFault /\ pc' = "data" /\ DOMAIN entries' = DOMAIN entries \cup {dir} /\ UNCHANGED at
    <3>1. ASSUME NEW mod \in Mods PROVE Cardinality(EntriesOf(mod)') <= Allowed(mod)'
      <4>1. /\ Cardinality(EntriesOf(mod)) \in Nat /\ Cardinality(EntriesOf(mod)') \in Nat
            /\ Cardinality(EntriesOf(mod)') <= Cardinality(EntriesOf(mod)) + IF SameSafeName(Mod, mod) THEN 1 ELSE 0
        BY <2>1, <2>3, OneMore DEF Storing
      <4>2. Cardinality(EntriesOf(mod)) <= Allowed(mod)
        BY DEF CountInv
      <4>3. Allowed(mod) \in Nat /\ Allowed(mod)' = Allowed(mod) + IF SameSafeName(Mod, mod) THEN 1 ELSE 0
        <5>1. Extra(mod) = 0 /\ Extra(mod)' = IF SameSafeName(Mod, mod) THEN 1 ELSE 0
          BY <2>1, <2>3 DEF Extra, Storing, Mod, SameSafeName
        <5> QED
          BY <2>3, <5>1 DEF Allowed, NoFault, bounds, PlaceInv
      <4> QED
        BY <4>1, <4>2, <4>3
    <3> QED
      BY <1>0, <2>3, <3>1
  <2> QED
    BY <1>4, <2>2, <2>3 DEF Create
<1>5. CASE WriteData \/ WriteIndex \/ WriteChangelog
  <2>1. /\ pc \in {"data", "index", "changelog"} /\ DOMAIN entries' = DOMAIN entries /\ pc' # "pruning"
        /\ \/ UNCHANGED bounds /\ pc' \in {"index", "changelog", "listing"} /\ UNCHANGED at
           \/ Fault
    BY <1>5, Writes DEF NoFault, GiveUp, Loaded
  <2>2. \A mod \in Mods : Allowed(mod) <= Allowed(mod)'
    BY <2>1, AllowedAlike, FaultAllows DEF Storing
  <2> QED
    BY <1>0, <2>1, <2>2, CountStays
<1>6. CASE ListEntries
  <2>1. pc = "listing" /\ at <= Len(Order) /\ entries' = entries
    BY <1>6 DEF ListEntries, PlaceInv, Storing
  <2>2. CASE GiveUp
    <3>1. \A mod \in Mods : Allowed(mod) <= Allowed(mod)'
      BY <2>2, FaultAllows DEF GiveUp
    <3> QED
      BY <1>0, <2>1, <2>2, <3>1, CountStays DEF GiveUp, Loaded
  <2>3. CASE NoFault /\ pc' = "pruning" /\ victims' = Outdated(dir) /\ UNCHANGED at
    <3>1. \A mod \in Mods : Allowed(mod) <= Allowed(mod)'
      BY <2>3, AllowedAlike DEF NoFault, Storing
    <3>2. EntriesOf(Mod)' = EntriesOf(Mod) /\ Mod' = Mod
      BY <2>1, <2>3 DEF EntriesOf, Mod
    <3>3. Outdated(dir) = EntriesOf(Mod) \ {dir}
      BY <2>1, InHand, OutdatedAreItsOwn DEF PlaceInv, Storing, NamedFor
    <3>4. (EntriesOf(Mod) \ victims)' \subseteq {dir}
      BY <2>3, <3>2, <3>3
    <3>5. Cardinality((EntriesOf(Mod) \ victims)') \in Nat /\ Cardinality((EntriesOf(Mod) \ victims)') <= 1
      BY <3>4, AtMostOne
    <3>6. faults \in Nat /\ crashes \in Nat /\ faults' = faults /\ crashes' = crashes
      BY <2>3 DEF PlaceInv, NoFault, bounds
    <3>7. 1 <= 1 + faults + crashes
      BY <3>6
    <3>8. Cardinality((EntriesOf(Mod) \ victims)') <= 1 + faults' + crashes'
      BY <3>5, <3>6, <3>7
    <3> QED
      BY <1>0, <2>1, <3>1, <3>8, CountStays
  <2> QED
    BY <1>6, <2>2, <2>3 DEF ListEntries
<1>7. ASSUME NEW entry \in victims, Prune(entry) PROVE CountInv'
  <2>1. pc = "pruning" /\ pc' = "pruning" /\ UNCHANGED at /\ Mod' = Mod
    BY <1>7 DEF Prune, Mod
  <2>2. DOMAIN entries' \subseteq DOMAIN entries
    BY <1>7, RemovalChangesOne DEF Prune
  <2> DEFINE left == EntriesOf(Mod) \ victims
  <2>3. /\ IsFiniteSet(left) /\ Cardinality(left) \in Nat /\ Cardinality(left) <= 1 + faults + crashes
        /\ faults \in Nat /\ crashes \in Nat
    BY <2>1, <2>2, Fewer, FS_Subset, FS_CardinalityType DEF CountInv, PlaceInv
  <2>4. CASE NoFault /\ RemoveFrom(entry) /\ victims' = IF entry \in DOMAIN entries' THEN victims ELSE victims \ {entry}
    <3>1. \A mod \in Mods : Allowed(mod) <= Allowed(mod)'
      BY <2>1, <2>4, AllowedAlike DEF NoFault, Storing
    <3>2. left' \subseteq left
      BY <2>1, <2>2, <2>4 DEF EntriesOf
    <3>3. Cardinality(left') <= 1 + faults' + crashes'
      <4> HIDE DEF left
      <4>1. Cardinality(left') \in Nat /\ Cardinality(left') <= Cardinality(left)
        BY <2>3, <3>2, FS_Subset, FS_CardinalityType
      <4> QED
        BY <2>3, <2>4, <4>1 DEF NoFault, bounds
    <3> QED
      BY <1>0, <2>2, <3>1, <3>3, CountStays
  <2>5. CASE Fault /\ victims' = victims \ {entry} /\ UNCHANGED entries
    <3>1. \A mod \in Mods : Allowed(mod) <= Allowed(mod)'
      BY <2>5, FaultAllows
    <3>2. left' \subseteq left \cup {entry}
      BY <2>1, <2>5 DEF EntriesOf
    <3>3. Cardinality(left') <= 1 + faults' + crashes'
      <4> HIDE DEF left
      <4>1. /\ IsFiniteSet(left \cup {entry}) /\ Cardinality(left \cup {entry}) \in Nat
            /\ Cardinality(left \cup {entry}) <= Cardinality(left) + 1
        BY <2>3, AtMostOneMore
      <4>2. Cardinality(left') \in Nat /\ Cardinality(left') <= Cardinality(left \cup {entry})
        BY <3>2, <4>1, FS_Subset, FS_CardinalityType
      <4>3. faults' = faults + 1 /\ crashes' = crashes
        BY <2>5 DEF Fault
      <4> QED
        BY <2>3, <4>1, <4>2, <4>3
    <3> QED
      BY <1>0, <2>2, <3>1, <3>3, CountStays
  <2> QED
    BY <1>7, <2>4, <2>5 DEF Prune
<1>8. CASE Pruned
  <2>1. /\ pc = "pruning" /\ at <= Len(Order) /\ victims = {} /\ entries' = entries /\ pc' = "loading"
        /\ faults' = faults /\ crashes' = crashes
    BY <1>8 DEF Pruned, Loaded, bounds, PlaceInv, Storing
  <2>2. ASSUME NEW mod \in Mods PROVE Cardinality(EntriesOf(mod)') <= Allowed(mod)'
    <3>1. EntriesOf(mod)' = EntriesOf(mod) /\ Allowed(mod)' = 1 + faults + crashes + 0
      BY <2>1 DEF EntriesOf, Allowed, Extra, Storing
    <3>2. faults \in Nat /\ crashes \in Nat
      BY DEF PlaceInv
    <3>3. CASE SameSafeName(Mod, mod)
      <4>1. EntriesOf(mod) = EntriesOf(Mod) \ victims
        BY <2>1, <3>3, ModInHand, BeginAlike DEF EntriesOf, Begins
      <4> QED
        BY <2>1, <3>1, <3>2, <4>1 DEF CountInv
    <3>4. CASE ~SameSafeName(Mod, mod)
      <4>1. Allowed(mod) = 1 + faults + crashes + 0
        BY <3>4 DEF Allowed, Extra
      <4> QED
        BY <3>1, <3>2, <4>1 DEF CountInv
    <3> QED
      BY <3>3, <3>4
  <2> QED
    BY <1>0, <2>1, <2>2
<1>9. CASE PowerCut
  <2>1. DOMAIN entries' \subseteq DOMAIN entries /\ pc' = "off"
    BY <1>9, PowerCutChangesOne DEF PowerCut
  <2>2. \A mod \in Mods : Allowed(mod) <= Allowed(mod)'
    BY <1>9, CutAllows
  <2> QED
    BY <1>0, <2>1, <2>2, CountStays
<1> QED
  BY <1>1, <1>2, <1>3, <1>4, <1>5, <1>6, <1>7, <1>8, <1>9 DEF Next

\* A step of a merge leaves alone what is not named like the mod in hand.
LEMMA OnlyItsOwn ==
  ASSUME PlaceInv, VictimsInv, [Next]_vars, pc # "off", at <= Len(Order),
         NEW e \in DOMAIN entries, Front(e) # Begins(Mod)
  PROVE  e \in DOMAIN entries' /\ entries'[e] = entries[e]
<1>1. pc \in Storing => e # dir
  BY InHand
<1>2. CASE UNCHANGED entries
  BY <1>2
<1>3. CASE Clear
  BY <1>1, <1>3, RemovalChangesOne DEF Clear, Storing
<1>4. CASE Create
  BY <1>1, <1>4 DEF Create, Storing
<1>5. CASE WriteData \/ WriteIndex \/ WriteChangelog
  BY <1>1, <1>5, Writes DEF Storing
<1>6. ASSUME NEW entry \in victims, Prune(entry)
      PROVE  e \in DOMAIN entries' /\ entries'[e] = entries[e]
  <2>1. e # entry
    BY DEF VictimsInv
  <2> QED
    BY <1>6, <2>1, RemovalChangesOne DEF Prune
<1>7. CASE PowerCut
  <2>1. CASE pc \in Storing
    BY <1>1, <1>7, <2>1, PowerCutChangesOne
  <2>2. CASE pc \notin Storing
    BY <1>7, <2>2 DEF PowerCut, Storing
  <2> QED
    BY <2>1, <2>2
<1>8. CASE ListEntries \/ LoadCached \/ WorkOut \/ Pruned \/ Merge \/ Finish
  BY <1>2, <1>8 DEF ListEntries, LoadCached, WorkOut, Pruned, Merge, Finish
<1>9. ~Start /\ ~UpdateGame /\ \A mod \in Mods : ~ChangeFolder(mod)
  BY DEF Start, UpdateGame, ChangeFolder
<1>10. UNCHANGED vars => UNCHANGED entries
  BY DEF vars
<1> QED
  BY <1>2, <1>3, <1>4, <1>5, <1>6, <1>7, <1>8, <1>9, <1>10 DEF Next

-----------------------------------------------------------------------------
(* What an entry is loaded as.                                             *)

\* A list of all that a folder holds, or of less where reads of the folder
\* failed; nothing is said of one found under a fingerprint that was not read.
Right(list, held, lost) == "listing" \in lost \/ ListsAFolder(list, held, lost)

\* A changelog that can be read lists the files of its entry's fingerprint: it
\* is written at once and last, and it is cut short or whole.
EntriesListTheirFiles ==
  \A e \in DOMAIN entries :
    "changelog" \in DOMAIN entries[e] /\ ReadsAsChangelog(entries[e]["changelog"]) =>
      Right(entries[e]["changelog"][3], DOMAIN Last(e).files, UnreadOf(e))

\* So do the changes of the mod in hand, and those of the mods before it.
LoadedInv ==
  /\ pc = "merging" => at > Len(Order)
  /\ pc \in Storing =>
       /\ Right(built.entries, DOMAIN folder[Mod] \ Aside, built.unread)
       /\ Right(built.entries, DOMAIN Last(dir).files, built.unread)
  /\ pc \in {"data", "index", "changelog"} => UnreadOf(dir) = built.unread
  /\ pc # "off" =>
       /\ loaded \in Seq(ToSet(loaded)) /\ Len(loaded) = at - 1
       /\ \A i \in 1..(at - 1) : Right(loaded[i].entries, DOMAIN folder[Order[i]] \ Aside, loaded[i].unread)

\* Names that are listed without a failure.
LEMMA FingerprintOfEntry ==
  ASSUME Mod \in Mods, NEW lost
  PROVE  DOMAIN Last(EntryOf(Mod, lost)).files = MergedFiles(folder[Mod], "listing", lost)
<1> DEFINE f == [path |-> Mod, files |-> Listed(folder[Mod], lost), game |-> game]
<1>1. EntryOf(Mod, lost) = EntryName(NameOf[Mod], <<f>>)
  BY DEF EntryOf, Fingerprint
<1>2. f.files = Listed(folder[Mod], lost)
  OBVIOUS
<1> HIDE DEF f
<1> DEFINE e == EntryName(NameOf[Mod], <<f>>)
<1>4. e[Len(e)] = f
  BY EntryNames
<1> HIDE DEF e
<1>5. EntryOf(Mod, lost) = e
  BY <1>1 DEF e
<1>3. Last(EntryOf(Mod, lost)) = f
  BY <1>4, <1>5 DEF Last
<1> QED
  BY <1>2, <1>3 DEF Listed

LEMMA NothingLost ==
  ASSUME NEW content, NEW what, NEW lost, what \notin Kinds(lost)
  PROVE  MergedFiles(content, what, lost) = DOMAIN content \ Aside
<1>1. \A file : <<what, file>> \notin lost
  <2> SUFFICES ASSUME NEW file, <<what, file>> \in lost PROVE FALSE
    OBVIOUS
  <2>1. <<what, file>>[1] = what
    OBVIOUS
  <2> QED
    BY <2>1 DEF Kinds
<1> QED
  BY <1>1 DEF MergedFiles

\* What is worked out lists the folder, and the files of the fingerprint, less
\* what was lost.
LEMMA BuiltLists ==
  ASSUME Mod \in Mods, NEW lost, NEW changed, changed = Build(Mod, folder[Mod], game, lost),
         NEW entry, entry = EntryOf(Mod, lost)
  PROVE  /\ Right(changed.entries, DOMAIN folder[Mod] \ Aside, changed.unread)
         /\ Right(changed.entries, DOMAIN Last(entry).files, changed.unread)
<1>1. changed.entries = MergedFiles(folder[Mod], "folder", lost) /\ changed.unread = Kinds(lost)
  BY DEF Build
<1>2. changed.entries \subseteq DOMAIN folder[Mod] \ Aside
  BY <1>1 DEF MergedFiles
<1>3. "folder" \notin Kinds(lost) => changed.entries = DOMAIN folder[Mod] \ Aside
  BY <1>1, NothingLost
<1>4. "listing" \notin Kinds(lost) => DOMAIN Last(entry).files = DOMAIN folder[Mod] \ Aside
  BY FingerprintOfEntry, NothingLost
<1> QED
  BY <1>1, <1>2, <1>3, <1>4 DEF Right, ListsAFolder

\* What is cut short is not read.
LEMMA PartsAreNotRead ==
  ASSUME NEW part \in Cuts(ChangelogText(built))
  PROVE  ~ReadsAsChangelog(part)
<1> DEFINE text == ChangelogText(built)
<1>1. Len(text) = 4 /\ text # <<>>
  BY DEF ChangelogText
<1>2. part = <<>> \/ part = SubSeq(text, 1, 3)
  BY <1>1 DEF Cuts, Front
<1>3. Len(<<>>) = 0 /\ Len(SubSeq(text, 1, 3)) = 3
  BY <1>1 DEF ChangelogText
<1> HIDE DEF text
<1>4. Len(part) # 4
  BY <1>2, <1>3
<1> QED
  BY <1>4 DEF ReadsAsChangelog

\* Appending to a sequence.
LEMMA Appended ==
  ASSUME NEW s, s \in Seq(ToSet(s)), NEW x
  PROVE  /\ Append(s, x) \in Seq(ToSet(Append(s, x))) /\ Len(Append(s, x)) = Len(s) + 1
         /\ Len(s) \in Nat
         /\ Append(s, x)[Len(s) + 1] = x /\ \A i \in 1..Len(s) : Append(s, x)[i] = s[i]
<1> DEFINE S == ToSet(s) \cup {x}
           t == Append(s, x)
<1>1. s \in Seq(S)
  BY SeqMonotonic, ToSet(s) \subseteq S
<1>2. x \in S
  OBVIOUS
<1> HIDE DEF S
<1>3. /\ t \in Seq(S) /\ Len(t) = Len(s) + 1 /\ t[Len(s) + 1] = x /\ \A i \in 1..Len(s) : t[i] = s[i]
      /\ Len(s) \in Nat
  BY <1>1, <1>2, AppendProperties, LenProperties
<1> HIDE DEF t
<1>4. t \in [1..Len(t) -> S] /\ Len(t) \in Nat /\ DOMAIN t = 1..Len(t)
  BY <1>3, LenProperties
<1>5. t \in [1..Len(t) -> ToSet(t)]
  BY <1>4 DEF ToSet
<1>6. t \in Seq(ToSet(t))
  BY <1>4, <1>5, SeqDef
<1> QED
  BY <1>3, <1>6 DEF t

\* The mod in hand is loaded, from its entry or from what was worked out.
LEMMA LoadedNext ==
  ASSUME PlaceInv, LoadedInv, pc # "off", at <= Len(Order), UNCHANGED folder,
         NEW changelog, Loaded(changelog), Right(changelog.entries, DOMAIN folder[Mod] \ Aside, changelog.unread)
  PROVE  LoadedInv'
<1>1. /\ loaded \in Seq(ToSet(loaded)) /\ Len(loaded) = at - 1 /\ at \in Nat \ {0}
      /\ \A i \in 1..(at - 1) : Right(loaded[i].entries, DOMAIN folder[Order[i]] \ Aside, loaded[i].unread)
  <2>1. at \in Nat \ {0}
    BY OrderIsASeq DEF PlaceInv
  <2> QED
    BY <2>1 DEF LoadedInv
<1>2. loaded' = Append(loaded, changelog) /\ at' = at + 1 /\ pc' = "loading"
  BY DEF Loaded
<1>3. loaded' \in Seq(ToSet(loaded')) /\ Len(loaded') = at
  BY <1>1, <1>2, Appended
<1>4. loaded'[at] = changelog /\ \A i \in 1..(at - 1) : loaded'[i] = loaded[i]
  BY <1>1, <1>2, Appended
<1>5. ASSUME NEW i \in 1..at PROVE Right(loaded'[i].entries, DOMAIN folder[Order[i]] \ Aside, loaded'[i].unread)
  <2>1. CASE i = at
    BY <1>4, <2>1 DEF Mod
  <2>2. CASE i \in 1..(at - 1)
    BY <1>1, <1>4, <2>2
  <2> QED
    BY <1>1, <2>1, <2>2
<1>6. ToSet(loaded)' = ToSet(loaded') /\ at' - 1 = at
  BY <1>1, <1>2 DEF ToSet
<1> QED
  BY <1>2, <1>3, <1>5, <1>6 DEF LoadedInv, Storing

\* A removal takes whole files, and keeps what the others hold.
LEMMA RemovalKeepsLists ==
  ASSUME NEW x, RemoveFrom(x), EntriesListTheirFiles, UNCHANGED unread
  PROVE  EntriesListTheirFiles'
<1> SUFFICES ASSUME NEW e \in DOMAIN entries', "changelog" \in DOMAIN entries'[e],
                    ReadsAsChangelog(entries'[e]["changelog"])
             PROVE  Right(entries'[e]["changelog"][3], DOMAIN Last(e).files, UnreadOf(e))
  BY DEF EntriesListTheirFiles, UnreadOf
<1>1. /\ e \in DOMAIN entries /\ "changelog" \in DOMAIN entries[e]
      /\ entries'[e]["changelog"] = entries[e]["changelog"]
  <2>1. CASE entries' = [d \in DOMAIN entries \ {x} |-> entries[d]]
    BY <2>1
  <2>2. ASSUME NEW file,
               entries' = [entries EXCEPT ![x] = [f \in DOMAIN entries[x] \ {file} |-> entries[x][f]]]
        PROVE  /\ e \in DOMAIN entries /\ "changelog" \in DOMAIN entries[e]
               /\ entries'[e]["changelog"] = entries[e]["changelog"]
    <3>1. e \in DOMAIN entries
      BY <2>2
    <3>2. CASE e = x
      BY <2>2, <3>1, <3>2
    <3>3. CASE e # x
      BY <2>2, <3>1, <3>3
    <3> QED
      BY <3>1, <3>2, <3>3
  <2> QED
    BY <2>1, <2>2 DEF RemoveFrom
<1> QED
  BY <1>1 DEF EntriesListTheirFiles

\* So does a write of a file: of the changelog it is the list of the mod in hand,
\* or it cannot be read.
LEMMA FileOfEntry ==
  ASSUME NEW file, NEW content, EntriesListTheirFiles, UNCHANGED unread, entries' = With(file, content),
         file = "changelog" /\ ReadsAsChangelog(content) =>
           Right(content[3], DOMAIN Last(dir).files, UnreadOf(dir))
  PROVE  EntriesListTheirFiles'
<1> SUFFICES ASSUME NEW e \in DOMAIN entries', "changelog" \in DOMAIN entries'[e],
                    ReadsAsChangelog(entries'[e]["changelog"])
             PROVE  Right(entries'[e]["changelog"][3], DOMAIN Last(e).files, UnreadOf(e))
  BY DEF EntriesListTheirFiles, UnreadOf
<1>1. e \in DOMAIN entries
  BY DEF With
<1>2. CASE e # dir
  <2>1. entries'[e] = entries[e]
    BY <1>1, <1>2 DEF With
  <2> QED
    BY <1>1, <2>1 DEF EntriesListTheirFiles
<1>3. CASE e = dir
  <2>1. entries'[e] = [f \in DOMAIN entries[e] \cup {file} |-> IF f = file THEN content ELSE entries[e][f]]
    BY <1>1, <1>3 DEF With
  <2>2. CASE file = "changelog"
    <3>1. entries'[e]["changelog"] = content
      BY <2>1, <2>2
    <3> QED
      BY <1>3, <2>2, <3>1
  <2>3. CASE file # "changelog"
    <3>1. "changelog" \in DOMAIN entries[e] /\ entries'[e]["changelog"] = entries[e]["changelog"]
      BY <2>1, <2>3
    <3> QED
      BY <1>1, <3>1 DEF EntriesListTheirFiles
  <2> QED
    BY <2>2, <2>3
<1> QED
  BY <1>2, <1>3

LEMMA CutOfEntry ==
  ASSUME NEW file, NEW content, EntriesListTheirFiles, UNCHANGED unread, CutShort(file, content),
         file = "changelog" => content = ChangelogText(built)
  PROVE  EntriesListTheirFiles'
<1>1. CASE entries' = entries
  BY <1>1 DEF EntriesListTheirFiles, UnreadOf
<1>2. ASSUME NEW part \in Cuts(content), entries' = With(file, part)
      PROVE  EntriesListTheirFiles'
  <2>1. file = "changelog" => ~ReadsAsChangelog(part)
    BY <1>2, PartsAreNotRead
  <2> QED
    BY <1>2, <2>1, FileOfEntry
<1> QED
  BY <1>1, <1>2 DEF CutShort

\* What was not read is noted for the entry that is made, and kept for the others.
LEMMA KeptUnread ==
  ASSUME unread' = {u \in unread : u[1] \in DOMAIN entries \ {dir}} \cup ({dir} \X built.unread)
  PROVE  /\ dir' = dir => UnreadOf(dir)' = built.unread
         /\ \A e \in DOMAIN entries \ {dir} : UnreadOf(e)' = UnreadOf(e)
<1>1. \A u \in {dir} \X built.unread : u[1] = dir /\ u[2] \in built.unread
  OBVIOUS
<1>2. \A what \in built.unread : <<dir, what>> \in {dir} \X built.unread /\ <<dir, what>>[1] = dir /\ <<dir, what>>[2] = what
  OBVIOUS
<1>3. {u \in unread' : u[1] = dir} = {dir} \X built.unread
  BY <1>1
<1>4. ASSUME dir' = dir PROVE UnreadOf(dir)' = built.unread
  <2>1. UnreadOf(dir)' = {u[2] : u \in {dir} \X built.unread}
    BY <1>3, <1>4 DEF UnreadOf
  <2>2. ASSUME NEW what \in built.unread PROVE what \in {u[2] : u \in {dir} \X built.unread}
    BY <1>2
  <2> QED
    BY <1>1, <2>1, <2>2
<1>5. \A e \in DOMAIN entries \ {dir} : {u \in unread' : u[1] = e} = {u \in unread : u[1] = e}
  BY <1>1
<1> QED
  BY <1>4, <1>5 DEF UnreadOf

LEMMA ListsStep ==
  ASSUME PlaceInv, LoadedInv, EntriesListTheirFiles, [Next]_vars
  PROVE  EntriesListTheirFiles'
<1>1. CASE UNCHANGED <<entries, unread>>
  BY <1>1 DEF EntriesListTheirFiles, UnreadOf
<1>2. CASE Clear
  <2>1. RemoveFrom(dir) \/ UNCHANGED entries
    BY <1>2 DEF Clear
  <2> QED
    BY <1>1, <1>2, <2>1, RemovalKeepsLists DEF Clear
<1>3. CASE Create
  <2>1. CASE /\ entries' = [e \in DOMAIN entries \cup {dir} |-> IF e = dir THEN <<>> ELSE entries[e]]
             /\ unread' = {u \in unread : u[1] \in DOMAIN entries \ {dir}} \cup ({dir} \X built.unread)
    <3> SUFFICES ASSUME NEW e \in DOMAIN entries', "changelog" \in DOMAIN entries'[e],
                        ReadsAsChangelog(entries'[e]["changelog"])
                 PROVE  Right(entries'[e]["changelog"][3], DOMAIN Last(e).files, UnreadOf(e)')
      BY DEF EntriesListTheirFiles
    <3>1. DOMAIN <<>> = {}
      OBVIOUS
    <3>2. e # dir
      BY <2>1, <3>1
    <3>3. e \in DOMAIN entries /\ entries'[e] = entries[e]
      BY <2>1, <3>2
    <3>4. UnreadOf(e)' = UnreadOf(e)
      BY <2>1, <3>2, <3>3, KeptUnread
    <3> QED
      BY <3>3, <3>4 DEF EntriesListTheirFiles
  <2> QED
    BY <1>1, <1>3, <2>1 DEF Create
<1>4. ASSUME NEW file \in {"data", "index"}, NEW content, NEW then, Write(file, content, then)
      PROVE  EntriesListTheirFiles'
  <2>1. entries' = With(file, content) \/ CutShort(file, content)
    BY <1>4 DEF Write
  <2>2. UNCHANGED unread
    BY <1>4 DEF Write, history
  <2> QED
    BY <1>4, <2>1, <2>2, FileOfEntry, CutOfEntry
<1>5. CASE WriteData \/ WriteIndex
  BY <1>4, <1>5 DEF WriteData, WriteIndex
<1>6. CASE WriteChangelog
  <2>1. pc = "changelog" /\ UNCHANGED unread
    BY <1>6 DEF WriteChangelog, Write, history
  <2>2. ChangelogText(built)[3] = built.entries
    BY DEF ChangelogText
  <2>3. Right(ChangelogText(built)[3], DOMAIN Last(dir).files, UnreadOf(dir))
    BY <2>1, <2>2 DEF LoadedInv, Storing
  <2>4. entries' = With("changelog", ChangelogText(built)) \/ CutShort("changelog", ChangelogText(built))
    BY <1>6 DEF WriteChangelog, Write
  <2> QED
    BY <2>1, <2>3, <2>4, FileOfEntry, CutOfEntry
<1>7. ASSUME NEW entry \in victims, Prune(entry) PROVE EntriesListTheirFiles'
  <2>1. RemoveFrom(entry) \/ UNCHANGED entries
    BY <1>7 DEF Prune
  <2> QED
    BY <1>1, <1>7, <2>1, RemovalKeepsLists DEF Prune
<1>8. CASE PowerCut
  <2>1. \/ CutShort("data", Blob(built)) \/ CutShort("index", IndexText(built))
        \/ CutShort("changelog", ChangelogText(built)) \/ UNCHANGED entries
    BY <1>8 DEF PowerCut
  <2>2. UNCHANGED unread
    BY <1>8 DEF PowerCut
  <2> QED
    BY <1>1, <2>1, <2>2, CutOfEntry
<1>9. CASE ListEntries \/ LoadCached \/ WorkOut \/ Pruned \/ Merge \/ Finish \/ Start
  BY <1>1, <1>9 DEF ListEntries, LoadCached, WorkOut, Pruned, Merge, Finish, Start, history
<1>10. CASE UpdateGame \/ \E mod \in Mods : ChangeFolder(mod)
  BY <1>1, <1>10 DEF UpdateGame, ChangeFolder, Engine, history
<1>11. CASE UNCHANGED vars
  BY <1>1, <1>11 DEF vars, history
<1> QED
  BY <1>2, <1>3, <1>5, <1>6, <1>7, <1>8, <1>9, <1>10, <1>11 DEF Next

\* While neither the mod in hand nor what is loaded changes.
LEMMA LoadedStays ==
  ASSUME LoadedInv, UNCHANGED <<folder, at, loaded>>, pc # "off",
         pc' = "merging" => at > Len(Order),
         pc' \in Storing => /\ Right(built'.entries, DOMAIN folder[Mod] \ Aside, built'.unread)
                            /\ Right(built'.entries, DOMAIN Last(dir').files, built'.unread),
         pc' \in {"data", "index", "changelog"} => UnreadOf(dir)' = built'.unread
  PROVE  LoadedInv'
<1>1. Mod' = Mod /\ ToSet(loaded)' = ToSet(loaded)
  BY DEF Mod, ToSet
<1> QED
  BY <1>1 DEF LoadedInv

LEMMA LoadedStep ==
  ASSUME PlaceInv, LoadedInv, EntriesListTheirFiles, [Next]_vars
  PROVE  LoadedInv'
<1> USE DEF Storing
<1>1. ASSUME pc \in Storing, GiveUp, UNCHANGED folder PROVE LoadedInv'
  <2>1. at <= Len(Order) /\ Right(built.entries, DOMAIN folder[Mod] \ Aside, built.unread)
    BY <1>1 DEF PlaceInv, LoadedInv
  <2>2. InMemory(built).entries = built.entries /\ InMemory(built).unread = built.unread
    BY DEF InMemory
  <2> QED
    BY <1>1, <2>1, <2>2, LoadedNext DEF GiveUp
<1>2. ASSUME pc \in Storing, pc' \in Storing, UNCHANGED <<folder, at, loaded, dir, built>>,
             \/ UNCHANGED unread /\ (pc' \in {"data", "index", "changelog"} => pc \in {"data", "index", "changelog"})
             \/ UnreadOf(dir)' = built.unread
      PROVE  LoadedInv'
  <2>1. /\ Right(built.entries, DOMAIN folder[Mod] \ Aside, built.unread)
        /\ Right(built.entries, DOMAIN Last(dir).files, built.unread)
    BY <1>2 DEF LoadedInv
  <2>2. pc' \in {"data", "index", "changelog"} => UnreadOf(dir)' = built'.unread
    BY <1>2 DEF LoadedInv, UnreadOf
  <2> QED
    BY <1>2, <2>1, <2>2, LoadedStays
<1>3. CASE pc' = "off"
  BY <1>3 DEF LoadedInv
<1>4. CASE (\E mod \in Mods : ChangeFolder(mod)) \/ UpdateGame \/ Finish \/ PowerCut
  BY <1>3, <1>4 DEF ChangeFolder, UpdateGame, Engine, Finish, PowerCut
<1>5. CASE Start
  <2>1. loaded' = <<>> /\ at' = 1 /\ pc' = "loading"
    BY <1>5 DEF Start
  <2>2. <<>> \in Seq(ToSet(<<>>)) /\ Len(<<>>) = 0
    BY EmptySeq
  <2>3. ToSet(loaded)' = ToSet(<<>>) /\ 1..(at' - 1) = {}
    BY <2>1 DEF ToSet
  <2> QED
    BY <2>1, <2>2, <2>3 DEF LoadedInv
<1>6. CASE LoadCached
  <2>1. pc = "loading" /\ at <= Len(Order) /\ UNCHANGED folder
    BY <1>6 DEF LoadCached, world
  <2>2. PICK lost \in ListingLosses :
          Loadable(EntryOf(Mod, lost)) /\ Loaded(Load(EntryOf(Mod, lost), lost))
    BY <1>6 DEF LoadCached
  <2> DEFINE e == EntryOf(Mod, lost)
             changelog == Load(e, lost)
  <2>3. changelog.entries = entries[e]["changelog"][3] /\ changelog.unread = Kinds(lost) \cup UnreadOf(e)
    BY DEF Load
  <2>4. Right(entries[e]["changelog"][3], DOMAIN Last(e).files, UnreadOf(e))
    BY <2>2 DEF Loadable, EntriesListTheirFiles
  <2>5. "listing" \notin Kinds(lost) => DOMAIN Last(e).files = DOMAIN folder[Mod] \ Aside
    BY <2>1, ModInHand, FingerprintOfEntry, NothingLost
  <2> HIDE DEF e, changelog
  <2>6. Right(changelog.entries, DOMAIN folder[Mod] \ Aside, changelog.unread)
    BY <2>3, <2>4, <2>5 DEF Right, ListsAFolder
  <2>7. Loaded(changelog)
    BY <2>2 DEF e, changelog
  <2> QED
    BY <2>1, <2>6, <2>7, LoadedNext
<1>7. CASE WorkOut
  <2>1. /\ pc = "loading" /\ at <= Len(Order) /\ pc' \in {"clearing", "creating"} /\ UNCHANGED <<folder, at, loaded>>
    BY <1>7 DEF WorkOut, world
  <2>2. PICK lost \in Losses : dir' = EntryOf(Mod, lost) /\ built' = Build(Mod, folder[Mod], game, lost)
    BY <1>7 DEF WorkOut
  <2>3. Mod \in Mods
    BY <2>1, ModInHand
  <2>4. /\ Right(built'.entries, DOMAIN folder[Mod] \ Aside, built'.unread)
        /\ Right(built'.entries, DOMAIN Last(dir').files, built'.unread)
    BY <2>2, <2>3, BuiltLists
  <2> QED
    BY <2>1, <2>4, LoadedStays
<1>8. CASE Clear
  BY <1>1, <1>2, <1>8 DEF Clear, GiveUp, world
<1>9. CASE Create
  <2>1. CASE GiveUp
    BY <1>1, <1>9, <2>1 DEF Create, world
  <2>2. CASE ~GiveUp
    <3>1. /\ pc = "creating" /\ pc' = "data" /\ UNCHANGED <<folder, at, loaded, dir, built>>
          /\ unread' = {u \in unread : u[1] \in DOMAIN entries \ {dir}} \cup ({dir} \X built.unread)
      BY <1>9, <2>2 DEF Create, world
    <3> QED
      BY <1>2, <3>1, KeptUnread
  <2> QED
    BY <2>1, <2>2
<1>10. CASE WriteData \/ WriteIndex \/ WriteChangelog
  BY <1>1, <1>2, <1>10 DEF WriteData, WriteIndex, WriteChangelog, Write, GiveUp, world, history
<1>11. CASE ListEntries
  BY <1>1, <1>2, <1>11 DEF ListEntries, GiveUp, world, history
<1>12. ASSUME NEW entry \in victims, Prune(entry) PROVE LoadedInv'
  BY <1>2, <1>12 DEF Prune, world
<1>13. CASE Pruned
  <2>1. pc = "pruning" /\ Loaded(InMemory(built)) /\ UNCHANGED folder
    BY <1>13 DEF Pruned, world
  <2>2. /\ at <= Len(Order)
        /\ Right(InMemory(built).entries, DOMAIN folder[Mod] \ Aside, InMemory(built).unread)
    BY <2>1 DEF PlaceInv, LoadedInv, InMemory
  <2> QED
    BY <2>1, <2>2, LoadedNext
<1>14. CASE Merge
  <2>1. pc = "loading" /\ at > Len(Order) /\ pc' = "merging" /\ UNCHANGED <<folder, at, loaded>>
    BY <1>14 DEF Merge, world
  <2> QED
    BY <2>1, LoadedStays
<1>15. CASE UNCHANGED vars
  BY <1>15 DEF vars, world, history, LoadedInv, UnreadOf, Mod, ToSet
<1> QED
  BY <1>4, <1>5, <1>6, <1>7, <1>8, <1>9, <1>10, <1>11, <1>12, <1>13, <1>14, <1>15 DEF Next

-----------------------------------------------------------------------------
(* The theorems.                                                           *)

\* Every entry is some mod's, prune only deletes those of the name in hand, and
\* of each name there are no more than failed calls and power cuts left.
THEOREM EntriesAreAccountedFor == Spec => [](PlaceInv /\ VictimsInv /\ CountInv)
<1>1. Init => PlaceInv /\ VictimsInv /\ CountInv
  BY AtFirst
<1>2. PlaceInv /\ VictimsInv /\ CountInv /\ [Next]_vars => (PlaceInv /\ VictimsInv /\ CountInv)'
  BY PlaceStep, VictimsStep, CountStep
<1> QED
  BY <1>1, <1>2, PTL DEF Spec

\* cache.rs prune: whatever failed and however often the power went, the entries
\* of a mod's name are the last one and one for each of these at most.
THEOREM CardDoesNotFill == Spec => []EntriesDoNotPileUp
<1>1. PlaceInv /\ CountInv => EntriesDoNotPileUp
  <2> SUFFICES ASSUME PlaceInv, CountInv, pc \in {"off", "merging"}, NEW mod \in Mods
               PROVE  Cardinality(EntriesOf(mod)) <= 1 + faults + crashes
    BY DEF EntriesDoNotPileUp
  <2>1. Allowed(mod) = 1 + faults + crashes
    BY DEF Allowed, Extra, Storing, PlaceInv
  <2> QED
    BY <2>1 DEF CountInv
<1> QED
  BY <1>1, EntriesAreAccountedFor, PTL

\* cache.rs prune, store: loading a mod takes nothing from the entries of mods
\* whose names look otherwise, even when one name begins with the other.
THEOREM OthersAreLeftAlone == Spec => OthersKeepTheirEntries
<1>1. ASSUME PlaceInv, VictimsInv, [Next]_vars
      PROVE  [\A mod \in Mods : (pc # "off" /\ at <= Len(Order) /\ ~SameSafeName(Mod, mod)) =>
                \A e \in EntriesOf(mod) : e \in DOMAIN entries' /\ entries'[e] = entries[e]]_vars
  <2> SUFFICES ASSUME NEW mod \in Mods, pc # "off", at <= Len(Order), ~SameSafeName(Mod, mod),
                      NEW e \in EntriesOf(mod)
               PROVE  e \in DOMAIN entries' /\ entries'[e] = entries[e]
    OBVIOUS
  <2>1. Front(e) = Begins(mod) /\ e \in DOMAIN entries
    BY DEF EntriesOf, Begins
  <2>2. Begins(mod) # Begins(Mod)
    BY <1>1, ModInHand, BeginAlike
  <2> QED
    BY <1>1, <2>1, <2>2, OnlyItsOwn
<1> QED
  BY <1>1, EntriesAreAccountedFor, PTL DEF Spec, OthersKeepTheirEntries

\* content_fingerprint, load_folder: the changes of a mod whose folder could be
\* listed for its fingerprint are of the files the folder holds now, kept from an
\* earlier merge or not, whichever writes and removals failed, whenever the power
\* went, and however names look alike; all of them, unless a read of the folder
\* failed when they were worked out.
ListsAreOfNow ==
  pc = "merging" =>
    \A i \in 1..Len(Order) :
      "listing" \notin loaded[i].unread =>
        ListsAFolder(loaded[i].entries, DOMAIN folder[Order[i]] \ Aside, loaded[i].unread)

THEOREM NoListIsStale == Spec => []ListsAreOfNow
<1>1. Init => LoadedInv /\ EntriesListTheirFiles
  BY DEF Init, LoadedInv, EntriesListTheirFiles, Storing
<1>2. PlaceInv /\ LoadedInv /\ EntriesListTheirFiles /\ [Next]_vars => (LoadedInv /\ EntriesListTheirFiles)'
  BY LoadedStep, ListsStep
<1>3. PlaceInv /\ LoadedInv => ListsAreOfNow
  <2> SUFFICES ASSUME PlaceInv, LoadedInv, pc = "merging", NEW i \in 1..Len(Order), "listing" \notin loaded[i].unread
               PROVE  ListsAFolder(loaded[i].entries, DOMAIN folder[Order[i]] \ Aside, loaded[i].unread)
    BY DEF ListsAreOfNow
  <2>1. i \in 1..(at - 1)
    BY OrderIsASeq DEF PlaceInv, LoadedInv
  <2> QED
    BY <2>1 DEF LoadedInv, Right
<1> QED
  BY <1>1, <1>2, <1>3, EntriesAreAccountedFor, PTL DEF Spec
=============================================================================
