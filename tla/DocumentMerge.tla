--------------------------- MODULE DocumentMerge ---------------------------
(***************************************************************************)
(* One document several mods change: each mod's file becomes a changelog   *)
(* (byml_changelog.rs build_document), conflicts between the changelogs    *)
(* are looked for (conflicts.rs), and they are applied to vanilla one      *)
(* after the other, lowest priority first (byml_merge.rs merge_documents). *)
(* The game's databases go the same way, each with functions of its own    *)
(* (rsdb.rs, gamedata.rs): which ones the file's name decides (builder.rs, *)
(* merger.rs).                                                             *)
(***************************************************************************)
EXTENDS Conflicts, Tables

\* What may be merged: records [kind, bgyml, vanilla, docs, mods].
CONSTANT Cases

Kinds == {"document", "rows", "package rows", "gamedata", "tags"}

VARIABLES
  kind,           \* what the document is; "package rows": changelogs that remove rows
  bgyml, vanilla, \* the document's type, and the game's own version of it
  mods,           \* the mods' versions, lowest priority first
  merged,         \* the document so far
  tracking,       \* what is noted for the end
  next,           \* the mod to merge next
  status          \* "merging", "done", "failed"

inputs == <<kind, bgyml, vanilla, mods>>
vars == <<inputs, merged, tracking, next, status>>

UnlessUnchanged(change) == When(~Unchanged(change, vanilla), change)

\* No changelog at all when the mod's version is vanilla's.
ChangelogOfMod(doc) ==
  CASE kind = "document" -> UnlessUnchanged(LogChanges(bgyml, doc, vanilla))
    [] kind \in {"rows", "package rows"} -> RowChangelog(kind = "package rows", doc, vanilla)
    [] kind = "gamedata" -> GameDataChangelog(doc, vanilla)
    [] kind = "tags" -> TagChangelog(doc, vanilla)

\* find, for one document: the values that collide.  Tags are not looked into.
Reported ==
  IF kind = "tags" THEN {}
  ELSE Collisions([m \in DOMAIN mods |->
         UNION {Collect(change, <<>>) : change \in ToSet(ChangelogOfMod(mods[m]))}])

\* One changelog, on what the ones before made of the document.
MergeChangelog(st, change) ==
  CASE kind = "document" -> Merge(st.node, change, st.tracking, <<>>)
    [] kind \in {"rows", "package rows"} -> MergeRows(st, change)
    [] kind = "gamedata" -> MergeGameData(st, change)
    [] kind = "tags" -> [st EXCEPT !.node = MergeTags(@, change)]
MergeMod(st, doc) == FoldLeft(MergeChangelog, st, ChangelogOfMod(doc))

Start == [node |-> vanilla, tracking |-> IF kind = "gamedata" THEN GameDataTracking ELSE NoTracking]

\* What comes when all are merged.
Finished(node, noted) ==
  CASE kind = "document" -> Applied(bgyml, node, noted, <<>>)
    [] kind \in {"rows", "package rows"} -> RowsApplied(node, noted)
    [] kind = "gamedata" -> GameDataApplied(node, noted)
    [] kind = "tags" -> TagsCompiled(node)

Init ==
  /\ \E c \in Cases :
       /\ kind = c.kind /\ bgyml = c.bgyml /\ vanilla = c.vanilla
       /\ \E n \in 1..c.mods : mods \in [1..n -> c.docs]
  /\ merged = Start.node /\ tracking = Start.tracking /\ next = 1 /\ status = "merging"

\* The next changelog is merged; an error gives up the document.
MergeNext ==
  /\ status = "merging" /\ next <= Len(mods)
  /\ \E st \in {MergeMod([node |-> merged, tracking |-> tracking], mods[next])} :
       /\ merged' = st.node /\ tracking' = st.tracking
       /\ status' = IF IsWhole(st.node) THEN "merging" ELSE "failed"
  /\ next' = next + 1
  /\ UNCHANGED inputs

\* What was noted is applied, and the document completed.
Apply ==
  /\ status = "merging" /\ next > Len(mods)
  /\ merged' = Finished(merged, tracking)
  /\ status' = IF IsWhole(merged') THEN "done" ELSE "failed"
  /\ UNCHANGED <<inputs, tracking, next>>

Next == MergeNext \/ Apply
Spec == Init /\ [][Next]_vars

-----------------------------------------------------------------------------
(* What a merge promises, said of documents and not of changelogs: a three *)
(* way merge.  A key, a row or a place that no mod changed is vanilla's;   *)
(* one that some changed is what the mod with the highest priority among   *)
(* them made of it, key by key when they all left a map.                   *)

Absent == [type |-> "absent"]

\* Tables of rows and saved values seen as a document with tables.
Body(doc) ==
  CASE kind \in {"rows", "package rows"} /\ IsArray(doc) -> MapOf("Rows" :> doc)
    [] kind = "gamedata" /\ doc.type = "map" -> doc.entries["Data"]
    [] OTHER -> doc

\* How the entries of an array are told apart, and by which field.
Reference(name) ==
  CASE kind \in {"rows", "package rows"} /\ name = "Rows" -> [builder |-> "Keyed", field |-> RowKey]
    [] kind = "gamedata" /\ name \in DOMAIN DataOf(vanilla) \cup {"DefaultValue"} -> [builder |-> "Keyed", field |-> Hash]
    [] kind = "gamedata" /\ name = "RawValues" -> [builder |-> "DirectIndex", field |-> NoName]
    [] OTHER -> [builder |-> ArrayBuilder(name, bgyml), field |-> MergerKeyName(name, bgyml)]

\* What a mod made of vanilla: a table of rows may leave out what it keeps.
Version(doc) ==
  IF kind = "rows"
  THEN Body(ArrayOf(doc.items \o SelectSeq(vanilla.items, LAMBDA row : \A own \in ToSet(doc.items) :
                                            KeyOf(own, RowKey) # KeyOf(row, RowKey))))
  ELSE Body(doc)
Versions == [m \in DOMAIN mods |-> Version(mods[m])]

At(node, key) == IF node.type = "map" /\ key \in DOMAIN node.entries THEN node.entries[key] ELSE Absent
Place(node, i) == IF i \in DOMAIN node.items THEN node.items[i] ELSE Absent
RowKeys(node, field) == {KeyOf(item, field) : item \in ToSet(node.items)}
Row(node, field, key) ==
  IF key \notin RowKeys(node, field) THEN Absent
  ELSE CHOOSE item \in ToSet(node.items) : KeyOf(item, field) = key

\* The entries of a list that are, one for one, another's; and the ones that are not.
Shared(list, other) ==
  SelectSeq([i \in DOMAIN list |-> IF Occurrences(list, list[i], i) <= Occurrences(other, list[i], Len(other))
                                   THEN list[i] ELSE Absent], LAMBDA node : node # Absent)
Own(list, other) ==
  SelectSeq([i \in DOMAIN list |-> IF Occurrences(list, list[i], i) > Occurrences(other, list[i], Len(other))
                                   THEN list[i] ELSE Absent], LAMBDA node : node # Absent)

\* Arrays are compared without their order.
BagOf(list) ==
  LET items == SelectSeq(list, LAMBDA node : node # Absent)
  IN  [type |-> "bag", items |-> [x \in ToSet(items) |-> Occurrences(items, x, Len(items))]]

RECURSIVE Unordered(_)

Unordered(node) ==
  CASE node.type = "map" -> MapOf([key \in DOMAIN node.entries |-> Unordered(node.entries[key])])
    [] IsArray(node) -> BagOf([i \in DOMAIN node.items |-> Unordered(node.items[i])])
    [] OTHER -> node

RECURSIVE Expected(_, _, _)

\* Versions of an array: rows by their key, places by their number (what comes
\* after adds up), values by the value (gone when one mod dropped it).
ExpectedArray(name, base, versions) ==
  LET builder == Reference(name).builder
      field == Reference(name).field
      keys == SetToSeq(UNION {RowKeys(node, field) : node \in ToSet(versions) \cup {base}})
      row(key) == Expected(NoName, Row(base, field, key), [m \in DOMAIN versions |-> Row(versions[m], field, key)])
      place(i) == Expected(NoName, base.items[i], [m \in DOMAIN versions |-> Place(versions[m], i)])
      more(version) == SubSeq(version.items, Len(base.items) + 1, Len(version.items))
      all(Of(_)) == FlattenSeq([m \in DOMAIN versions |-> Of(versions[m])])
  IN  BagOf(CASE builder \in {"Keyed", "NameHash"} -> [n \in DOMAIN keys |-> row(keys[n])]
              [] builder = "DirectIndex" -> [i \in DOMAIN base.items |-> place(i)] \o all(more)
              [] builder = "Default" ->
                   FoldLeft(LAMBDA kept, version : Shared(kept, version.items), base.items, versions)
                   \o all(LAMBDA version : Own(version.items, base.items)))

Expected(name, base, versions) ==
  LET changed == {m \in DOMAIN versions : versions[m] # base}
      last == CHOOSE m \in changed : \A n \in changed : n <= m
      left == SelectSeq(versions, LAMBDA version : version # Absent)
      are(type) == base.type \in {type, "absent"} /\ \A version \in ToSet(left) : version.type = type
      keys == UNION {DOMAIN node.entries : node \in (ToSet(left) \cup {base}) \ {Absent}}
      value(key) == Expected(key, At(base, key), [m \in DOMAIN left |-> At(left[m], key)])
  IN  CASE changed = {} -> IF base = Absent THEN Absent ELSE Unordered(base)
        [] changed # {} /\ versions[last] = Absent -> Absent
        [] OTHER ->
             CASE are("map") -> MapOf([key \in {k \in keys : value(k) # Absent} |-> value(key)])
               [] are("array") /\ base # Absent -> ExpectedArray(name, base, left)
               [] OTHER -> Unordered(versions[last])

\* Tags: an entry has one when vanilla's has, unless a mod has the entry with
\* the opposite.
HasTag(doc, key, tag) == tag \in ToSet(doc.entries[key])
ExpectedTags ==
  LET docs == ToSet(mods) \cup {vanilla}
      list == SortedTags(FlattenSeq([m \in DOMAIN mods |-> mods[m].list]) \o vanilla.list)
      given(key, tag) ==
        LET before == key \in DOMAIN vanilla.entries /\ HasTag(vanilla, key, tag)
        IN  before # \E doc \in docs : key \in DOMAIN doc.entries /\ HasTag(doc, key, tag) # before
  IN  TagTable(list, [key \in UNION {DOMAIN doc.entries : doc \in docs} |->
                        SelectSeq(list, LAMBDA tag : given(key, tag))])

-----------------------------------------------------------------------------
(* Properties.                                                             *)

RECURSIVE Comparable(_, _, _)

\* The mod's version has vanilla's shape: no node changes its type, a list
\* compared by value gains or loses entries but does not do both, a "Property"
\* table keeps vanilla's rows in their places, tags are listed in order.
Comparable(name, base, doc) ==
  LET builder == Reference(name).builder
      field == Reference(name).field
      same(key) == Comparable(NoName, Row(base, field, key), Row(doc, field, key))
  IN  /\ doc.type = base.type
      /\ doc.type = "tag table" => doc.list = SortedTags(doc.list)
      /\ doc.type = "map" =>
           \A key \in DOMAIN base.entries \cap DOMAIN doc.entries : Comparable(key, base.entries[key], doc.entries[key])
      /\ IsArray(doc) =>
           CASE builder = "Keyed" -> \A key \in RowKeys(base, field) \cap RowKeys(doc, field) : same(key)
             [] builder = "NameHash" ->
                  \A i \in DOMAIN base.items : KeyOf(Place(doc, i), field) = KeyOf(base.items[i], field)
             [] builder = "Default" ->
                  Own(doc.items, base.items) = <<>> \/ Own(base.items, doc.items) = <<>>
             [] OTHER -> TRUE
AllComparable == \A m \in DOMAIN mods : Comparable(NoName, Body(vanilla), Versions[m])

\* The keyed tables of the document.
KeyedTables ==
  IF kind = "tags" THEN {}
  ELSE {name \in DOMAIN Body(vanilla).entries : IsArray(At(Body(vanilla), name)) /\ Reference(name).field # NoName}
RowOf(doc, name, key) == IF IsArray(At(doc, name)) THEN Row(doc.entries[name], Reference(name).field, key) ELSE Absent
AllKeys(name) == UNION {RowKeys(doc.entries[name], Reference(name).field) :
                          doc \in {d \in ToSet(Versions) \cup {Body(vanilla)} : IsArray(At(d, name))}}

\* Two mods add a row with the same key (where that is merged by place, or holds
\* arrays); one removes a row another changes, and no table of rows is meant.
AddedTwice == \E name \in KeyedTables : \E key \in AllKeys(name), m, n \in DOMAIN mods :
  LET a == RowOf(Versions[m], name, key)
      b == RowOf(Versions[n], name, key)
  IN  /\ m # n /\ RowOf(Body(vanilla), name, key) = Absent /\ Absent \notin {a, b}
      /\ kind = "document" \/ \E field \in DOMAIN a.entries : IsArray(a.entries[field])
RemovedAndChanged == kind = "document" /\ \E name \in KeyedTables : \E key \in AllKeys(name), m, n \in DOMAIN mods :
  /\ RowOf(vanilla, name, key) \notin {Absent, RowOf(mods[n], name, key)}
  /\ RowOf(mods[m], name, key) = Absent /\ RowOf(mods[n], name, key) # Absent

\* Tables of a database that some mod changes are in the order of their keys.
InOrder(node) == kind \in {"rows", "package rows", "gamedata"} => \A name \in KeyedTables :
  LET table(doc) == doc.entries[name]
      rows == table(Body(node)).items
      key(i) == KeyOf(rows[i], Reference(name).field).value
      changed == \E m \in DOMAIN mods : Unordered(table(Versions[m])) # Unordered(table(Body(vanilla)))
  IN  changed => \A i, j \in DOMAIN rows : i < j => key(i) <= key(j)

\* The sizes of the save files are those of a list of saved values.
SizesOf(data) ==
  SaveSizes(vanilla.entries["MetaData"].unnamed,
            [table \in DOMAIN data |-> ArrayOf(SetToSeq(DOMAIN data[table].items))])

\* The merged document is the three-way merge of the mods by priority, whatever
\* the order of the rows in their files; databases come out in the order of their
\* keys, and with the sizes of what they save (totk-mod-merger-plugin/README.md "What merging does";
\* byml_changelog.rs and byml_merge.rs together, rsdb.rs, gamedata.rs).
HighestPriorityDecides ==
  status = "done" /\ AllComparable /\ ~AddedTwice =>
    LET expected == IF kind = "tags" THEN ExpectedTags ELSE Expected(NoName, Body(vanilla), Versions)
    IN  /\ Unordered(Body(merged)) = expected
        /\ InOrder(merged)
        /\ kind = "gamedata" => merged.entries["MetaData"] = SizesOf(expected.entries)

RECURSIVE SameLayout(_, _, _)

SameLayout(name, base, node) ==
  LET field == Reference(name).field
  IN  CASE base.type = "map" ->
             \A key \in DOMAIN base.entries : SameLayout(key, base.entries[key], At(node, key))
        [] IsArray(base) ->
             /\ IF kind = "document" THEN Len(node.items) = Len(base.items) ELSE Len(node.items) >= Len(base.items)
             /\ \A i \in DOMAIN base.items :
                  /\ KeyOf(node.items[i], field) = KeyOf(base.items[i], field)
                  /\ SameLayout(NoName, base.items[i], node.items[i])
        [] OTHER -> TRUE

\* Until everything is applied every key, entry and row stays where vanilla has
\* it, new rows of databases after it: a position in the next changelog means
\* what it meant when the mod was compared with vanilla (byml_merge.rs, "nothing
\* moves until everything is applied").
NothingMoves ==
  status = "merging" /\ next <= Len(mods) /\ AllComparable => SameLayout(NoName, Body(vanilla), Body(merged))

Result(st) == Unordered(IF IsWhole(st.node) THEN Finished(st.node, st.tracking) ELSE Broken)
Merged(list) == Result(FoldLeft(MergeMod, Start, list))

\* When no conflict is reported the mods can be merged in any order: nobody lost
\* anything (conflicts.rs, "only the winner's value is used").
UnreportedModsCommute ==
  status = "done" /\ Reported = {} /\ AllComparable /\ ~AddedTwice => Unordered(merged) = Merged(Reverse(mods))

\* The same, but for a row one mod removes and another changes.
UnreportedModsCommuteUnlessRemoved == ~RemovedAndChanged => UnreportedModsCommute

RECURSIVE IsDocument(_)

\* A document for the game: no changelog, no marker, in any place.
IsDocument(node) ==
  CASE node.type = "map" -> \A key \in DOMAIN node.entries : IsDocument(node.entries[key])
    [] IsArray(node) -> \A i \in DOMAIN node.items : IsDocument(node.items[i])
    [] OTHER -> node.type \in {"scalar", "null", "tag table", "metadata"}

\* No key is a map in one version of the document and an array in another: a
\* merge of the two is refused.
ContainersAgree == kind = "document" => \A key \in UNION {DOMAIN doc.entries : doc \in ToSet(mods) \cup {vanilla}} :
  Cardinality({At(doc, key).type : doc \in ToSet(mods) \cup {vanilla}} \cap {"map", "array"}) <= 1

\* Mods nothing is reported of merge without an error, into a document without
\* leftovers of changelogs, even when they change the type of a node
\* (byml_merge.rs merge, conflicts.rs collisions).
UnreportedMergesAreClean ==
  Reported = {} /\ ContainersAgree => status # "failed" /\ (status = "done" => IsDocument(merged))

\* A table has one row for a key, when vanilla and each mod have
\* (byml_merge.rs merge_keyed_additions, "merge them into one").
RowsAreUnique == status = "done" => \A name \in KeyedTables :
  IsArray(At(Body(merged), name)) =>
    Cardinality(RowKeys(Body(merged).entries[name], Reference(name).field)) = Len(Body(merged).entries[name].items)

\* The same, of one or two mods.
RowsOfTwoModsAreUnique == Len(mods) <= 2 => RowsAreUnique

\* One mod alone is what was installed: the merged document is the mod's.
OneModIsKept == status = "done" /\ Len(mods) = 1 => Unordered(Body(merged)) = Unordered(Version(mods[1]))
=============================================================================
