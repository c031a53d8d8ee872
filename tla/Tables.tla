------------------------------- MODULE Tables -------------------------------
(***************************************************************************)
(* The game's databases, which are not merged as documents are: tables of  *)
(* rows (sharedlibs/totk-merge/src/rsdb.rs), the table of tags (also       *)
(* there), and the list of saved values (gamedata.rs).                     *)
(*                                                                         *)
(* Rows are known by a field, whose name is "Key" in tables and "Hash" in  *)
(* saved values.  New rows go to the end until everything is merged, so    *)
(* vanilla's stay where they are; then tables are put in order.            *)
(***************************************************************************)
EXTENDS BymlMerge, Integers, FiniteSetsExt

RowKey == "Key"
Hash == "Hash"

\* Where the first row of a key is: a change goes to that one only.
FirstOf(rows, field, key) ==
  LET at == {i \in DOMAIN rows : KeyOf(rows[i], field) = key}
  IN  IF at = {} THEN 0 ELSE CHOOSE i \in at : \A j \in at : i <= j

KeysIn(rows, field) == {KeyOf(row, field) : row \in ToSet(rows)} \ {NoKey}
Ascending(keys) == SetToSortSeq(keys, LAMBDA a, b : a.value < b.value)
\* compare_rows, compare_hashes.
InOrderOf(rows, field) ==
  SortSeq(rows, LAMBDA a, b : /\ NoKey \notin {KeyOf(a, field), KeyOf(b, field)}
                              /\ KeyOf(a, field).value < KeyOf(b, field).value)

\* Rows as they were logged, by key: those that differ from vanilla's (the last
\* row of a key), and those that are gone.
LogByKey(rows, field, logged, vanilla, gone) ==
  LET key(i) == KeyOf(rows[i], field)
      at(i) == IndexOf(vanilla, field, key(i))
      changed == {i \in DOMAIN rows : key(i) # NoKey /\ (at(i) # 0 => ~Unchanged(logged[i], vanilla[at(i)]))}
      last(k) == CHOOSE i \in changed : key(i) = k /\ \A j \in changed : key(j) = k => j <= i
  IN  MapOf([k \in {key(i) : i \in changed} \cup gone |-> IF k \in gone THEN Removal ELSE logged[last(k)]])
UnlessEmpty(change) == When(DOMAIN change.entries # {}, change)

-----------------------------------------------------------------------------
(* Tables of rows.                                                         *)

\* build_row_changelog: what changed in vanilla's rows, and whole new rows.  A
\* row the file lacks is not a change; packages of others may say it is.
RowChangelog(removes, src, vanilla) ==
  LET at(i) == IndexOf(vanilla.items, RowKey, KeyOf(src.items[i], RowKey))
      gone == IF removes THEN KeysIn(vanilla.items, RowKey) \ KeysIn(src.items, RowKey) ELSE {}
  IN  UnlessEmpty(LogByKey(src.items, RowKey,
        [i \in DOMAIN src.items |-> IF at(i) = 0 THEN src.items[i] ELSE LogChanges("", src.items[i], vanilla.items[at(i)])],
        vanilla.items, gone))

\* One key of merge_rows' changelog.
MergeRow(st, key, change) ==
  LET i == FirstOf(st.node.items, RowKey, key)
      kept == IF <<>> \in DOMAIN st.tracking.arrays
              THEN [st.tracking EXCEPT !.arrays[<<>>].removals = @ \ {i}] ELSE st.tracking
  IN  CASE i = 0 /\ change = Removal -> st
        [] i = 0 /\ change # Removal -> [st EXCEPT !.node.items = Append(@, change)]
        [] i # 0 /\ change = Removal -> NoteRemoval(st, Change(i, "remove", Null, NoKey), <<>>)
        [] i # 0 /\ change # Removal -> WithItem(st, i, Merge(st.node.items[i], change, kept, <<IndexSegment(i)>>))

\* A round of merge_rows.
MergeRows(st, changes) ==
  FoldLeft(LAMBDA s, key : MergeRow(s, key, changes.entries[key]), st, Ascending(DOMAIN changes.entries))

\* The end of merge_rows.
RowsApplied(node, tracking) == ArrayOf(InOrderOf(Applied("", node, tracking, <<>>).items, RowKey))

-----------------------------------------------------------------------------
(* The table of tags: a list of tags, and which of them each entry has.    *)

TagTable(list, entries) == [type |-> "tag table", list |-> list, entries |-> entries]
SortedTags(tags) == SetToSortSeq(ToSet(tags), <)

\* A round of tag_changes: vanilla's tags before this one went.
TagRound(st, vanilla, tag) ==
  LET next == st.next + Cardinality({i \in st.next..Len(vanilla) : vanilla[i] < tag})
      same == next <= Len(vanilla) /\ vanilla[next] = tag
      gone == [i \in 1..(next - st.next) |-> <<"remove", vanilla[st.next + i - 1]>>]
  IN  [next |-> IF same THEN next + 1 ELSE next, changes |-> st.changes \o gone \o When(~same, <<"add", tag>>)]

\* tag_changes: two lists compared as if both were in order.
TagChanges(vanilla, modded) ==
  LET st == FoldLeft(LAMBDA s, tag : TagRound(s, vanilla, tag), [next |-> 1, changes |-> <<>>], modded)
  IN  st.changes \o [i \in 1..(Len(vanilla) - st.next + 1) |-> <<"remove", vanilla[st.next + i - 1]>>]

\* build_tag_changelog: new entries with their tags, the changes of vanilla's,
\* and new tags.
TagChangelog(src, vanilla) ==
  LET changes(key) == IF key \in DOMAIN vanilla.entries THEN TagChanges(SortedTags(vanilla.entries[key]), src.entries[key])
                      ELSE [i \in DOMAIN src.entries[key] |-> <<"add", src.entries[key][i]>>]
      changed == {key \in DOMAIN src.entries : key \notin DOMAIN vanilla.entries \/ changes(key) # <<>>}
      new == SelectSeq(src.list, LAMBDA tag : tag \notin ToSet(vanilla.list))
  IN  When(changed # {} \/ new # <<>>,
           [type |-> "tag changelog", entries |-> [key \in changed |-> changes(key)], tags |-> new])

\* The first of a tag goes.
Retagged(tags, change) ==
  IF change[1] = "add" THEN Append(tags, change[2])
  ELSE IF change[2] \in ToSet(tags) THEN RemoveFirst(tags, change[2]) ELSE tags

\* A round of merge_tags.
MergeTags(table, changelog) ==
  LET before(key) == IF key \in DOMAIN table.entries THEN table.entries[key] ELSE <<>>
      changes(key) == IF key \in DOMAIN changelog.entries THEN changelog.entries[key] ELSE <<>>
  IN  TagTable(table.list \o changelog.tags,
               [key \in DOMAIN table.entries \cup DOMAIN changelog.entries |-> FoldLeft(Retagged, before(key), changes(key))])

\* The end of merge_tags: an entry cannot have a tag that is not listed.
TagsCompiled(table) ==
  LET list == SortedTags(table.list)
      listed == \A key \in DOMAIN table.entries : ToSet(table.entries[key]) \subseteq ToSet(list)
  IN  IF listed THEN TagTable(list, [key \in DOMAIN table.entries |->
                                       SelectSeq(list, LAMBDA tag : tag \in ToSet(table.entries[key]))])
      ELSE Broken

-----------------------------------------------------------------------------
(* Saved values: tables by name under "Data", sizes under "MetaData".      *)

Wide == "Bool64bitKey"
DataOf(list) == list.entries["Data"].entries

\* gdl_provider, struct_provider: how the arrays of a row are compared.
BuilderInRow(table, name) ==
  CASE table = Wide -> DefaultBuilder(name, "")
    [] table = "Struct" /\ name = "DefaultValue" -> [builder |-> "Keyed", field |-> Hash]
    [] table = "Struct" /\ name # "DefaultValue" -> [builder |-> "Default", field |-> NoName]
    [] OTHER -> [builder |-> "DirectIndex", field |-> NoName]
LogRow(table, row, vanilla) == LogMapWith(LAMBDA name : BuilderInRow(table, name), "", row.entries, vanilla.entries)

\* log_rows: rows by their hash; that some went is told by how many are left.
TableChanges(table, rows, vanilla) ==
  LET hash(i) == KeyOf(rows[i], Hash)
      at(i) == IndexOf(vanilla, Hash, hash(i))
      kept == {i \in DOMAIN rows : hash(i) = NoKey \/ at(i) # 0}
      gone == IF Cardinality(kept) = Len(vanilla) THEN {} ELSE KeysIn(vanilla, Hash) \ KeysIn(rows, Hash)
  IN  LogByKey(rows, Hash, [i \in DOMAIN rows |-> IF at(i) = 0 THEN rows[i] ELSE LogRow(table, rows[i], vanilla[at(i)])],
               vanilla, gone)

\* build_changelog
ChangedTables(tables) == MapOf(Restrict(tables, {table \in DOMAIN tables : DOMAIN tables[table].entries # {}}))
GameDataChangelog(src, vanilla) ==
  UnlessEmpty(ChangedTables([table \in DOMAIN DataOf(src) |->
    TableChanges(table, DataOf(src)[table].items, DataOf(vanilla)[table].items)]))

\* What merge keeps besides: rows that were added and what comes over them,
\* rows to drop, and tables that were changed.
GameDataTracking == [removed |-> {}, arrays |-> <<>>, added |-> <<>>, dropped |-> {}, touched |-> {}]

WithSaved(st, table, i, merged) ==
  [node |-> [st.node EXCEPT !.entries["Data"].entries[table].items[i] = merged.node], tracking |-> merged.tracking]

\* One row of a changelog's table.
MergeSaved(st, table, hash, change) ==
  LET rows == DataOf(st.node)[table].items
      i == FirstOf(rows, Hash, hash)
      kept == [st.tracking EXCEPT !.dropped = @ \ {<<table, hash>>}]
      added == {n \in DOMAIN st.tracking.added : st.tracking.added[n].row = <<table, hash>>}
      path == <<KeySegment("Data"), KeySegment(table), IndexSegment(i)>>
  IN  CASE i = 0 /\ change = Removal -> st
        [] i = 0 /\ change # Removal ->
             [st EXCEPT !.node.entries["Data"].entries[table].items = Append(@, change),
                        !.tracking.added = Append(@, [row |-> <<table, hash>>, changes |-> <<>>])]
        [] i # 0 /\ change = Removal -> [st EXCEPT !.tracking.dropped = @ \cup {<<table, hash>>}]
        [] i # 0 /\ change # Removal /\ added # {} ->
             [st EXCEPT !.tracking = [kept EXCEPT !.added[CHOOSE n \in added : TRUE].changes = Append(@, change)]]
        [] OTHER -> WithSaved(st, table, i, Merge(rows[i], change, kept, path))

\* A round of merge.
MergeGameData(st, changes) ==
  LET mergeTable(s, table) ==
        FoldLeft(LAMBDA t, hash : MergeSaved(t, table, hash, changes.entries[table].entries[hash]),
                 s, Ascending(DOMAIN changes.entries[table].entries))
      touched == [st EXCEPT !.tracking.touched = @ \cup DOMAIN changes.entries]
  IN  FoldSet(LAMBDA table, s : mergeTable(s, table), touched, DOMAIN changes.entries)

\* Rows several mods added: what the others made of it, over the first.
WithAdded(data, tracking) ==
  LET over(tables, added) ==
        LET table == added.row[1]
            i == FirstOf(tables[table].items, Hash, added.row[2])
        IN  [tables EXCEPT ![table].items[i] =
               MergeAdditions(IF table = "Struct" THEN "Struct" ELSE "", @, added.changes)]
  IN  FoldLeft(over, data, SelectSeq(tracking.added, LAMBDA added : added.changes # <<>>))

\* The rows that are dropped go, and tables that were changed are put in order.
Settled(data, tracking) ==
  [table \in DOMAIN data |->
     LET dropped == {FirstOf(data[table].items, Hash, row[2]) : row \in {r \in tracking.dropped : r[1] = table}}
         left == SelectSeq([i \in DOMAIN data[table].items |-> IF i \in dropped THEN Removal ELSE data[table].items[i]],
                           LAMBDA row : row # Removal)
     IN  ArrayOf(IF table \in tracking.touched THEN InOrderOf(left, Hash) ELSE left)]

-----------------------------------------------------------------------------
(* The sizes of the save files, from the rows (a few tables stand for the  *)
(* others).  A row whose file has no directory counts for all files only.  *)

DefaultSize == 304
Slots == 0..6
SavedTables == {"BoolArray", Wide, "Int", "Int64", "Int64Array", "IntArray"}
Metadata(unnamed, sizes) == [type |-> "metadata", unnamed |-> unnamed, sizes |-> sizes]

\* array_count, where it can be told.
HasCount(row) ==
  \/ {"ArraySize", "Size"} \cap DOMAIN row # {}
  \/ "DefaultValue" \in DOMAIN row /\ IsArray(row["DefaultValue"])
ArrayCount(row) ==
  CASE "ArraySize" \in DOMAIN row -> row["ArraySize"].value
    [] "ArraySize" \notin DOMAIN row /\ "Size" \in DOMAIN row -> row["Size"].value
    [] OTHER -> Len(row["DefaultValue"].items)

\* entry_size: bits are kept in whole words, and in one at least.
EntrySize(table, row) ==
  CASE table = "BoolArray" -> LET words == (ArrayCount(row) + 31) \div 32
                              IN  12 + 4 * (IF words = 0 THEN 1 ELSE words)
    [] table = "IntArray" -> 12 + 4 * ArrayCount(row)
    [] table = "Int64Array" -> 12 + 8 * ArrayCount(row)
    [] table = "Int64" -> 8 + 8
    [] OTHER -> 8

\* calculate_metadata: a file with rows of the wide table has their key once.
SaveSizes(unnamed, data) ==
  LET row(r) == data[r[1]].items[r[2]].entries
      slot(r) == row(r)["SaveFileIndex"].value
      all == UNION {{table} \X DOMAIN data[table].items : table \in SavedTables \cap DOMAIN data}
      saved == {r \in all : data[r[1]].items[r[2]].type = "map" /\ "SaveFileIndex" \in DOMAIN row(r)}
      loose == {r \in saved : slot(r) = -1 \/ slot(r) \in unnamed}
      counted == saved \ {r \in loose : r[1] = Wide}
      within(s) == {r \in counted \ loose : slot(r) = s}
      offset(rows) == 8 * Cardinality({r \in rows : r[1] # Wide})
      keyed == {s \in Slots : \E r \in within(s) : r[1] = Wide}
      size(rows) == MapThenSumSet(LAMBDA r : EntrySize(r[1], row(r)), rows)
      headed(bytes) == IF bytes > 0 THEN bytes + DefaultSize ELSE 0
  IN  IF \/ \E r \in counted \ loose : slot(r) \notin Slots
         \/ \E r \in counted : r[1] \in {"BoolArray", "IntArray", "Int64Array"} /\ ~HasCount(row(r))
      THEN Broken
      ELSE Metadata(unnamed,
             [offsets |-> [s \in Slots |-> headed(offset(within(s)))],
              sizes |-> [s \in Slots |-> headed(size(within(s)) + (IF s \in keyed THEN 8 ELSE 0))],
              allOffset |-> DefaultSize + offset(counted),
              allSize |-> DefaultSize + size(counted) + 8 * Cardinality(keyed)])

\* The end of merge.
Sized(unnamed, data) == MapOf("Data" :> MapOf(data) @@ "MetaData" :> SaveSizes(unnamed, data))
GameDataApplied(node, tracking) ==
  Sized(node.entries["MetaData"].unnamed,
        Settled(WithAdded(DataOf(Applied("", node, tracking, <<>>)), tracking), tracking))
=============================================================================
