----------------------------- MODULE BymlMerge -----------------------------
(***************************************************************************)
(* Applying the changelogs of mods, lowest priority first, on top of a     *)
(* vanilla document (sharedlibs/totk-merge/src/byml_merge.rs).  Removals,  *)
(* and additions to arrays, are noted while changelogs are merged and      *)
(* applied once at the end, so that positions in every changelog go on     *)
(* meaning vanilla's.                                                      *)
(*                                                                         *)
(* A path is the sequence of keys and positions from the root.  A merge    *)
(* that fails gives up the document: Broken stands where it failed.        *)
(***************************************************************************)
EXTENDS BymlChangelog, TLC

Broken == [type |-> "broken"]
KeySegment(key) == <<"key", key>>
IndexSegment(index) == <<"index", index>>

-----------------------------------------------------------------------------
(* Tracking: the keys removed from maps, the removals and additions of     *)
(* arrays, by path.                                                        *)

NoTracking == [removed |-> {}, arrays |-> <<>>]
EntryNamed(name) == [name |-> name, additions |-> <<>>, removals |-> {}]

\* array_entry, arrays.entry: what is noted of an array, a new entry if nothing is.
EntryAt(tracking, path, name) ==
  IF path \in DOMAIN tracking.arrays THEN tracking.arrays[path] ELSE EntryNamed(name)
Noted(tracking, path, entry) == [tracking EXCEPT !.arrays = (path :> entry) @@ @]

\* Tracking::forget: what was noted inside a node that is replaced.
Forget(tracking, path) ==
  LET arrays == {p \in DOMAIN tracking.arrays : ~IsPrefix(path, p)}
  IN  [tracking EXCEPT !.removed = {r \in @ : ~IsPrefix(path, r[1])},
                       !.arrays = [p \in arrays |-> @[p]]]

-----------------------------------------------------------------------------
(* merge: a node and what is noted so far, before and after.               *)

RECURSIVE Merge(_, _, _, _)

\* best_match: the entry an edit is for, 0 if there is none.
BestMatch(items, change, field) ==
  LET inRange == IF change.index \in DOMAIN items THEN change.index ELSE 0
  IN  IF \/ field = NoName \/ change.key = NoKey
         \/ inRange # 0 /\ KeyOf(items[inRange], field) = change.key
      THEN inRange
      ELSE IndexOf(items, field, change.key)

\* An item, or the value of a key, is what came of its merge.
WithItem(st, index, merged) == [node |-> [st.node EXCEPT !.items[index] = merged.node], tracking |-> merged.tracking]
WithValue(st, key, merged) == [node |-> [st.node EXCEPT !.entries[key] = merged.node], tracking |-> merged.tracking]

\* One change of merge_array.
MergeEdit(st, change, name, path) ==
  LET index == BestMatch(st.node.items, change, MergerKeyName(name, ""))
      noted == IF path \in DOMAIN st.tracking.arrays
               THEN [st.tracking EXCEPT !.arrays[path].removals = @ \ {change.index}]
               ELSE st.tracking
      inner == Append(path, IndexSegment(index))
      merged == IF IsContainer(change.node) THEN Merge(st.node.items[index], change.node, noted, inner)
                ELSE [node |-> change.node, tracking |-> Forget(noted, inner)]
  IN  IF index = 0 THEN [node |-> Broken, tracking |-> noted]
      ELSE WithItem(st, index, merged)

\* An addition is noted, with the name of the array unless something was noted
\* of it before; a removal is noted.
NoteAddition(st, change, name, path) ==
  LET entry == EntryAt(st.tracking, path, name)
      added == [entry EXCEPT !.additions = Append(@, [index |-> change.index, node |-> change.node])]
  IN  [st EXCEPT !.tracking = Noted(@, path, added)]

\* Mutant of NoteRemoval: the entry goes at once.
RemoveNow(st, change, path) == [st EXCEPT !.node.items = RemoveAt(@, change.index)]

NoteRemoval(st, change, path) ==
  LET entry == EntryAt(st.tracking, path, NoName)
      removed == [entry EXCEPT !.removals = @ \cup {change.index}]
  IN  [st EXCEPT !.tracking = Noted(@, path, removed)]

MergeChange(st, change, name, path) ==
  CASE st.node = Broken -> st
    [] st.node # Broken /\ change.change = "add" -> NoteAddition(st, change, name, path)
    [] st.node # Broken /\ change.change = "remove" -> NoteRemoval(st, change, path)
    [] st.node # Broken /\ change.change = "edit" -> MergeEdit(st, change, name, path)

\* merge_array
MergeArray(array, changes, name, tracking, path) ==
  FoldLeft(LAMBDA st, change : MergeChange(st, change, name, path),
           [node |-> array, tracking |-> tracking], changes)

\* What becomes of the node of a map a changelog has an entry for.
MergeValue(node, entry, key, tracking, path) ==
  CASE entry.type = "array changelog" /\ IsArray(node) -> MergeArray(node, entry.changes, key, tracking, path)
    [] ~(entry.type = "array changelog" /\ IsArray(node)) /\ IsContainer(entry) /\ IsContainer(node) ->
         Merge(node, entry, tracking, path)
    [] OTHER -> [node |-> entry, tracking |-> Forget(tracking, path)]

\* Mutant of Used: the key stays removed.
StillRemoved(tracking, path, key) == tracking

\* Whatever happens to it next, a key is used again.
Used(tracking, path, key) == [tracking EXCEPT !.removed = @ \ {<<path, key>>}]

\* One key of merge_map.
MergeKey(st, key, entry, path) ==
  LET used == Used(st.tracking, path, key)
      merged == MergeValue(st.node.entries[key], entry, key, used, Append(path, KeySegment(key)))
  IN  CASE entry = Removal -> [st EXCEPT !.tracking.removed = @ \cup {<<path, key>>}]
        [] entry # Removal /\ key \notin DOMAIN st.node.entries ->
             [node |-> [st.node EXCEPT !.entries = (key :> entry) @@ @], tracking |-> used]
        [] OTHER -> WithValue(st, key, merged)

\* merge_map
MergeMap(map, changes, tracking, path) ==
  FoldSet(LAMBDA key, st : MergeKey(st, key, changes[key], path),
          [node |-> map, tracking |-> tracking], DOMAIN changes)

Merge(node, change, tracking, path) ==
  CASE node.type = "map" /\ change.type = "map" -> MergeMap(node, change.entries, tracking, path)
    [] IsArray(node) /\ change.type = "array changelog" ->
         MergeArray(node, change.changes, NoName, tracking, path)
    [] IsArray(node) /\ IsArray(change) ->
         [node |-> ArrayOf(node.items \o change.items), tracking |-> tracking]
    [] OTHER -> [node |-> Broken, tracking |-> tracking]

-----------------------------------------------------------------------------
(* Tracking::apply                                                         *)

RECURSIVE Applied(_, _, _, _)

\* merge_keyed_additions: entries with one key, merged into the first.
Completed(bgyml, st) == Applied(bgyml, st.node, st.tracking, <<>>)
MergeAdditions(bgyml, first, entries) ==
  Completed(bgyml, FoldLeft(LAMBDA st, entry : Merge(st.node, LogChanges(bgyml, entry, first), st.tracking, <<>>),
                            [node |-> first, tracking |-> NoTracking], entries))

\* insert_addition, which remembers where a keyed entry went.
Insert(st, index, node, key) ==
  LET relative == index + st.offset
      at == IF Len(st.items) >= relative THEN relative ELSE Len(st.items) + 1
  IN  [items |-> InsertAt(st.items, at, node), offset |-> st.offset + 1,
       keyed |-> IF key = NoKey THEN st.keyed ELSE (key :> at) @@ st.keyed]

\* Mutant of InsertKey: the entries are inserted one by one.
InsertEach(bgyml, st, index, nodes, key) == FoldLeft(LAMBDA s, node : Insert(s, index, node, key), st, nodes)

\* keyed_additions, for the entries of one key that go to one place: an entry
\* that was inserted for the key before is taken back and merged with them.
InsertKey(bgyml, st, index, nodes, key) ==
  LET known == key \in DOMAIN st.keyed
      all == IF known THEN <<st.items[st.keyed[key]]>> \o nodes ELSE nodes
      taken == IF known THEN [st EXCEPT !.items[st.keyed[key]] = Removal] ELSE st
  IN  IF key = NoKey THEN FoldLeft(LAMBDA s, node : Insert(s, index, node, NoKey), st, nodes)
      ELSE Insert(taken, index, MergeAdditions(bgyml, Head(all), Tail(all)), key)

\* The keys of a list of additions in the order they first come up.
KeysOf(nodes, Key(_)) ==
  FoldLeft(LAMBDA keys, node : IF Key(node) \in ToSet(keys) THEN keys ELSE Append(keys, Key(node)),
           <<>>, nodes)

\* apply_array_entry: removals leave their place empty until the additions, by
\* increasing position, are in.
ApplyArrayEntry(bgyml, items, entry) ==
  LET field == MergerKeyName(entry.name, bgyml)
      key(node) == KeyOf(node, field)
      marked == [i \in DOMAIN items |-> IF i \in entry.removals THEN Removal ELSE items[i]]
      places == SetToSortSeq({a.index : a \in ToSet(entry.additions)}, <)
      at(index) == LET here == SelectSeq(entry.additions, LAMBDA a : a.index = index)
                   IN  [n \in DOMAIN here |-> here[n].node]
      insert(st, index) ==
        FoldLeft(LAMBDA s, k : InsertKey(bgyml, s, index, SelectSeq(at(index), LAMBDA node : key(node) = k), k),
                 st, KeysOf(at(index), key))
      inserted == FoldLeft(insert, [items |-> marked, offset |-> 0, keyed |-> <<>>], places)
  IN  SelectSeq(inserted.items, LAMBDA node : node # Removal)

\* Removed keys go, then arrays are completed, the innermost first.
Applied(bgyml, node, tracking, path) ==
  CASE node.type = "map" ->
         MapOf([key \in {k \in DOMAIN node.entries : <<path, k>> \notin tracking.removed} |->
                  Applied(bgyml, node.entries[key], tracking, Append(path, KeySegment(key)))])
    [] IsArray(node) ->
         LET items == [i \in DOMAIN node.items |->
                         Applied(bgyml, node.items[i], tracking, Append(path, IndexSegment(i)))]
         IN  ArrayOf(IF path \in DOMAIN tracking.arrays
                     THEN ApplyArrayEntry(bgyml, items, tracking.arrays[path]) ELSE items)
    [] OTHER -> node

RECURSIVE IsWhole(_)

\* No merge failed in the document.
IsWhole(node) ==
  CASE node.type = "map" -> \A key \in DOMAIN node.entries : IsWhole(node.entries[key])
    [] IsArray(node) -> \A i \in DOMAIN node.items : IsWhole(node.items[i])
    [] OTHER -> node # Broken
=============================================================================
