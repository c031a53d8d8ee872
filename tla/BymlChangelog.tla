--------------------------- MODULE BymlChangelog ---------------------------
(***************************************************************************)
(* Turning a modded document into a changelog against vanilla              *)
(* (sharedlibs/totk-merge/src/byml_changelog.rs).  The bgyml type of the   *)
(* document decides how some arrays are compared.                          *)
(***************************************************************************)
EXTENDS Byml

\* What log_changes_inline returns: the changelog says nothing.
Unchanged(change, vanilla) ==
  CASE change.type = "map" /\ vanilla.type = "map" -> DOMAIN change.entries = {}
    [] change.type = "array changelog" -> change.changes = <<>>
    [] OTHER -> change = vanilla

RECURSIVE LogChanges(_, _, _)

\* A change for each entry of a list, or none.
PerEntry(list, Changes(_)) == FlattenSeq([i \in DOMAIN list |-> Changes(i)])
When(condition, change) == IF condition THEN <<change>> ELSE <<>>
Edit(index, change, vanilla, key) == When(~Unchanged(change, vanilla), Change(index, "edit", change, key))
Removals(vanilla, Found(_)) ==
  PerEntry(vanilla, LAMBDA i : When(~Found(i), Change(i, "remove", Null, NoKey)))

Occurrences(list, element, n) == Cardinality({i \in 1..n : list[i] = element})

\* Below, edits[i][j] is the changelog of the mod's entry i against vanilla's j.

\* default_array_changes: entries matched by value, each with the first left.
\* An entry that is not vanilla edits the one at its place when that is gone;
\* each edit takes the first addition out of the queue.
DefaultChanges(edits, src, vanilla) ==
  LET isVanilla(i) == Occurrences(src, src[i], i) <= Occurrences(vanilla, src[i], Len(vanilla))
      found(i) == Occurrences(vanilla, vanilla[i], i) <= Occurrences(src, vanilla[i], Len(src))
      new == {i \in DOMAIN src : ~isVanilla(i)}
      edited == {i \in new \cap DOMAIN vanilla : ~found(i)}
      queue == SetToSortSeq(new, <)
      additions == SubSeq(queue, Cardinality(edited) + 1, Len(queue))
  IN  PerEntry(vanilla, LAMBDA i :
        IF i \in edited THEN <<Change(i, "edit", edits[i][i], NoKey)>>
        ELSE When(~found(i), Change(i, "remove", Null, NoKey)))
      \o PerEntry(additions, LAMBDA n :
        <<Change(Head(additions), "add", src[additions[n]], NoKey)>>)

\* keyed_array_changes: entries matched by their key.
KeyedChanges(field, edits, src, vanilla) ==
  LET at(i) == IndexOf(vanilla, field, KeyOf(src[i], field))
      relative(i) == i - Cardinality({j \in 1..(i - 1) : at(j) = 0})
      place(i) == IF KeyOf(src[i], field) # NoKey /\ Len(vanilla) < relative(i) THEN i ELSE relative(i)
  IN  PerEntry(src, LAMBDA i :
        IF at(i) = 0 THEN <<Change(place(i), "add", src[i], NoKey)>>
        ELSE Edit(at(i), edits[i][at(i)], vanilla[at(i)], KeyOf(src[i], field)))
      \o Removals(vanilla, LAMBDA i : \E j \in DOMAIN src : at(j) = i)

\* name_hash_array_changes: the first vanilla entry with the hash; what is
\* marked as found is the entry's own position.
NameHashChanges(edits, src, vanilla) ==
  LET hash(node) == KeyOf(node, "NameHash")
      same(i) == {j \in DOMAIN vanilla : hash(vanilla[j]) = hash(src[i]) /\ hash(src[i]) # NoKey}
      at(i) == CHOOSE j \in same(i) : \A k \in same(i) : j <= k
  IN  PerEntry(src, LAMBDA i :
        IF same(i) = {} THEN <<Change(i, "add", src[i], NoKey)>>
        ELSE Edit(at(i), edits[i][at(i)], vanilla[at(i)], hash(src[i])))
      \o Removals(vanilla, LAMBDA i : i \in DOMAIN src /\ same(i) # {})

\* direct_index_array_changes: position by position.
DirectIndexChanges(edits, src, vanilla) ==
  PerEntry(src, LAMBDA i :
    IF i \notin DOMAIN vanilla THEN <<Change(i, "add", src[i], NoKey)>>
    ELSE Edit(i, edits[i][i], vanilla[i], NoKey))
  \o Removals(vanilla, LAMBDA i : i \in DOMAIN src)

\* log_array_changes
ArrayChanges(builder, field, edits, src, vanilla) ==
  CASE builder = "Default" -> DefaultChanges(edits, src, vanilla)
    [] builder = "Keyed" -> KeyedChanges(field, edits, src, vanilla)
    [] builder = "NameHash" -> NameHashChanges(edits, src, vanilla)
    [] builder = "DirectIndex" -> DirectIndexChanges(edits, src, vanilla)
LogArray(builder, field, bgyml, src, vanilla) ==
  ChangelogOf(ArrayChanges(builder, field,
    [i \in DOMAIN src |-> [j \in DOMAIN vanilla |-> LogChanges(bgyml, src[i], vanilla[j])]], src, vanilla))

\* Of what is logged by key, the keys that differ from vanilla.
Differing(logged, vanilla) ==
  Restrict(logged, {key \in DOMAIN logged : key \in DOMAIN vanilla => ~Unchanged(logged[key], vanilla[key])})

\* log_map_changes: keys equal to vanilla are dropped, those it has and the mod
\* has not become removals.  Builder says how the arrays of the map itself are
\* compared.
LogMapWith(Builder(_), bgyml, src, vanilla) ==
  LET logged(key) ==
        CASE key \notin DOMAIN src -> Removal
          [] key \notin DOMAIN vanilla -> src[key]
          [] OTHER ->
               IF IsArray(src[key]) /\ IsArray(vanilla[key])
               THEN LogArray(Builder(key).builder, Builder(key).field, bgyml, src[key].items, vanilla[key].items)
               ELSE LogChanges(bgyml, src[key], vanilla[key])
  IN  MapOf(Differing([key \in DOMAIN src \cup DOMAIN vanilla |-> logged(key)], vanilla))

\* default_provider
DefaultBuilder(name, bgyml) == [builder |-> ArrayBuilder(name, bgyml), field |-> CommonKeyName(name, bgyml)]
LogMap(bgyml, src, vanilla) == LogMapWith(LAMBDA name : DefaultBuilder(name, bgyml), bgyml, src, vanilla)

\* log_changes_inline, log_changes_with
LogChanges(bgyml, src, vanilla) ==
  CASE src.type # vanilla.type -> src
    [] src.type = "map" -> LogMap(bgyml, src.entries, vanilla.entries)
    [] src.type = "array" -> LogArray("Default", NoName, bgyml, src.items, vanilla.items)
    [] OTHER -> src
=============================================================================
