-------------------------- MODULE MCDocumentMerge --------------------------
(***************************************************************************)
(* Small documents of every kind: tables of rows, lists, places, maps in   *)
(* maps, and every version a mod can make of them with a few values.       *)
(***************************************************************************)
EXTENDS DocumentMerge

Doc(name, items) == MapOf(name :> ArrayOf(items))
Values(list) == [i \in DOMAIN list |-> Scalar(list[i])]
Lists(name, values, n) == {Doc(name, Values(list)) : list \in BoundedSeq(values, n)}

\* Tables with a key field and a value, no key twice.
TableRow(field, key, value) == MapOf(field :> Scalar(key) @@ "V" :> Scalar(value))
TablesOf(name, field, values, n) ==
  {Doc(name, [i \in DOMAIN list |-> TableRow(field, list[i][1], list[i][2])]) :
     list \in {l \in BoundedSeq((1..3) \X values, n) : \A i, j \in DOMAIN l : i # j => l[i][1] # l[j][1]}}
Table(name, field) == Doc(name, <<TableRow(field, 1, 1), TableRow(field, 2, 1)>>)
TableCase(type, name, field, values, n, some) ==
  [kind |-> "document", bgyml |-> type, vanilla |-> Table(name, field), docs |-> TablesOf(name, field, values, n), mods |-> some]

Bones == TableCase("", "Bones", "BoneName", 1..2, 3, 2)
Actors == TableCase("bcett", "Actors", "Hash", 1..2, 2, 2)
Property == TableCase("", "Property", "NameHash", 1..2, 3, 2)
ThreeMods == TableCase("", "Bones", "BoneName", {1}, 2, 3)

\* Rows that hold lists.
Bone(key, list) == MapOf("BoneName" :> Scalar(key) @@ "Items" :> ArrayOf(Values(list)))
OneOf(key, lists) == {<<>>} \cup {<<Bone(key, list)>> : list \in lists}
RowsWithLists ==
  [kind |-> "document", bgyml |-> "", vanilla |-> Doc("Bones", <<Bone(1, <<1, 2>>), Bone(2, <<1, 2>>)>>), mods |-> 2,
   docs |-> {Doc("Bones", a \o b \o c) : a \in OneOf(1, {<<1, 2>>, <<1>>, <<3, 1, 2>>}),
                                         b \in OneOf(2, {<<1, 2>>, <<2>>, <<1, 2, 3>>}), c \in OneOf(3, {<<1>>})}]

Items == [kind |-> "document", bgyml |-> "", vanilla |-> Doc("Items", Values(<<1, 2, 3>>)), docs |-> Lists("Items", 1..4, 3), mods |-> 1]
ItemsOfTwo == [Items EXCEPT !.mods = 2, !.docs = Lists("Items", 1..3, 4)]
Translate == [kind |-> "document", bgyml |-> "", vanilla |-> Doc("Translate", Values(<<1, 2>>)), docs |-> Lists("Translate", 1..3, 3), mods |-> 2]

\* Maps in a map, which may become values, lists or nothing, and the reverse.
Nodes == {Absent, Scalar(1), Scalar(2), ArrayOf(Values(<<1>>))} \cup
         {MapOf([key \in keys |-> Scalar(f[key])]) : keys \in SUBSET {"A", "B"}, f \in [{"A", "B"} -> 1..2]}
Maps == [kind |-> "document", bgyml |-> "", mods |-> 2,
         vanilla |-> MapOf("M" :> MapOf("A" :> Scalar(1) @@ "B" :> Scalar(1)) @@ "N" :> Scalar(1)),
         docs |-> {MapOf([key \in {k \in {"M", "N"} : f[k] # Absent} |-> f[key]]) :
                     f \in {g \in [{"M", "N"} -> Nodes] : g["N"] \in {Absent, Scalar(1), Scalar(2), MapOf("A" :> Scalar(1))}}}]

-----------------------------------------------------------------------------
(* Databases: two rows of the game's, of which a mod may leave some out, and  *)
(* a new one.                                                              *)

Some(rows) == {<<>>} \cup {<<row>> : row \in rows}
Rows(R(_, _), values, new) ==
  {a \o b \o c : a \in Some({R(1, v) : v \in values}), b \in Some({R(2, v) : v \in new}), c \in Some({R(3, v) : v \in values})}

\* Tables of rows in files, one out of order; rows with lists; and packages.
RowsCase(type, R(_, _), values, new, some) ==
  [kind |-> type, bgyml |-> "", mods |-> some, vanilla |-> ArrayOf(<<R(1, 1), R(3, 1)>>),
   docs |-> {ArrayOf(rows) : rows \in Rows(R, values, new) \cup {<<R(3, 2), R(1, 1)>>}}]
Plain(key, value) == TableRow(RowKey, key, value)
Listed(key, value) ==
  MapOf(RowKey :> Scalar(key) @@ "Items" :> ArrayOf(Values(<<<<1, 2>>, <<1>>, <<3, 1, 2>>>>[value])))
DatabaseRows == RowsCase("rows", Plain, 1..2, 1..2, 2)
ListedRows == RowsCase("rows", Listed, 1..3, {1}, 2)
PackageRows == RowsCase("package rows", Plain, {1}, {1}, 3)

\* Saved values of each kind, in files of the save with a directory and without.
Saved(hash, file, more) == MapOf("Hash" :> Scalar(hash) @@ "SaveFileIndex" :> Scalar(file) @@ more)
SavedCase(table, R(_, _), values, new, some) ==
  LET list(rows) == MapOf("Data" :> MapOf(table :> ArrayOf(rows)) @@ "MetaData" :> Metadata({1}, <<>>))
  IN  [kind |-> "gamedata", bgyml |-> "", mods |-> some, vanilla |-> list(<<R(3, 1), R(1, 1)>>),
       docs |-> {list(rows) : rows \in Rows(R, values, new)}]
Number(hash, value) == Saved(hash, value - 2, "DefaultValue" :> Scalar(value))
Flag(hash, value) == Saved(hash, value - 1, <<>>)
Numbers(hash, value) ==
  LET list == <<<<1, 2>>, <<2, 2>>, <<1, 2, 3>>>>[value]
  IN  Saved(hash, 0, "RawValues" :> ArrayOf(Values(list)) @@ "ArraySize" :> Scalar(Len(list)))
Members(hash, value) ==
  LET member(m, v) == MapOf("Hash" :> Scalar(m) @@ "Value" :> Scalar(v))
      list == <<<<member(1, 1), member(2, 1)>>, <<member(2, 2), member(1, 1)>>, <<member(2, 1)>>,
                <<member(1, 1), member(3, 1), member(2, 2)>>>>[value]
  IN  MapOf("Hash" :> Scalar(hash) @@ "DefaultValue" :> ArrayOf(list))
SavedNumbers == SavedCase("Int", Number, 1..3, {1}, 2)
SavedFlags == SavedCase(Wide, Flag, 1..2, 1..2, 2)
SavedLists == SavedCase("IntArray", Numbers, 1..3, {}, 2)
SavedStructs == SavedCase("Struct", Members, 1..3, {}, 2)
NewMembers == SavedCase("Struct", Members, 1..4, {1}, 1)
SavedByThree == SavedCase("Int", Number, {1}, {1}, 3)

\* Tags, one list out of order.
TagDocs(list, more) ==
  {TagTable(list, "A" :> SelectSeq(list, LAMBDA tag : tag \in tags) @@ rest) : tags \in SUBSET ToSet(list), rest \in more}
Tags == [kind |-> "tags", bgyml |-> "", mods |-> 2, vanilla |-> TagTable(<<1, 3>>, "A" :> <<1>> @@ "B" :> <<1, 3>>),
         docs |-> TagDocs(<<1, 3>>, {<<>>, "B" :> <<1>>, "C" :> <<3>>}) \cup TagDocs(<<1, 2, 3>>, {"C" :> <<2>>})
                  \cup {TagTable(<<2, 3, 1>>, "A" :> <<2, 1>> @@ "B" :> <<3>>)}]
TagsOfThree == [Tags EXCEPT !.mods = 3, !.docs = TagDocs(<<1, 3>>, {<<>>, "B" :> <<1>>})]

AllCases == {Bones, Actors, Property, ThreeMods, RowsWithLists, Items, ItemsOfTwo, Translate, Maps,
             DatabaseRows, ListedRows, PackageRows, SavedNumbers, SavedFlags, SavedLists, SavedStructs, NewMembers,
             SavedByThree, Tags, TagsOfThree}
Databases == {DatabaseRows, ListedRows, PackageRows, SavedNumbers, SavedFlags, SavedLists, SavedStructs, NewMembers,
             SavedByThree, Tags, TagsOfThree}
TwoTables == {Bones}
ThreeTables == {ThreeMods}
OneList == {Items}
=============================================================================
