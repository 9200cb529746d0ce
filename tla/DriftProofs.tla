------------------------------ MODULE DriftProofs ------------------------------
(***************************************************************************)
(* What the report of `dbctx diff` says of any two catalogs, on any        *)
(* engine: applied to the old document it yields the new one, the exit     *)
(* code is 0 exactly when there is nothing to apply, and then the catalogs *)
(* themselves agree.                                                       *)
(***************************************************************************)
EXTENDS Drift, FiniteSetTheorems, TLAPS

-----------------------------------------------------------------------------
(* What diff() promises of the items of a table, for any number of them. *)

\* The items of a catalog: no two have one name.
NamedApart(items) ==
    /\ DOMAIN items \subseteq Nat
    /\ \A i, j \in DOMAIN items : items[i].name = items[j].name => i = j

Names(items) == {items[i].name : i \in DOMAIN items}

\* The map by name holds each item under its own name.
LEMMA ByNameKeepsItems ==
    ASSUME NEW items, NamedApart(items)
    PROVE  /\ ByName(items) = [n \in Names(items) |-> ByName(items)[n]]
           /\ DOMAIN ByName(items) = Names(items)
           /\ \A i \in DOMAIN items : ByName(items)[items[i].name] = items[i]
<1> DEFINE names == [i \in DOMAIN items |-> items[i].name]
<1>1. ASSUME NEW i \in DOMAIN items
      PROVE  LastWith(names, items[i].name) = i
  <2>1. i \in Nat /\ i <= i
    BY DEF NamedApart
  <2>2. \A j \in DOMAIN names : names[j] = items[i].name => j = i
    BY DEF NamedApart
  <2> QED
    BY <2>1, <2>2 DEF LastWith
<1>2. ByName(items) = [k \in Names(items) |-> items[LastWith(names, k)]]
  BY DEF ByName, Collected, Names
<1> HIDE DEF names
<1> QED
  BY <1>1, <1>2 DEF Names

\* The names that both maps have, for different items.
Differing(before, after) == {m \in DOMAIN before \cap DOMAIN after : before[m] # after[m]}

\* What the three loops of diff_columns and its like put in their lists.
LEMMA ThreeLists ==
    ASSUME NEW before, NEW after
    PROVE  /\ ItemChanges(before, after).added = {after[n] : n \in DOMAIN after \ DOMAIN before}
           /\ ItemChanges(before, after).removed = {before[n] : n \in DOMAIN before \ DOMAIN after}
           /\ ItemChanges(before, after).changed
                = {[old |-> before[n], new |-> after[n]] : n \in Differing(before, after)}
BY DEF ItemChanges, Differing

\* A change is listed for each name that differs, and for no other.
LEMMA ChangedPairs ==
    ASSUME NEW before, NEW after
    PROVE  /\ \A c \in ItemChanges(before, after).changed :
                \E n \in Differing(before, after) : c = [old |-> before[n], new |-> after[n]]
           /\ \A n \in Differing(before, after) :
                \E c \in ItemChanges(before, after).changed : c = [old |-> before[n], new |-> after[n]]
<1> DEFINE pair(n) == [old |-> before[n], new |-> after[n]]
<1>1. ItemChanges(before, after).changed = {pair(n) : n \in Differing(before, after)}
  BY ThreeLists
<1> HIDE DEF pair
<1>2. /\ \A c \in ItemChanges(before, after).changed : \E n \in Differing(before, after) : c = pair(n)
      /\ \A n \in Differing(before, after) : \E c \in ItemChanges(before, after).changed : c = pair(n)
  BY <1>1
<1> QED
  BY <1>2 DEF pair

\* The old sides of the changes are the old items, the new sides the new ones.
LEMMA ChangedSides ==
    ASSUME NEW before, NEW after
    PROVE  /\ {c.old : c \in ItemChanges(before, after).changed}
                = {before[n] : n \in Differing(before, after)}
           /\ {c.new : c \in ItemChanges(before, after).changed}
                = {after[n] : n \in Differing(before, after)}
<1>1. \A c \in ItemChanges(before, after).changed :
        \E n \in Differing(before, after) : c.old = before[n] /\ c.new = after[n]
  BY ChangedPairs
<1>2. \A n \in Differing(before, after) :
        \E c \in ItemChanges(before, after).changed : c.old = before[n] /\ c.new = after[n]
  BY ChangedPairs
<1> QED
  BY <1>1, <1>2

\* A report of no change means that the two maps are equal, and equal maps
\* yield no change.
THEOREM NoChangesMeansEqual ==
    ASSUME NEW D, NEW E, NEW V, NEW before \in [D -> V], NEW after \in [E -> V]
    PROVE  IsEmpty(ItemChanges(before, after)) <=> before = after
<1>1. ItemChanges(before, after).added = {} <=> E \subseteq D
  <2>1. ItemChanges(before, after).added = {after[n] : n \in E \ D}
    BY ThreeLists
  <2> QED
    BY <2>1
<1>2. ItemChanges(before, after).removed = {} <=> D \subseteq E
  <2>1. ItemChanges(before, after).removed = {before[n] : n \in D \ E}
    BY ThreeLists
  <2> QED
    BY <2>1
<1>3. ItemChanges(before, after).changed = {} <=> Differing(before, after) = {}
  BY ChangedPairs
<1>4. Differing(before, after) = {} <=> \A n \in D \cap E : before[n] = after[n]
  BY DEF Differing
<1>5. IsEmpty(ItemChanges(before, after)) <=> D = E /\ \A n \in D : before[n] = after[n]
  BY <1>1, <1>2, <1>3, <1>4 DEF IsEmpty
<1> QED
  BY <1>5

\* Comparing the other way round exchanges what was added and what was removed,
\* and the two sides of what differs.
THEOREM ReversedDiffMirrors ==
    ASSUME NEW before, NEW after
    PROVE  /\ ItemChanges(after, before).added = ItemChanges(before, after).removed
           /\ ItemChanges(after, before).removed = ItemChanges(before, after).added
           /\ ItemChanges(after, before).changed
                = {[old |-> c.new, new |-> c.old] : c \in ItemChanges(before, after).changed}
<1>1. /\ ItemChanges(after, before).added = ItemChanges(before, after).removed
      /\ ItemChanges(after, before).removed = ItemChanges(before, after).added
  BY ThreeLists
<1>2. Differing(after, before) = Differing(before, after)
  BY DEF Differing
<1>3. ASSUME NEW d \in ItemChanges(after, before).changed
      PROVE  \E c \in ItemChanges(before, after).changed : d = [old |-> c.new, new |-> c.old]
  <2>1. PICK n \in Differing(before, after) : d = [old |-> after[n], new |-> before[n]]
    BY <1>2, ChangedPairs
  <2>2. PICK c \in ItemChanges(before, after).changed : c = [old |-> before[n], new |-> after[n]]
    BY ChangedPairs
  <2> QED
    BY <2>1, <2>2
<1>4. ASSUME NEW c \in ItemChanges(before, after).changed
      PROVE  [old |-> c.new, new |-> c.old] \in ItemChanges(after, before).changed
  <2>1. PICK n \in Differing(before, after) : c = [old |-> before[n], new |-> after[n]]
    BY ChangedPairs
  <2>2. PICK d \in ItemChanges(after, before).changed : d = [old |-> after[n], new |-> before[n]]
    BY <1>2, ChangedPairs
  <2> QED
    BY <2>1, <2>2
<1> QED
  BY <1>1, <1>3, <1>4

\* The list of changes is complete and consistent: applied to the old items it
\* yields the new ones, whatever the lists are, as long as no two items of one
\* list have one name.
THEOREM PatchYieldsNew ==
    ASSUME NEW before, NEW after, NamedApart(before), NamedApart(after)
    PROVE  /\ Patched(before, diff_columns(before, after)) = {after[i] : i \in DOMAIN after}
           /\ Patched(before, diff_indexes(before, after)) = {after[i] : i \in DOMAIN after}
           /\ Patched(before, diff_foreign_keys(before, after)) = {after[i] : i \in DOMAIN after}
<1> DEFINE o == ByName(before)
           p == ByName(after)
           c == ItemChanges(o, p)
<1>1. /\ DOMAIN o = Names(before) /\ \A i \in DOMAIN before : o[before[i].name] = before[i]
      /\ DOMAIN p = Names(after) /\ \A i \in DOMAIN after : p[after[i].name] = after[i]
  BY ByNameKeepsItems
<1>2. /\ {before[i] : i \in DOMAIN before} = {o[n] : n \in DOMAIN o}
      /\ {after[i] : i \in DOMAIN after} = {p[n] : n \in DOMAIN p}
      /\ \A n \in DOMAIN o : o[n].name = n
      /\ \A n \in DOMAIN p : p[n].name = n
  BY <1>1 DEF Names
<1>3. /\ c.added = {p[n] : n \in DOMAIN p \ DOMAIN o}
      /\ c.removed = {o[n] : n \in DOMAIN o \ DOMAIN p}
      /\ {x.old : x \in c.changed} = {o[n] : n \in Differing(o, p)}
      /\ {x.new : x \in c.changed} = {p[n] : n \in Differing(o, p)}
  <2> HIDE DEF o, p
  <2> QED
    BY ThreeLists, ChangedSides
<1>4. Patched(before, c) = ({o[n] : n \in DOMAIN o} \ (c.removed \cup {x.old : x \in c.changed}))
                        \cup c.added \cup {x.new : x \in c.changed}
  BY <1>2 DEF Patched
<1> HIDE DEF o, p, c
<1>5. ASSUME NEW x PROVE x \in Patched(before, c) <=> x \in {p[n] : n \in DOMAIN p}
  <2>1. ASSUME x \in Patched(before, c) PROVE x \in {p[n] : n \in DOMAIN p}
    BY <2>1, <1>2, <1>3, <1>4, ZenonT(60) DEF Differing
  <2>2. ASSUME NEW n \in DOMAIN p, x = p[n] PROVE x \in Patched(before, c)
    <3>1. CASE n \notin DOMAIN o
      BY <2>2, <3>1, <1>3, <1>4
    <3>2. CASE n \in DOMAIN o /\ o[n] # p[n]
      BY <2>2, <3>2, <1>3, <1>4 DEF Differing
    <3>3. CASE n \in DOMAIN o /\ o[n] = p[n]
      <4>1. x \notin c.removed /\ x \notin {y.old : y \in c.changed}
        BY <2>2, <3>3, <1>2, <1>3 DEF Differing
      <4> QED
        BY <2>2, <3>3, <4>1, <1>4
    <3> QED
      BY <3>1, <3>2, <3>3
  <2> QED
    BY <2>1, <2>2
<1>6. Patched(before, c) = {p[n] : n \in DOMAIN p}
  BY <1>5
<1> QED
  BY <1>2, <1>6 DEF o, p, c, diff_columns, diff_indexes, diff_foreign_keys

-----------------------------------------------------------------------------
(* Lists of finite sets, and maps of them. *)

\* SetToSeq lists each member once.
LEMMA Listed ==
    ASSUME NEW S, IsFiniteSet(S)
    PROVE  /\ DOMAIN SetToSeq(S) \subseteq Nat /\ IsFiniteSet(DOMAIN SetToSeq(S))
           /\ ToSet(SetToSeq(S)) = S
           /\ \A i, j \in DOMAIN SetToSeq(S) : SetToSeq(S)[i] = SetToSeq(S)[j] => i = j
<1> DEFINE n == Cardinality(S)
           list == SetToSeq(S)
<1>1. n \in Nat /\ IsFiniteSet(1 .. n) /\ Cardinality(1 .. n) = n
  BY FS_CardinalityType, FS_Interval
<1>2. \E f \in [1 .. n -> S] : IsInjective(f)
  BY FS_CardinalityType DEF ExistsBijection, Bijection, Injection
<1>3. list \in [1 .. n -> S] /\ IsInjective(list)
  BY <1>2 DEF SetToSeq
<1>4. list \in Surjection(1 .. n, S)
  BY <1>1, <1>3, FS_Injection DEF Injection
<1> HIDE DEF n, list
<1> QED
  BY <1>1, <1>3, <1>4 DEF Surjection, IsInjective, ToSet, list

\* The map by key of a list of objects no two of which have one key.
Maps(map, objects) ==
    /\ IsFiniteSet(DOMAIN map)
    /\ \A k \in DOMAIN map : map[k] \in objects /\ FullName(map[k]) = k
    /\ \A x \in objects : FullName(x) \in DOMAIN map /\ map[FullName(x)] = x

\* The map by schema and name of a list of distinct objects holds each of them.
LEMMA MapOfList ==
    ASSUME NEW objects, IsSchema(objects)
    PROVE  Maps(ByKey(SetToSeq(objects)), objects)
<1> DEFINE list == SetToSeq(objects)
           keys == [i \in DOMAIN list |-> <<list[i].schema, list[i].name>>]
<1>1. /\ DOMAIN list \subseteq Nat /\ IsFiniteSet(DOMAIN list)
      /\ objects = {list[i] : i \in DOMAIN list}
      /\ \A i, j \in DOMAIN list : list[i] = list[j] => i = j
  BY Listed DEF IsSchema, ToSet
<1>2. \A i \in DOMAIN list : keys[i] = FullName(list[i])
  BY DEF FullName
<1>3. ByKey(list) = [k \in {keys[i] : i \in DOMAIN list} |-> list[LastWith(keys, k)]]
  BY DEF ByKey, Collected
<1>4. \A i \in DOMAIN list : LastWith(keys, keys[i]) = i
  <2> SUFFICES ASSUME NEW i \in DOMAIN list PROVE LastWith(keys, keys[i]) = i
    OBVIOUS
  <2>1. \A j \in DOMAIN list : keys[j] = keys[i] => j = i
    BY <1>1, <1>2 DEF IsSchema
  <2>2. i \in Nat /\ i <= i /\ DOMAIN keys = DOMAIN list
    BY <1>1
  <2> HIDE DEF keys, list
  <2> QED
    BY <2>1, <2>2 DEF LastWith
<1>5. IsFiniteSet({keys[i] : i \in DOMAIN list})
  <2> DEFINE range == {keys[i] : i \in DOMAIN list}
  <2>1. keys \in [DOMAIN list -> range] /\ \A k \in range : \E i \in DOMAIN list : keys[i] = k
    OBVIOUS
  <2> HIDE DEF keys, list, range
  <2>2. keys \in Surjection(DOMAIN list, range)
    BY <2>1 DEF Surjection
  <2>3. IsFiniteSet(range)
    BY <1>1, <2>2, FS_Surjection
  <2> QED
    BY <2>3 DEF range
<1> HIDE DEF keys, list
<1> QED
  BY <1>1, <1>2, <1>3, <1>4, <1>5 DEF Maps, list

-----------------------------------------------------------------------------
(* The lists of a report. *)

\* A function on a finite set has finitely many values.
LEMMA ValuesAreFinite ==
    ASSUME NEW D, NEW f, f = [k \in D |-> f[k]], IsFiniteSet(D)
    PROVE  IsFiniteSet({f[k] : k \in D})
<1> DEFINE range == {f[k] : k \in D}
<1>1. f \in [D -> range] /\ \A v \in range : \E k \in D : f[k] = v
  OBVIOUS
<1> HIDE DEF range
<1>2. f \in Surjection(D, range)
  BY <1>1 DEF Surjection
<1>3. IsFiniteSet(range)
  BY <1>2, FS_Surjection
<1> QED
  BY <1>3 DEF range

\* What is added and what is removed, of tables and of views.
Unnamed(objects, map) == {x \in objects : FullName(x) \notin DOMAIN map}

\* What is listed as added or removed is what only one of two maps has.
LEMMA AddedAndRemoved ==
    ASSUME NEW S, NEW T, IsFiniteSet(S), IsFiniteSet(T), NEW o, NEW n, Maps(o, S), Maps(n, T)
    PROVE  /\ diff_tables(o, n).added = Unnamed(T, o) /\ diff_tables(o, n).removed = Unnamed(S, n)
           /\ diff_views(o, n).added = Unnamed(T, o) /\ diff_views(o, n).removed = Unnamed(S, n)
           /\ IsFiniteSet(Unnamed(T, o)) /\ IsFiniteSet(Unnamed(S, n))
<1>1. {n[k] : k \in DOMAIN n \ DOMAIN o} = Unnamed(T, o)
  BY DEF Maps, Unnamed
<1>2. {o[k] : k \in DOMAIN o \ DOMAIN n} = Unnamed(S, n)
  BY DEF Maps, Unnamed
<1>3. IsFiniteSet(Unnamed(T, o)) /\ IsFiniteSet(Unnamed(S, n))
  BY FS_Subset DEF Unnamed
<1> QED
  BY <1>1, <1>2, <1>3 DEF diff_tables, diff_views

\* What is modified is one record for each name that both have and that differs.
LEMMA ModifiedTables ==
    ASSUME NEW S, NEW T, NEW o, NEW n, Maps(o, S), Maps(n, T)
    PROVE  /\ \A d \in diff_tables(o, n).modified : \E k \in DOMAIN o \cap DOMAIN n :
                table_differs(o[k], n[k]) /\ d = diff_table(o[k], n[k]) /\ FullName(d) = k
           /\ \A k \in DOMAIN o \cap DOMAIN n : table_differs(o[k], n[k]) =>
                diff_table(o[k], n[k]) \in diff_tables(o, n).modified
           /\ IsFiniteSet(diff_tables(o, n).modified)
<1> DEFINE D == {m \in DOMAIN o \cap DOMAIN n : table_differs(o[m], n[m])}
           f == [k \in D |-> diff_table(o[k], n[k])]
<1>1. diff_tables(o, n).modified = {f[k] : k \in D}
  BY DEF diff_tables
<1>2. IsFiniteSet(D)
  BY FS_Subset DEF Maps
<1>3. \A k \in D : FullName(f[k]) = k
  BY DEF diff_table, Maps, FullName
<1>4. f = [k \in D |-> f[k]]
  OBVIOUS
<1>5. IsFiniteSet({f[k] : k \in D})
  <2> HIDE DEF f, D
  <2> QED
    BY <1>2, <1>4, ValuesAreFinite
<1> QED
  BY <1>1, <1>3, <1>5

\* The same of views.
LEMMA ModifiedViews ==
    ASSUME NEW S, NEW T, NEW o, NEW n, Maps(o, S), Maps(n, T)
    PROVE  /\ \A d \in diff_views(o, n).modified : \E k \in DOMAIN o \cap DOMAIN n :
                view_differs(o[k], n[k]) /\ d = diff_view(o[k], n[k]) /\ FullName(d) = k
           /\ \A k \in DOMAIN o \cap DOMAIN n : view_differs(o[k], n[k]) =>
                diff_view(o[k], n[k]) \in diff_views(o, n).modified
           /\ IsFiniteSet(diff_views(o, n).modified)
<1> DEFINE D == {m \in DOMAIN o \cap DOMAIN n : view_differs(o[m], n[m])}
           f == [k \in D |-> diff_view(o[k], n[k])]
<1>1. diff_views(o, n).modified = {f[k] : k \in D}
  BY DEF diff_views
<1>2. IsFiniteSet(D)
  BY FS_Subset DEF Maps
<1>3. \A k \in D : FullName(f[k]) = k
  BY DEF diff_view, Maps, FullName
<1>4. f = [k \in D |-> f[k]]
  OBVIOUS
<1>5. IsFiniteSet({f[k] : k \in D})
  <2> HIDE DEF f, D
  <2> QED
    BY <1>2, <1>4, ValuesAreFinite
<1> QED
  BY <1>1, <1>3, <1>5

-----------------------------------------------------------------------------
(* One list of items. *)

\* Where nothing is listed, nothing changed, and the other way round.
LEMMA EmptyMeansSame ==
    ASSUME NEW ante, NEW post, NamedApart(ante), NamedApart(post)
    PROVE  IsEmpty(ItemChanges(ByName(ante), ByName(post))) <=> ToSet(ante) = ToSet(post)
<1> DEFINE changes == ItemChanges(ByName(ante), ByName(post))
<1>1. Patched(ante, changes) = ToSet(post)
  BY PatchYieldsNew DEF diff_columns, ToSet
<1>2. IsEmpty(changes) => Patched(ante, changes) = ToSet(ante)
  <2> HIDE DEF changes
  <2> QED
    BY DEF IsEmpty, Patched, ToSet
<1>3. ASSUME ToSet(ante) = ToSet(post)
      PROVE  IsEmpty(changes)
  <2>1. ByName(ante) = ByName(post)
    <3>1. Names(ante) = Names(post)
      <4>1. /\ \A i \in DOMAIN ante : \E j \in DOMAIN post : post[j] = ante[i]
            /\ \A j \in DOMAIN post : \E i \in DOMAIN ante : post[j] = ante[i]
        BY <1>3 DEF ToSet
      <4> QED
        BY <4>1 DEF Names
    <3>2. \A k \in Names(ante) : ByName(ante)[k] = ByName(post)[k]
      <4> SUFFICES ASSUME NEW i \in DOMAIN ante
                   PROVE  ByName(ante)[ante[i].name] = ByName(post)[ante[i].name]
        BY DEF Names
      <4>1. PICK j \in DOMAIN post : post[j] = ante[i]
        BY <1>3 DEF ToSet
      <4> QED
        BY <4>1, ByNameKeepsItems
    <3> DEFINE o == ByName(ante)
               n == ByName(post)
    <3>3. o = [k \in Names(ante) |-> o[k]] /\ n = [k \in Names(post) |-> n[k]]
      BY ByNameKeepsItems
    <3> HIDE DEF o, n
    <3>4. o = n
      BY <3>1, <3>2, <3>3 DEF o, n
    <3> QED
      BY <3>4 DEF o, n
  <2> QED
    BY <2>1 DEF ItemChanges, IsEmpty
<1> QED
  BY <1>1, <1>2, <1>3

-----------------------------------------------------------------------------
(* One table, one view. *)

IsTableDocument(t) ==
    /\ NamedApart(t.columns) /\ NamedApart(t.indexes) /\ NamedApart(t.foreign_keys)

\* A table counts as modified exactly when its items differ, and its changes, applied
\* to the old items, yield the new ones (diff_table, diff.rs:256).
LEMMA TableChanges ==
    ASSUME NEW t, NEW u, IsTableDocument(t), IsTableDocument(u), FullName(t) = FullName(u)
    PROVE  /\ ~table_differs(t, u) <=> Items(t) = Items(u)
           /\ LET d == diff_table(t, u)
              IN  [schema |-> t.schema, name |-> t.name,
                   columns |-> Patched(t.columns, d.columns),
                   indexes |-> Patched(t.indexes, d.indexes),
                   foreign_keys |-> Patched(t.foreign_keys, d.foreign_keys)] = Items(u)
<1>1. t.schema = u.schema /\ t.name = u.name
  BY DEF FullName
<1>2. ~table_differs(t, u) <=> /\ ToSet(t.columns) = ToSet(u.columns)
                               /\ ToSet(t.indexes) = ToSet(u.indexes)
                               /\ ToSet(t.foreign_keys) = ToSet(u.foreign_keys)
  BY EmptyMeansSame DEF IsTableDocument, table_differs, diff_table, diff_columns, diff_indexes,
                        diff_foreign_keys
<1>3. LET d == diff_table(t, u)
      IN  /\ Patched(t.columns, d.columns) = ToSet(u.columns)
          /\ Patched(t.indexes, d.indexes) = ToSet(u.indexes)
          /\ Patched(t.foreign_keys, d.foreign_keys) = ToSet(u.foreign_keys)
  BY PatchYieldsNew DEF IsTableDocument, diff_table, ToSet
<1>4. /\ Items(t).columns = ToSet(t.columns) /\ Items(u).columns = ToSet(u.columns)
      /\ Items(t).indexes = ToSet(t.indexes) /\ Items(u).indexes = ToSet(u.indexes)
      /\ Items(t).foreign_keys = ToSet(t.foreign_keys)
      /\ Items(u).foreign_keys = ToSet(u.foreign_keys)
  BY DEF Items
<1>5. ~table_differs(t, u) <=> Items(t) = Items(u)
  <2>1. ~table_differs(t, u) => Items(t) = Items(u)
    BY <1>1, <1>2 DEF Items
  <2>2. Items(t) = Items(u) => ~table_differs(t, u)
    BY <1>2, <1>4
  <2> QED
    BY <2>1, <2>2
<1> QED
  BY <1>1, <1>3, <1>5 DEF Items

\* The same of views (diff_view, diff.rs:322).
LEMMA ViewChanges ==
    ASSUME NEW v, NEW w, NamedApart(v.columns), NamedApart(w.columns), FullName(v) = FullName(w)
    PROVE  /\ ~view_differs(v, w) <=> ViewItems(v) = ViewItems(w)
           /\ [schema |-> v.schema, name |-> v.name,
               columns |-> Patched(v.columns, diff_view(v, w).columns)] = ViewItems(w)
<1>1. v.schema = w.schema /\ v.name = w.name
  BY DEF FullName
<1>2. ~view_differs(v, w) <=> ToSet(v.columns) = ToSet(w.columns)
  BY EmptyMeansSame DEF view_differs, diff_view, diff_columns
<1>3. Patched(v.columns, diff_view(v, w).columns) = ToSet(w.columns)
  BY PatchYieldsNew DEF diff_view, ToSet
<1> QED
  BY <1>1, <1>2, <1>3 DEF ViewItems

-----------------------------------------------------------------------------
(* The old document with the report applied. *)

\* The lists of tables, applied to the old tables, yield the new ones, and they are empty
\* exactly when that changes nothing (diff_tables, diff.rs:214).
LEMMA TablesRebuilt ==
    ASSUME NEW S, NEW T, IsFiniteSet(S), IsFiniteSet(T),
           \A x \in S \cup T : IsTableDocument(x),
           NEW o, NEW n, Maps(o, S), Maps(n, T), report.tables = diff_tables(o, n)
    PROVE  LET listed == report.tables
               patched == {PatchedTable(t) : t \in S \ listed.removed}
           IN  /\ patched \cup {Items(t) : t \in listed.added} = {Items(t) : t \in T}
               /\ patched = {Items(t) : t \in S} /\ listed.added = {}
                  <=> listed.added = {} /\ listed.removed = {} /\ listed.modified = {}
<1> DEFINE added == report.tables.added
           removed == report.tables.removed
           modified == report.tables.modified
           patched == {PatchedTable(t) : t \in S \ removed}
           both == {t \in S : FullName(t) \in DOMAIN n}
           now(t) == n[FullName(t)]
<1>1. /\ added = {x \in T : FullName(x) \notin DOMAIN o}
      /\ removed = {x \in S : FullName(x) \notin DOMAIN n}
  <2>1. diff_tables(o, n).added = Unnamed(T, o) /\ diff_tables(o, n).removed = Unnamed(S, n)
    BY AddedAndRemoved
  <2> QED
    BY <2>1 DEF Unnamed
<1>2. \A t \in both : /\ FullName(t) \in DOMAIN o \cap DOMAIN n /\ o[FullName(t)] = t
                     /\ now(t) \in T /\ FullName(now(t)) = FullName(t)
                     /\ IsTableDocument(t) /\ IsTableDocument(now(t))
  BY DEF Maps
<1>3. \A t \in both : /\ ~table_differs(t, now(t)) <=> Items(t) = Items(now(t))
                     /\ PatchedTable(t) = Items(now(t))
  <2> SUFFICES ASSUME NEW t \in both
               PROVE  /\ ~table_differs(t, now(t)) <=> Items(t) = Items(now(t))
                      /\ PatchedTable(t) = Items(now(t))
    OBVIOUS
  <2> DEFINE d == diff_table(t, now(t))
  <2>1. /\ ~table_differs(t, now(t)) <=> Items(t) = Items(now(t))
        /\ [schema |-> t.schema, name |-> t.name,
            columns |-> Patched(t.columns, d.columns),
            indexes |-> Patched(t.indexes, d.indexes),
            foreign_keys |-> Patched(t.foreign_keys, d.foreign_keys)] = Items(now(t))
    <3> HIDE DEF both, now
    <3> QED
      BY <1>2, TableChanges
  <2>2. \A x \in DiffsOf(report.tables, t) : x = d /\ table_differs(t, now(t))
    BY <1>2, ModifiedTables DEF DiffsOf
  <2>3. table_differs(t, now(t)) => d \in DiffsOf(report.tables, t)
    <3>1. table_differs(t, now(t)) => d \in report.tables.modified
      BY <1>2, ModifiedTables
    <3>2. FullName(d) = FullName(t)
      BY <1>2 DEF diff_table, FullName
    <3> QED
      BY <3>1, <3>2 DEF DiffsOf
  <2> HIDE DEF both, now, d
  <2>4. CASE table_differs(t, now(t))
    <3>1. DiffsOf(report.tables, t) # {} /\ (CHOOSE x \in DiffsOf(report.tables, t) : TRUE) = d
      BY <2>2, <2>3, <2>4
    <3> QED
      BY <2>1, <3>1 DEF PatchedTable
  <2>5. CASE ~table_differs(t, now(t))
    <3>1. DiffsOf(report.tables, t) = {}
      BY <2>2, <2>5
    <3> QED
      BY <2>1, <2>5, <3>1 DEF PatchedTable
  <2> QED
    BY <2>1, <2>4, <2>5
<1>4. /\ S \ removed = both /\ \A u \in T : u \in added \/ \E t \in both : now(t) = u
      /\ added \subseteq T
  BY <1>1 DEF Maps
<1>5. patched = {Items(now(t)) : t \in both}
  BY <1>3, <1>4
<1>6. patched \cup {Items(t) : t \in added} = {Items(t) : t \in T}
  <2> HIDE DEF added, removed, both, patched, now
  <2> QED
    BY <1>2, <1>4, <1>5
<1>7. modified = {} <=> \A t \in both : Items(now(t)) = Items(t)
  <2>1. \A d \in modified : \E t \in both : table_differs(t, now(t))
    <3> SUFFICES ASSUME NEW d \in modified PROVE \E t \in both : table_differs(t, now(t))
      OBVIOUS
    <3>1. PICK k \in DOMAIN o \cap DOMAIN n : table_differs(o[k], n[k])
      BY ModifiedTables
    <3>2. o[k] \in both /\ now(o[k]) = n[k]
      BY DEF Maps
    <3> QED
      BY <3>1, <3>2
  <2>2. \A t \in both : table_differs(t, now(t)) => modified # {}
    BY <1>2, ModifiedTables
  <2> HIDE DEF both, now, modified
  <2> QED
    BY <1>3, <2>1, <2>2
<1>8. /\ \A t, u : Items(t) = Items(u) => FullName(t) = FullName(u)
      /\ \A t, u \in S : FullName(t) = FullName(u) => t = u
  <2>1. \A t : Items(t).schema = t.schema /\ Items(t).name = t.name
    BY DEF Items
  <2> QED
    BY <2>1 DEF FullName, Maps
<1>9. patched = {Items(t) : t \in S} <=> removed = {} /\ modified = {}
  <2>1. ASSUME removed = {}, modified = {}
        PROVE  patched = {Items(t) : t \in S}
    <3>1. both = S
      BY <1>4, <2>1
    <3> HIDE DEF both, now, patched, removed, modified
    <3> QED
      BY <1>5, <1>7, <2>1, <3>1
  <2>2. ASSUME patched = {Items(t) : t \in S}
        PROVE  \A t \in S : t \in both /\ Items(now(t)) = Items(t)
    <3> SUFFICES ASSUME NEW t \in S PROVE t \in both /\ Items(now(t)) = Items(t)
      OBVIOUS
    <3> HIDE DEF both, now, patched, removed, modified
    <3>1. PICK u \in both : Items(t) = Items(now(u))
      BY <1>5, <2>2
    <3>2. FullName(t) = FullName(u) /\ u \in S
      BY <1>2, <1>4, <1>8, <3>1
    <3> QED
      BY <1>8, <3>1, <3>2
  <2>3. (\A t \in S : t \in both) => removed = {}
    BY <1>1
  <2> HIDE DEF both, now, patched, removed, modified
  <2>4. patched = {Items(t) : t \in S} => removed = {} /\ modified = {}
    BY <1>4, <1>7, <2>2, <2>3
  <2> QED
    BY <2>1, <2>4
<1> HIDE DEF added, removed, modified, patched, both, now
<1> QED
  BY <1>6, <1>9 DEF added, removed, modified, patched

\* The same of views (diff_views, diff.rs:280).
LEMMA ViewsRebuilt ==
    ASSUME NEW S, NEW T, IsFiniteSet(S), IsFiniteSet(T),
           \A x \in S \cup T : NamedApart(x.columns),
           NEW o, NEW n, Maps(o, S), Maps(n, T), report.views = diff_views(o, n)
    PROVE  LET listed == report.views
               patched == {PatchedView(t) : t \in S \ listed.removed}
           IN  /\ patched \cup {ViewItems(t) : t \in listed.added} = {ViewItems(t) : t \in T}
               /\ patched = {ViewItems(t) : t \in S} /\ listed.added = {}
                  <=> listed.added = {} /\ listed.removed = {} /\ listed.modified = {}
<1> DEFINE added == report.views.added
           removed == report.views.removed
           modified == report.views.modified
           patched == {PatchedView(t) : t \in S \ removed}
           both == {t \in S : FullName(t) \in DOMAIN n}
           now(t) == n[FullName(t)]
<1>1. /\ added = {x \in T : FullName(x) \notin DOMAIN o}
      /\ removed = {x \in S : FullName(x) \notin DOMAIN n}
  <2>1. diff_views(o, n).added = Unnamed(T, o) /\ diff_views(o, n).removed = Unnamed(S, n)
    BY AddedAndRemoved
  <2> QED
    BY <2>1 DEF Unnamed
<1>2. \A t \in both : /\ FullName(t) \in DOMAIN o \cap DOMAIN n /\ o[FullName(t)] = t
                     /\ now(t) \in T /\ FullName(now(t)) = FullName(t)
                     /\ NamedApart(t.columns) /\ NamedApart(now(t).columns)
  BY DEF Maps
<1>3. \A t \in both : /\ ~view_differs(t, now(t)) <=> ViewItems(t) = ViewItems(now(t))
                     /\ PatchedView(t) = ViewItems(now(t))
  <2> SUFFICES ASSUME NEW t \in both
               PROVE  /\ ~view_differs(t, now(t)) <=> ViewItems(t) = ViewItems(now(t))
                      /\ PatchedView(t) = ViewItems(now(t))
    OBVIOUS
  <2> DEFINE d == diff_view(t, now(t))
  <2>1. /\ ~view_differs(t, now(t)) <=> ViewItems(t) = ViewItems(now(t))
        /\ [schema |-> t.schema, name |-> t.name,
            columns |-> Patched(t.columns, d.columns)] = ViewItems(now(t))
    <3> HIDE DEF both, now
    <3> QED
      BY <1>2, ViewChanges
  <2>2. \A x \in DiffsOf(report.views, t) : x = d /\ view_differs(t, now(t))
    BY <1>2, ModifiedViews DEF DiffsOf
  <2>3. view_differs(t, now(t)) => d \in DiffsOf(report.views, t)
    <3>1. view_differs(t, now(t)) => d \in report.views.modified
      BY <1>2, ModifiedViews
    <3>2. FullName(d) = FullName(t)
      BY <1>2 DEF diff_view, FullName
    <3> QED
      BY <3>1, <3>2 DEF DiffsOf
  <2> HIDE DEF both, now, d
  <2>4. CASE view_differs(t, now(t))
    <3>1. DiffsOf(report.views, t) # {} /\ (CHOOSE x \in DiffsOf(report.views, t) : TRUE) = d
      BY <2>2, <2>3, <2>4
    <3> QED
      BY <2>1, <3>1 DEF PatchedView
  <2>5. CASE ~view_differs(t, now(t))
    <3>1. DiffsOf(report.views, t) = {}
      BY <2>2, <2>5
    <3> QED
      BY <2>1, <2>5, <3>1 DEF PatchedView
  <2> QED
    BY <2>1, <2>4, <2>5
<1>4. /\ S \ removed = both /\ \A u \in T : u \in added \/ \E t \in both : now(t) = u
      /\ added \subseteq T
  BY <1>1 DEF Maps
<1>5. patched = {ViewItems(now(t)) : t \in both}
  BY <1>3, <1>4
<1>6. patched \cup {ViewItems(t) : t \in added} = {ViewItems(t) : t \in T}
  <2> HIDE DEF added, removed, both, patched, now
  <2> QED
    BY <1>2, <1>4, <1>5
<1>7. modified = {} <=> \A t \in both : ViewItems(now(t)) = ViewItems(t)
  <2>1. \A d \in modified : \E t \in both : view_differs(t, now(t))
    <3> SUFFICES ASSUME NEW d \in modified PROVE \E t \in both : view_differs(t, now(t))
      OBVIOUS
    <3>1. PICK k \in DOMAIN o \cap DOMAIN n : view_differs(o[k], n[k])
      BY ModifiedViews
    <3>2. o[k] \in both /\ now(o[k]) = n[k]
      BY DEF Maps
    <3> QED
      BY <3>1, <3>2
  <2>2. \A t \in both : view_differs(t, now(t)) => modified # {}
    BY <1>2, ModifiedViews
  <2> HIDE DEF both, now, modified
  <2> QED
    BY <1>3, <2>1, <2>2
<1>8. /\ \A t, u : ViewItems(t) = ViewItems(u) => FullName(t) = FullName(u)
      /\ \A t, u \in S : FullName(t) = FullName(u) => t = u
  <2>1. \A t : ViewItems(t).schema = t.schema /\ ViewItems(t).name = t.name
    BY DEF ViewItems
  <2> QED
    BY <2>1 DEF FullName, Maps
<1>9. patched = {ViewItems(t) : t \in S} <=> removed = {} /\ modified = {}
  <2>1. ASSUME removed = {}, modified = {}
        PROVE  patched = {ViewItems(t) : t \in S}
    <3>1. both = S
      BY <1>4, <2>1
    <3> HIDE DEF both, now, patched, removed, modified
    <3> QED
      BY <1>5, <1>7, <2>1, <3>1
  <2>2. ASSUME patched = {ViewItems(t) : t \in S}
        PROVE  \A t \in S : t \in both /\ ViewItems(now(t)) = ViewItems(t)
    <3> SUFFICES ASSUME NEW t \in S PROVE t \in both /\ ViewItems(now(t)) = ViewItems(t)
      OBVIOUS
    <3> HIDE DEF both, now, patched, removed, modified
    <3>1. PICK u \in both : ViewItems(t) = ViewItems(now(u))
      BY <1>5, <2>2
    <3>2. FullName(t) = FullName(u) /\ u \in S
      BY <1>2, <1>4, <1>8, <3>1
    <3> QED
      BY <1>8, <3>1, <3>2
  <2>3. (\A t \in S : t \in both) => removed = {}
    BY <1>1
  <2> HIDE DEF both, now, patched, removed, modified
  <2>4. patched = {ViewItems(t) : t \in S} => removed = {} /\ modified = {}
    BY <1>4, <1>7, <2>2, <2>3
  <2> QED
    BY <2>1, <2>4
<1> HIDE DEF added, removed, modified, patched, both, now
<1> QED
  BY <1>6, <1>9 DEF added, removed, modified, patched

-----------------------------------------------------------------------------
(* Everything is listed once. *)

\* An item is in the list its name belongs to, and in no other (diff_columns,
\* diff_indexes and diff_foreign_keys of diff.rs).
LEMMA ItemsOnce ==
    ASSUME NEW from, NEW to, NamedApart(from), NamedApart(to)
    PROVE  ItemsListedOnce(ItemChanges(ByName(from), ByName(to)), from, to)
<1> DEFINE o == ByName(from)
           n == ByName(to)
           changes == ItemChanges(o, n)
<1>1. /\ DOMAIN o = ItemNames(ToSet(from)) /\ DOMAIN n = ItemNames(ToSet(to))
      /\ \A k \in DOMAIN o : o[k] \in ToSet(from) /\ o[k].name = k
      /\ \A k \in DOMAIN n : n[k] \in ToSet(to) /\ n[k].name = k
  <2>1. ASSUME NEW items, NamedApart(items)
        PROVE  /\ DOMAIN ByName(items) = ItemNames(ToSet(items))
               /\ \A k \in DOMAIN ByName(items) :
                    ByName(items)[k] \in ToSet(items) /\ ByName(items)[k].name = k
    <3>1. /\ DOMAIN ByName(items) = Names(items)
          /\ \A i \in DOMAIN items : ByName(items)[items[i].name] = items[i]
      BY <2>1, ByNameKeepsItems
    <3>2. Names(items) = ItemNames(ToSet(items))
      BY DEF Names, ItemNames, ToSet
    <3>3. \A k \in Names(items) : \E i \in DOMAIN items : k = items[i].name
      BY DEF Names
    <3>4. \A i \in DOMAIN items : items[i] \in ToSet(items)
      BY DEF ToSet
    <3> QED
      BY <3>1, <3>2, <3>3, <3>4
  <2> QED
    BY <2>1
<1> HIDE DEF o, n
<1>2. /\ \A x \in changes.added : \E k \in DOMAIN n \ DOMAIN o : x = n[k]
      /\ \A x \in changes.removed : \E k \in DOMAIN o \ DOMAIN n : x = o[k]
      /\ \A c \in changes.changed : \E k \in Differing(o, n) : c.old = o[k] /\ c.new = n[k]
  BY ThreeLists, ChangedPairs
<1> HIDE DEF changes
<1>3. /\ changes.added \subseteq ToSet(to) /\ ItemNames(changes.added) \cap ItemNames(ToSet(from)) = {}
      /\ changes.removed \subseteq ToSet(from) /\ ItemNames(changes.removed) \cap ItemNames(ToSet(to)) = {}
  BY <1>1, <1>2 DEF ItemNames
<1>4. \A c \in changes.changed :
        c.old \in ToSet(from) /\ c.new \in ToSet(to) /\ c.old.name = c.new.name /\ c.old # c.new
  BY <1>1, <1>2 DEF Differing
<1> QED
  BY <1>3, <1>4 DEF ItemsListedOnce, changes, o, n

\* A table is in one list, and when it is modified so are its items.
LEMMA TablesOnce ==
    ASSUME NEW S, NEW T, IsFiniteSet(S), IsFiniteSet(T),
           \A x \in S \cup T : IsTableDocument(x),
           NEW o, NEW n, Maps(o, S), Maps(n, T), report.tables = diff_tables(o, n)
    PROVE  /\ ObjectsListedOnce(report.tables, S, T)
           /\ \A t \in S, u \in T : FullName(t) = FullName(u) =>
                \A d \in DiffsOf(report.tables, t) : TableListedOnce(d, t, u)
<1>1. report.tables.added = Unnamed(T, o) /\ report.tables.removed = Unnamed(S, n)
  BY AddedAndRemoved
<1>2. \A d \in report.tables.modified : \E k \in DOMAIN o \cap DOMAIN n :
        table_differs(o[k], n[k]) /\ d = diff_table(o[k], n[k]) /\ FullName(d) = k
  BY ModifiedTables
<1>3. /\ FullNames(S) = DOMAIN o /\ FullNames(T) = DOMAIN n
      /\ \A t \in S : o[FullName(t)] = t
      /\ \A u \in T : n[FullName(u)] = u
  BY DEF Maps, FullNames
<1>4. /\ report.tables.added \subseteq T /\ FullNames(report.tables.added) \cap FullNames(S) = {}
      /\ report.tables.removed \subseteq S /\ FullNames(report.tables.removed) \cap FullNames(T) = {}
  BY <1>1, <1>3 DEF Unnamed, FullNames
<1>5. ObjectsListedOnce(report.tables, S, T)
  BY <1>2, <1>3, <1>4 DEF ObjectsListedOnce, FullNames
<1>6. ASSUME NEW t \in S, NEW u \in T, FullName(t) = FullName(u), NEW d \in DiffsOf(report.tables, t)
      PROVE  TableListedOnce(d, t, u)
  <2>1. d = diff_table(t, u) /\ table_differs(t, u)
    BY <1>2, <1>3, <1>6 DEF DiffsOf
  <2>2. /\ d.columns = ItemChanges(ByName(t.columns), ByName(u.columns))
        /\ d.indexes = ItemChanges(ByName(t.indexes), ByName(u.indexes))
        /\ d.foreign_keys = ItemChanges(ByName(t.foreign_keys), ByName(u.foreign_keys))
    BY <2>1 DEF diff_table, diff_columns, diff_indexes, diff_foreign_keys
  <2>3. ~(IsEmpty(d.columns) /\ IsEmpty(d.indexes) /\ IsEmpty(d.foreign_keys))
    BY <2>1 DEF table_differs
  <2> QED
    BY <2>2, <2>3, ItemsOnce DEF TableListedOnce, IsTableDocument
<1> QED
  BY <1>5, <1>6

\* The same of views.
LEMMA ViewsOnce ==
    ASSUME NEW V, NEW W, IsFiniteSet(V), IsFiniteSet(W),
           \A x \in V \cup W : NamedApart(x.columns),
           NEW o, NEW n, Maps(o, V), Maps(n, W), report.views = diff_views(o, n)
    PROVE  /\ ObjectsListedOnce(report.views, V, W)
           /\ \A v \in V, w \in W : FullName(v) = FullName(w) =>
                \A d \in DiffsOf(report.views, v) : ViewListedOnce(d, v, w)
<1>1. report.views.added = Unnamed(W, o) /\ report.views.removed = Unnamed(V, n)
  BY AddedAndRemoved
<1>2. \A d \in report.views.modified : \E k \in DOMAIN o \cap DOMAIN n :
        view_differs(o[k], n[k]) /\ d = diff_view(o[k], n[k]) /\ FullName(d) = k
  BY ModifiedViews
<1>3. /\ FullNames(V) = DOMAIN o /\ FullNames(W) = DOMAIN n
      /\ \A v \in V : o[FullName(v)] = v
      /\ \A w \in W : n[FullName(w)] = w
  BY DEF Maps, FullNames
<1>4. /\ report.views.added \subseteq W /\ FullNames(report.views.added) \cap FullNames(V) = {}
      /\ report.views.removed \subseteq V /\ FullNames(report.views.removed) \cap FullNames(W) = {}
  BY <1>1, <1>3 DEF Unnamed, FullNames
<1>5. ObjectsListedOnce(report.views, V, W)
  BY <1>2, <1>3, <1>4 DEF ObjectsListedOnce, FullNames
<1>6. ASSUME NEW v \in V, NEW w \in W, FullName(v) = FullName(w), NEW d \in DiffsOf(report.views, v)
      PROVE  ViewListedOnce(d, v, w)
  <2>1. d = diff_view(v, w) /\ view_differs(v, w)
    BY <1>2, <1>3, <1>6 DEF DiffsOf
  <2>2. d.columns = ItemChanges(ByName(v.columns), ByName(w.columns)) /\ ~IsEmpty(d.columns)
    BY <2>1 DEF diff_view, diff_columns, view_differs
  <2> QED
    BY <2>2, ItemsOnce DEF ViewListedOnce
<1> QED
  BY <1>5, <1>6

-----------------------------------------------------------------------------
(* The document of a catalog. *)

\* No two items of a document have one name: the premise of PatchYieldsNew.
LEMMA ColumnsAreApart ==
    ASSUME NEW columns, IsColumns(columns)
    PROVE  NamedApart(Columns(columns))
BY DEF IsColumns, Columns, NamedApart

\* SQLite's keys are told apart by their number, the others by their name.
LEMMA KeysAreApart ==
    ASSUME NEW t, IsTable(t)
    PROVE  NamedApart(ForeignKeys(t.foreign_keys))
<1> DEFINE keys == t.foreign_keys
<1>1. /\ DOMAIN keys = 1 .. Len(keys) /\ Len(keys) \in Nat
      /\ \A i \in DOMAIN keys :
            keys[i] = [name |-> keys[i].name, columns |-> keys[i].columns, table |-> keys[i].table]
      /\ \A i, j \in DOMAIN keys : keys[i].name = keys[j].name => i = j
  BY DEF IsTable
<1>2. /\ DOMAIN ForeignKeys(keys) = DOMAIN keys
      /\ \A i \in DOMAIN keys : ForeignKeys(keys)[i].name = key_name(keys, i)
  BY <1>1 DEF ForeignKeys
<1> HIDE DEF keys
<1>3. \A i, j \in DOMAIN keys : key_name(keys, i) = key_name(keys, j) => i = j
  BY <1>1 DEF key_name
<1>4. DOMAIN keys \subseteq Nat
  BY <1>1
<1> QED
  BY <1>2, <1>3, <1>4 DEF NamedApart, keys

\* The indexes of a table are listed once each.
LEMMA IndexesAreApart ==
    ASSUME NEW t, IsTable(t)
    PROVE  NamedApart(SetToSeq(t.indexes)) /\ ToSet(SetToSeq(t.indexes)) = t.indexes
<1> DEFINE list == SetToSeq(t.indexes)
<1>1. /\ DOMAIN list \subseteq Nat /\ ToSet(list) = t.indexes
      /\ \A i, j \in DOMAIN list : list[i] = list[j] => i = j
  BY Listed DEF IsTable
<1>2. \A i \in DOMAIN list : list[i] \in t.indexes
  BY <1>1 DEF ToSet
<1> HIDE DEF list
<1>3. NamedApart(list)
  BY <1>1, <1>2 DEF NamedApart, IsTable
<1> QED
  BY <1>1, <1>3 DEF list

TableDocuments(c) == {TableDocument(t) : t \in c.tables}
ViewDocuments(c) == {ViewDocument(v) : v \in c.views}

\* A document lists the tables of its catalog, no two under one schema and name.
LEMMA DocumentsOfTables ==
    ASSUME NEW c \in Catalogs
    PROVE  /\ IsSchema(TableDocuments(c)) /\ \A x \in TableDocuments(c) : IsTableDocument(x)
           /\ IsFiniteSet(TableDocuments(c)) /\ ToSet(Document(c).tables) = TableDocuments(c)
           /\ Maps(ByKey(Document(c).tables), TableDocuments(c))
<1> DEFINE f == [t \in c.tables |-> TableDocument(t)]
<1>1. IsSchema(c.tables) /\ \A t \in c.tables : IsTable(t)
  BY CatalogsAssumption
<1>2. IsFiniteSet(TableDocuments(c))
  <2>1. TableDocuments(c) = {f[t] : t \in c.tables} /\ f = [t \in c.tables |-> f[t]]
    BY DEF TableDocuments
  <2> HIDE DEF f
  <2>2. IsFiniteSet({f[t] : t \in c.tables})
    BY <1>1, <2>1, ValuesAreFinite DEF IsSchema
  <2> QED
    BY <2>1, <2>2
<1>3. \A t \in c.tables : IsTableDocument(TableDocument(t))
  BY <1>1, ColumnsAreApart, KeysAreApart, IndexesAreApart DEF TableDocument, IsTableDocument, IsTable
<1>4. \A t \in c.tables : FullName(TableDocument(t)) = FullName(t)
  BY DEF TableDocument, FullName
<1>5. IsSchema(TableDocuments(c))
  BY <1>1, <1>2, <1>4 DEF IsSchema, TableDocuments
<1>6. Document(c).tables = SetToSeq(TableDocuments(c))
  BY DEF Document, TableDocuments
<1>7. \A x \in TableDocuments(c) : IsTableDocument(x)
  BY <1>3 DEF TableDocuments
<1> QED
  BY <1>2, <1>5, <1>6, <1>7, Listed, MapOfList

\* The same of views.
LEMMA DocumentsOfViews ==
    ASSUME NEW c \in Catalogs
    PROVE  /\ IsSchema(ViewDocuments(c)) /\ \A x \in ViewDocuments(c) : NamedApart(x.columns)
           /\ IsFiniteSet(ViewDocuments(c)) /\ ToSet(Document(c).views) = ViewDocuments(c)
           /\ Maps(ByKey(Document(c).views), ViewDocuments(c))
<1> DEFINE f == [v \in c.views |-> ViewDocument(v)]
<1>1. IsSchema(c.views) /\ \A v \in c.views : IsView(v)
  BY CatalogsAssumption
<1>2. IsFiniteSet(ViewDocuments(c))
  <2>1. ViewDocuments(c) = {f[v] : v \in c.views} /\ f = [v \in c.views |-> f[v]]
    BY DEF ViewDocuments
  <2> HIDE DEF f
  <2>2. IsFiniteSet({f[v] : v \in c.views})
    BY <1>1, <2>1, ValuesAreFinite DEF IsSchema
  <2> QED
    BY <2>1, <2>2
<1>3. \A v \in c.views : /\ ViewDocument(v).columns = Columns(v.columns)
                         /\ FullName(ViewDocument(v)) = FullName(v)
  BY <1>1 DEF ViewDocument, IsView, FullName
<1>4. \A v \in c.views : NamedApart(ViewDocument(v).columns)
  BY <1>1, <1>3, ColumnsAreApart DEF IsView
<1>5. IsSchema(ViewDocuments(c))
  BY <1>1, <1>2, <1>3 DEF IsSchema, ViewDocuments
<1>6. Document(c).views = SetToSeq(ViewDocuments(c))
  BY DEF Document, ViewDocuments
<1>7. \A x \in ViewDocuments(c) : NamedApart(x.columns)
  BY <1>4 DEF ViewDocuments
<1> QED
  BY <1>2, <1>5, <1>6, <1>7, Listed, MapOfList

-----------------------------------------------------------------------------
(* What a document tells of its catalog. *)

\* A column is as far down as there are smaller numbers.
LEMMA PlaceOfNumber ==
    ASSUME NEW columns, IsColumns(columns), NEW i \in DOMAIN columns
    PROVE  Cardinality({x \in {columns[k].number : k \in DOMAIN columns} : x < columns[i].number})
              = i - 1
<1> DEFINE below == {x \in {columns[k].number : k \in DOMAIN columns} : x < columns[i].number}
           f == [k \in 1 .. (i - 1) |-> columns[k].number]
<1>1. /\ DOMAIN columns = 1 .. Len(columns) /\ Len(columns) \in Nat
      /\ \A j, k \in DOMAIN columns : columns[j].number \in Nat
            /\ (j < k => columns[j].number < columns[k].number)
  BY DEF IsColumns
<1>2. i \in Nat \ {0} /\ \A k \in 1 .. (i - 1) : k \in DOMAIN columns /\ k < i
  BY <1>1
<1>3. \A k \in DOMAIN columns : columns[k].number < columns[i].number => k \in 1 .. (i - 1)
  <2> SUFFICES ASSUME NEW k \in DOMAIN columns, k >= i
               PROVE  ~(columns[k].number < columns[i].number)
    BY <1>1, <1>2
  <2>1. k = i \/ i < k
    BY <1>1, <1>2
  <2> QED
    BY <1>1, <2>1
<1>4. f \in [1 .. (i - 1) -> below] /\ \A x \in below : \E k \in 1 .. (i - 1) : f[k] = x
  BY <1>1, <1>2, <1>3
<1>5. \A j, k \in 1 .. (i - 1) : f[j] = f[k] => j = k
  <2> SUFFICES ASSUME NEW j \in 1 .. (i - 1), NEW k \in 1 .. (i - 1), j < k
               PROVE  f[j] # f[k]
    BY <1>2
  <2> QED
    BY <1>1, <1>2
<1> HIDE DEF below, f
<1>6. f \in Bijection(1 .. (i - 1), below)
  BY <1>4, <1>5 DEF Bijection, Injection, Surjection, IsInjective
<1>7. IsFiniteSet(1 .. (i - 1)) /\ Cardinality(1 .. (i - 1)) = i - 1
  <2>1. i - 1 \in Nat
    BY <1>2
  <2>2. \A n \in Nat : IsFiniteSet(1 .. n) /\ Cardinality(1 .. n) = n
    BY FS_Interval
  <2> QED
    BY <2>1, <2>2
<1>8. Cardinality(below) = Cardinality(1 .. (i - 1))
  BY <1>6, <1>7, FS_Bijection DEF ExistsBijection
<1> QED
  BY <1>7, <1>8 DEF below

\* The set of a document's columns tells their order, on every engine.
LEMMA ColumnsTellTheirOrder ==
    ASSUME NEW a, NEW b, IsColumns(a), IsColumns(b), ToSet(Columns(a)) = ToSet(Columns(b))
    PROVE  [i \in DOMAIN a |-> <<a[i].name, a[i].type>>] = [i \in DOMAIN b |-> <<b[i].name, b[i].type>>]
<1>1. /\ DOMAIN a = 1 .. Len(a) /\ Len(a) \in Nat /\ DOMAIN b = 1 .. Len(b) /\ Len(b) \in Nat
      /\ \A i \in DOMAIN a : a[i].number \in Nat
      /\ \A i \in DOMAIN b : b[i].number \in Nat
  BY DEF IsColumns
<1>2. /\ \A i \in DOMAIN a : \E j \in DOMAIN b :
            /\ a[i].name = b[j].name /\ a[i].type = b[j].type
            /\ ordinal_position(a, i) = ordinal_position(b, j)
      /\ \A j \in DOMAIN b : \E i \in DOMAIN a :
            /\ a[i].name = b[j].name /\ a[i].type = b[j].type
            /\ ordinal_position(a, i) = ordinal_position(b, j)
  <2>1. /\ \A i \in DOMAIN a : \E j \in DOMAIN b : Columns(a)[i] = Columns(b)[j]
        /\ \A j \in DOMAIN b : \E i \in DOMAIN a : Columns(a)[i] = Columns(b)[j]
    BY DEF ToSet, Columns
  <2> QED
    BY <2>1 DEF Columns
<1>3. \A i \in DOMAIN a, j \in DOMAIN b : ordinal_position(a, i) = ordinal_position(b, j) => i = j
  <2>1. CASE engine = "postgres"
    <3> DEFINE numbers == {a[k].number : k \in DOMAIN a}
    <3>1. \A i \in DOMAIN a : \E j \in DOMAIN b : a[i].number = b[j].number
      BY <1>2, <2>1 DEF ordinal_position
    <3>2. \A j \in DOMAIN b : \E i \in DOMAIN a : a[i].number = b[j].number
      BY <1>2, <2>1 DEF ordinal_position
    <3>3. numbers = {b[k].number : k \in DOMAIN b}
      BY <3>1, <3>2
    <3> SUFFICES ASSUME NEW i \in DOMAIN a, NEW j \in DOMAIN b, a[i].number = b[j].number
                 PROVE  i = j
      BY <2>1 DEF ordinal_position
    <3> DEFINE c == Cardinality({x \in numbers : x < a[i].number})
    <3>4. c = i - 1
      BY PlaceOfNumber
    <3>5. c = j - 1
      BY <3>3, PlaceOfNumber
    <3> HIDE DEF c
    <3> QED
      BY <1>1, <3>4, <3>5
  <2>2. CASE engine # "postgres"
    BY <2>2 DEF ordinal_position
  <2> QED
    BY <2>1, <2>2
<1>4. /\ \A i \in DOMAIN a : i \in DOMAIN b /\ a[i].name = b[i].name /\ a[i].type = b[i].type
      /\ \A j \in DOMAIN b : j \in DOMAIN a
  BY <1>2, <1>3
<1>5. DOMAIN a = DOMAIN b
  BY <1>4
<1> QED
  BY <1>4, <1>5

\* A foreign key by what the document says of it.
LEMMA KeysTellTheirFacts ==
    ASSUME NEW t, NEW u, IsTable(t), IsTable(u),
           ToSet(ForeignKeys(t.foreign_keys)) = ToSet(ForeignKeys(u.foreign_keys))
    PROVE  {KeyFact(fk) : fk \in ToSet(t.foreign_keys)} = {KeyFact(fk) : fk \in ToSet(u.foreign_keys)}
<1> DEFINE a == t.foreign_keys
           b == u.foreign_keys
           Named(k) == k = [name |-> k.name, columns |-> k.columns, table |-> k.table]
<1>1. /\ \A i \in DOMAIN a : Named(a[i])
      /\ \A i \in DOMAIN b : Named(b[i])
  BY DEF IsTable
<1>2. /\ \A i \in DOMAIN a : \E j \in DOMAIN b : ForeignKeys(a)[i] = ForeignKeys(b)[j]
      /\ \A j \in DOMAIN b : \E i \in DOMAIN a : ForeignKeys(a)[i] = ForeignKeys(b)[j]
  <2> DEFINE x == ForeignKeys(a)
             y == ForeignKeys(b)
  <2>1. DOMAIN x = DOMAIN a /\ DOMAIN y = DOMAIN b
    BY DEF ForeignKeys
  <2>2. {x[i] : i \in DOMAIN x} = {y[j] : j \in DOMAIN y}
    BY DEF ToSet
  <2> HIDE DEF x, y, a, b
  <2>3. /\ \A i \in DOMAIN a : \E j \in DOMAIN b : x[i] = y[j]
        /\ \A j \in DOMAIN b : \E i \in DOMAIN a : x[i] = y[j]
    BY <2>1, <2>2
  <2> QED
    BY <2>3 DEF x, y
<1>3. \A i \in DOMAIN a, j \in DOMAIN b : ForeignKeys(a)[i] = ForeignKeys(b)[j] =>
        KeyFact(a[i]) = KeyFact(b[j])
  <2> SUFFICES ASSUME NEW i \in DOMAIN a, NEW j \in DOMAIN b, ForeignKeys(a)[i] = ForeignKeys(b)[j]
               PROVE  KeyFact(a[i]) = KeyFact(b[j])
    OBVIOUS
  <2>1. \A k, n : Named(k) => /\ [k EXCEPT !.name = n].name = n
                             /\ [k EXCEPT !.name = n].columns = k.columns
                             /\ [k EXCEPT !.name = n].table = k.table
    OBVIOUS
  <2> HIDE DEF a, b
  <2>2. /\ key_name(a, i) = key_name(b, j)
        /\ a[i].columns = b[j].columns /\ a[i].table = b[j].table
    <3>1. [a[i] EXCEPT !.name = key_name(a, i)] = [b[j] EXCEPT !.name = key_name(b, j)]
      BY DEF ForeignKeys
    <3> HIDE DEF Named
    <3>2. /\ [a[i] EXCEPT !.name = key_name(a, i)].name = key_name(a, i)
          /\ [a[i] EXCEPT !.name = key_name(a, i)].columns = a[i].columns
          /\ [a[i] EXCEPT !.name = key_name(a, i)].table = a[i].table
      BY <1>1, <2>1, Zenon
    <3>3. /\ [b[j] EXCEPT !.name = key_name(b, j)].name = key_name(b, j)
          /\ [b[j] EXCEPT !.name = key_name(b, j)].columns = b[j].columns
          /\ [b[j] EXCEPT !.name = key_name(b, j)].table = b[j].table
      BY <1>1, <2>1, Zenon
    <3> QED
      BY <3>1, <3>2, <3>3
  <2>3. engine # "sqlite" => a[i].name = b[j].name
    BY <2>2 DEF key_name
  <2>4. \A k : Named(k) => KeyFact(k) = [name |-> IF engine = "sqlite" THEN "" ELSE k.name,
                                        columns |-> k.columns, table |-> k.table]
    <3> SUFFICES ASSUME NEW k, Named(k)
                 PROVE  KeyFact(k) = [name |-> IF engine = "sqlite" THEN "" ELSE k.name,
                                      columns |-> k.columns, table |-> k.table]
      OBVIOUS
    <3>1. \A n, c, t1, x : [[name |-> n, columns |-> c, table |-> t1] EXCEPT !.name = x]
                            = [name |-> x, columns |-> c, table |-> t1]
      OBVIOUS
    <3>2. KeyFact(k) = [k EXCEPT !.name = IF engine = "sqlite" THEN "" ELSE k.name]
      BY DEF KeyFact
    <3> QED
      BY <3>1, <3>2
  <2> QED
    BY <1>1, <2>2, <2>3, <2>4, ZenonT(60)
<1> HIDE DEF a, b
<1>4. {KeyFact(fk) : fk \in ToSet(a)} = {KeyFact(fk) : fk \in ToSet(b)}
  BY <1>2, <1>3 DEF ToSet
<1> QED
  BY <1>4 DEF a, b

\* Tables whose documents have the same items are the same, their order included.
LEMMA ItemsTellFacts ==
    ASSUME NEW t, NEW u, IsTable(t), IsTable(u),
           Items(TableDocument(t)) = Items(TableDocument(u))
    PROVE  TableFacts(t) = TableFacts(u)
<1>1. \A x : /\ Items(x).schema = x.schema /\ Items(x).name = x.name
             /\ Items(x).columns = ToSet(x.columns) /\ Items(x).indexes = ToSet(x.indexes)
             /\ Items(x).foreign_keys = ToSet(x.foreign_keys)
  BY DEF Items
<1>2. \A x : /\ TableDocument(x).schema = x.schema /\ TableDocument(x).name = x.name
             /\ TableDocument(x).columns = Columns(x.columns)
             /\ TableDocument(x).indexes = SetToSeq(x.indexes)
             /\ TableDocument(x).foreign_keys = ForeignKeys(x.foreign_keys)
  BY DEF TableDocument
<1>3. /\ t.schema = u.schema /\ t.name = u.name
      /\ ToSet(Columns(t.columns)) = ToSet(Columns(u.columns))
      /\ ToSet(SetToSeq(t.indexes)) = ToSet(SetToSeq(u.indexes))
      /\ ToSet(ForeignKeys(t.foreign_keys)) = ToSet(ForeignKeys(u.foreign_keys))
  BY <1>1, <1>2
<1>4. t.indexes = u.indexes
  BY <1>3, IndexesAreApart
<1>5. {KeyFact(fk) : fk \in ToSet(t.foreign_keys)} = {KeyFact(fk) : fk \in ToSet(u.foreign_keys)}
  BY <1>3, KeysTellTheirFacts
<1>6. [i \in DOMAIN t.columns |-> <<t.columns[i].name, t.columns[i].type>>]
        = [i \in DOMAIN u.columns |-> <<u.columns[i].name, u.columns[i].type>>]
  BY <1>3, ColumnsTellTheirOrder DEF IsTable
<1> QED
  BY <1>3, <1>4, <1>5, <1>6 DEF TableFacts

\* The same of views.
LEMMA ViewItemsTellFacts ==
    ASSUME NEW v, NEW w, IsView(v), IsView(w),
           ViewItems(ViewDocument(v)) = ViewItems(ViewDocument(w))
    PROVE  ViewFacts(v) = ViewFacts(w)
<1>1. \A x : /\ ViewItems(x).schema = x.schema /\ ViewItems(x).name = x.name
             /\ ViewItems(x).columns = ToSet(x.columns)
  BY DEF ViewItems
<1>2. \A x : IsView(x) => /\ ViewDocument(x).schema = x.schema /\ ViewDocument(x).name = x.name
                          /\ ViewDocument(x).columns = Columns(x.columns)
  BY DEF ViewDocument, IsView
<1>3. /\ v.schema = w.schema /\ v.name = w.name
      /\ ToSet(Columns(v.columns)) = ToSet(Columns(w.columns))
  BY <1>1, <1>2
<1>4. [i \in DOMAIN v.columns |-> <<v.columns[i].name, v.columns[i].type>>]
        = [i \in DOMAIN w.columns |-> <<w.columns[i].name, w.columns[i].type>>]
  BY <1>3, ColumnsTellTheirOrder DEF IsView
<1> QED
  BY <1>3, <1>4 DEF ViewFacts

-----------------------------------------------------------------------------
(* The keys that stay. *)

\* A key in the document of an engine that knows its name.
Listing(k) == [name |-> <<k.name>>, columns |-> k.columns, table |-> k.table]

\* Such an engine lists each key of a table under its name, as it says it.
LEMMA KeysAsListed ==
    ASSUME NEW t, IsTable(t), engine # "sqlite"
    PROVE  /\ \A fk \in ToSet(ForeignKeys(t.foreign_keys)) :
                \E k \in ToSet(t.foreign_keys) : fk = Listing(k)
           /\ \A k \in ToSet(t.foreign_keys) :
                Listing(k) \in ToSet(ForeignKeys(t.foreign_keys)) /\ KeyFact(k) = k
<1> DEFINE a == t.foreign_keys
           Named(k) == k = [name |-> k.name, columns |-> k.columns, table |-> k.table]
<1>1. \A i \in DOMAIN a : Named(a[i])
  BY DEF IsTable
<1>2. \A k, x : Named(k) => [k EXCEPT !.name = x] = [name |-> x, columns |-> k.columns, table |-> k.table]
  <2> SUFFICES ASSUME NEW k, NEW x, Named(k)
               PROVE  [k EXCEPT !.name = x] = [name |-> x, columns |-> k.columns, table |-> k.table]
    OBVIOUS
  <2>1. \A n, c, t1 : [[name |-> n, columns |-> c, table |-> t1] EXCEPT !.name = x]
                        = [name |-> x, columns |-> c, table |-> t1]
    OBVIOUS
  <2> QED
    BY <2>1
<1>3. \A i \in DOMAIN a : ForeignKeys(a)[i] = Listing(a[i])
  <2> SUFFICES ASSUME NEW i \in DOMAIN a PROVE ForeignKeys(a)[i] = Listing(a[i])
    OBVIOUS
  <2>1. ForeignKeys(a)[i] = [a[i] EXCEPT !.name = key_name(a, i)] /\ key_name(a, i) = <<a[i].name>>
    BY DEF ForeignKeys, key_name
  <2> HIDE DEF a
  <2> QED
    BY <1>1, <1>2, <2>1 DEF Listing
<1>4. \A k : Named(k) => KeyFact(k) = k
  <2> SUFFICES ASSUME NEW k, Named(k) PROVE KeyFact(k) = k
    OBVIOUS
  <2>1. KeyFact(k) = [k EXCEPT !.name = k.name]
    BY DEF KeyFact
  <2> QED
    BY <1>2, <2>1
<1>5. DOMAIN ForeignKeys(a) = DOMAIN a
  BY DEF ForeignKeys
<1> HIDE DEF a, Named
<1> QED
  BY <1>1, <1>3, <1>4, <1>5 DEF ToSet, a

\* A key of both tables that says what no other key of them does is in no list.
LEMMA KeptKeyIsNotListed ==
    ASSUME NEW t, NEW u, IsTable(t), IsTable(u), engine # "sqlite",
           NEW kept \in ToSet(t.foreign_keys) \cap ToSet(u.foreign_keys),
           \A k \in ToSet(t.foreign_keys) \cup ToSet(u.foreign_keys) : Says(k) = Says(kept) => k = kept,
           NEW changes,
           changes = diff_foreign_keys(ForeignKeys(t.foreign_keys), ForeignKeys(u.foreign_keys)),
           NEW fk \in changes.added \cup changes.removed \cup {c.new : c \in changes.changed}
    PROVE  Says(fk) # Says(kept)
<1> DEFINE a == ForeignKeys(t.foreign_keys)
           b == ForeignKeys(u.foreign_keys)
           A == ToSet(t.foreign_keys)
           B == ToSet(u.foreign_keys)
           o == ByName(a)
           p == ByName(b)
           n == <<kept.name>>
<1>1. /\ DOMAIN o = Names(a) /\ \A i \in DOMAIN a : o[a[i].name] = a[i]
      /\ DOMAIN p = Names(b) /\ \A i \in DOMAIN b : p[b[i].name] = b[i]
  <2>1. NamedApart(a) /\ NamedApart(b)
    BY KeysAreApart
  <2> HIDE DEF a, b
  <2> QED
    BY <2>1, ByNameKeepsItems
<1>2. /\ \A x \in ToSet(a) : \E k \in A : x = Listing(k)
      /\ \A x \in ToSet(b) : \E k \in B : x = Listing(k)
      /\ Listing(kept) \in ToSet(a) \cap ToSet(b)
  BY KeysAsListed
<1>3. changes = ItemChanges(o, p)
  BY DEF diff_foreign_keys
<1>4. \A k \in A \cup B : Says(k) = Says(kept) => k = kept
  OBVIOUS
<1> HIDE DEF A, B
<1>5. /\ \A x \in ToSet(a) \cup ToSet(b) : Says(x) = Says(kept) => x = Listing(kept)
      /\ Listing(kept).name = n
  <2>1. \A k : Says(Listing(k)) = Says(k)
    BY DEF Says, Listing
  <2> QED
    BY <1>2, <1>4, <2>1 DEF Listing
<1> HIDE DEF a, b
<1>6. /\ n \in DOMAIN o /\ o[n] = Listing(kept) /\ n \in DOMAIN p /\ p[n] = Listing(kept)
      /\ \A m \in DOMAIN o : o[m] \in ToSet(a) /\ o[m].name = m
      /\ \A m \in DOMAIN p : p[m] \in ToSet(b) /\ p[m].name = m
  <2> HIDE DEF o, p, n
  <2> QED
    BY <1>1, <1>2, <1>5 DEF Names, ToSet
<1>7. \/ \E m \in DOMAIN p \ DOMAIN o : fk = p[m]
      \/ \E m \in DOMAIN o \ DOMAIN p : fk = o[m]
      \/ \E m \in Differing(o, p) : fk = p[m]
  BY <1>3, ThreeLists, ChangedSides
<1> HIDE DEF o, p, n
<1> QED
  BY <1>5, <1>6, <1>7 DEF Differing

-----------------------------------------------------------------------------
(* The command. *)

Empty(changes) == changes.added = {} /\ changes.removed = {} /\ changes.modified = {}

Finite(changes) ==
    IsFiniteSet(changes.added) /\ IsFiniteSet(changes.removed) /\ IsFiniteSet(changes.modified)

\* The count of a list of changes is 0 exactly when the list is empty.
LEMMA CountOfChanges ==
    ASSUME NEW changes, Finite(changes)
    PROVE  Count(changes) \in Nat /\ (Count(changes) = 0 <=> Empty(changes))
<1>1. \A S : IsFiniteSet(S) => Cardinality(S) \in Nat /\ (Cardinality(S) = 0 <=> S = {})
  BY FS_CardinalityType, FS_EmptySet
<1> DEFINE a == Cardinality(changes.added)
           r == Cardinality(changes.removed)
           m == Cardinality(changes.modified)
<1>2. /\ a \in Nat /\ (a = 0 <=> changes.added = {})
      /\ r \in Nat /\ (r = 0 <=> changes.removed = {})
      /\ m \in Nat /\ (m = 0 <=> changes.modified = {})
  BY <1>1 DEF Finite
<1>3. Count(changes) = a + r + m
  BY DEF Count
<1> HIDE DEF a, r, m
<1> QED
  BY <1>2, <1>3 DEF Empty

\* The report of the documents of two catalogs: what it lists, and when it lists nothing.
LEMMA Reported ==
    ASSUME NEW c \in Catalogs, NEW d \in Catalogs, NEW r, r = diff(Document(c), Document(d))
    PROVE  /\ r.tables = diff_tables(ByKey(Document(c).tables), ByKey(Document(d).tables))
           /\ r.views = diff_views(ByKey(Document(c).views), ByKey(Document(d).views))
           /\ ~(r.total_changes > 0) <=> Empty(r.tables) /\ Empty(r.views)
           /\ ~(r.total_changes > 0) => r = NoChanges
<1> DEFINE o == ByKey(Document(c).tables)
           n == ByKey(Document(d).tables)
           v == ByKey(Document(c).views)
           w == ByKey(Document(d).views)
<1>1. r = [tables |-> diff_tables(o, n), views |-> diff_views(v, w),
           total_changes |-> Count(diff_tables(o, n)) + Count(diff_views(v, w))]
  BY DEF diff
<1>2. Finite(diff_tables(o, n)) /\ Finite(diff_views(v, w))
  <2>1. /\ Maps(o, TableDocuments(c)) /\ Maps(n, TableDocuments(d))
        /\ IsFiniteSet(TableDocuments(c)) /\ IsFiniteSet(TableDocuments(d))
    BY DocumentsOfTables
  <2>2. /\ Maps(v, ViewDocuments(c)) /\ Maps(w, ViewDocuments(d))
        /\ IsFiniteSet(ViewDocuments(c)) /\ IsFiniteSet(ViewDocuments(d))
    BY DocumentsOfViews
  <2> HIDE DEF o, n, v, w
  <2>3. Finite(diff_tables(o, n))
    BY <2>1, AddedAndRemoved, ModifiedTables DEF Finite
  <2>4. Finite(diff_views(v, w))
    BY <2>2, AddedAndRemoved, ModifiedViews DEF Finite
  <2> QED
    BY <2>3, <2>4
<1>3. NoChanges = [tables |-> [added |-> {}, removed |-> {}, modified |-> {}],
                   views |-> [added |-> {}, removed |-> {}, modified |-> {}],
                   total_changes |-> 0]
  <2>1. DOMAIN ByKey(<<>>) = {}
    BY DEF ByKey, Collected
  <2>2. diff_tables(ByKey(<<>>), ByKey(<<>>)) = [added |-> {}, removed |-> {}, modified |-> {}]
    BY <2>1 DEF diff_tables
  <2>3. diff_views(ByKey(<<>>), ByKey(<<>>)) = [added |-> {}, removed |-> {}, modified |-> {}]
    BY <2>1 DEF diff_views
  <2>4. Count([added |-> {}, removed |-> {}, modified |-> {}]) = 0
    BY FS_EmptySet DEF Count
  <2> DEFINE e == [tables |-> <<>>, views |-> <<>>]
             none == [added |-> {}, removed |-> {}, modified |-> {}]
  <2>5. NoChanges = diff(e, e) /\ e.tables = <<>> /\ e.views = <<>>
    BY DEF NoChanges
  <2> HIDE DEF e
  <2>6. diff(e, e) = [tables |-> diff_tables(ByKey(e.tables), ByKey(e.tables)),
                      views |-> diff_views(ByKey(e.views), ByKey(e.views)),
                      total_changes |-> Count(diff_tables(ByKey(e.tables), ByKey(e.tables)))
                                        + Count(diff_views(ByKey(e.views), ByKey(e.views)))]
    BY DEF diff
  <2>7. diff(e, e) = [tables |-> none, views |-> none, total_changes |-> Count(none) + Count(none)]
    BY <2>2, <2>3, <2>5, <2>6
  <2>8. Count(none) = 0
    BY <2>4
  <2> HIDE DEF none
  <2>9. NoChanges = [tables |-> none, views |-> none, total_changes |-> 0]
    BY <2>5, <2>7, <2>8
  <2> QED
    BY <2>9 DEF none
<1>4. /\ diff_tables(o, n) = [added |-> diff_tables(o, n).added, removed |-> diff_tables(o, n).removed,
                              modified |-> diff_tables(o, n).modified]
      /\ diff_views(v, w) = [added |-> diff_views(v, w).added, removed |-> diff_views(v, w).removed,
                             modified |-> diff_views(v, w).modified]
  BY DEF diff_tables, diff_views
<1> HIDE DEF o, n, v, w
<1>5. /\ Count(diff_tables(o, n)) \in Nat /\ Count(diff_views(v, w)) \in Nat
      /\ Count(diff_tables(o, n)) = 0 <=> Empty(diff_tables(o, n))
      /\ Count(diff_views(v, w)) = 0 <=> Empty(diff_views(v, w))
  BY <1>2, CountOfChanges
<1>6. ~(r.total_changes > 0) <=> Empty(r.tables) /\ Empty(r.views)
  BY <1>1, <1>5
<1>7. ASSUME ~(r.total_changes > 0) PROVE r = NoChanges
  <2>1. Empty(diff_tables(o, n)) /\ Empty(diff_views(v, w)) /\ r.total_changes = 0
    BY <1>1, <1>5, <1>7
  <2> QED
    BY <1>1, <1>3, <1>4, <2>1 DEF Empty
<1> QED
  BY <1>1, <1>6, <1>7 DEF o, n, v, w

-----------------------------------------------------------------------------
(* The theorems. *)

Contents == Catalogs \cup {Absent, Partial}

\* What is known of the command at each place: it goes on with a file only when
\* the file is there, and it has reported exactly when it has compared.
DInv ==
    /\ engine \in Engines
    /\ files \in [Paths -> Contents]
    /\ pc \in {"idle", "read_new", "parse", "done"}
    /\ old \in Contents /\ new \in Contents
    /\ exit \in {0, 1, 10}
    /\ pc \in {"read_new", "parse"} => old # Absent
    /\ pc = "parse" => new # Absent
    /\ pc # "done" \/ exit = 1 => report = NoChanges
    /\ pc # "done" => exit = 0
    /\ pc = "done" /\ exit # 1 =>
        /\ old \in Catalogs /\ new \in Catalogs
        /\ report = diff(Document(old), Document(new))
        /\ exit = IF report.total_changes > 0 THEN 10 ELSE 0

\* Nothing has been read and nothing reported at the start.
LEMMA InitHolds == Init => DInv
<1> SUFFICES ASSUME Init PROVE DInv
  OBVIOUS
<1> QED
  BY DEF Init, DInv, Contents

\* No step of the command, and no export in between, breaks it.
LEMMA StepHolds == DInv /\ [Next]_vars => DInv'
<1> SUFFICES ASSUME DInv, [Next]_vars PROVE DInv'
  OBVIOUS
<1> USE DEF DInv, Contents
<1>1. ASSUME NEW p \in Paths, Export(p) PROVE DInv'
  <2>1. PICK content \in Catalogs \cup {Partial} : files' = [files EXCEPT ![p] = content]
    BY <1>1 DEF Export
  <2>2. files' \in [Paths -> Contents]
    BY <2>1
  <2>3. pc # "done" /\ UNCHANGED <<engine, pc, old, new, report, exit>>
    BY <1>1 DEF Export
  <2>4. NoChanges' = NoChanges
    BY DEF NoChanges
  <2> QED
    BY <2>2, <2>3
<1>2. CASE ReadOld
  <2>1. old' \in Contents
    BY <1>2 DEF ReadOld, Paths
  <2> QED
    BY <1>2, <2>1 DEF ReadOld
<1>3. CASE ReadNew
  <2>1. new' \in Contents
    BY <1>3 DEF ReadNew, Paths
  <2> QED
    BY <1>3, <2>1 DEF ReadNew
<1>4. CASE DiffFails
  BY <1>4 DEF DiffFails
<1>5. CASE Compare
  <2>1. /\ UNCHANGED <<engine, files, old, new>> /\ pc' = "done"
        /\ old \in Catalogs /\ new \in Catalogs
    BY <1>5 DEF Compare
  <2>2. Document(old)' = Document(old) /\ Document(new)' = Document(new)
    BY <2>1 DEF Document, TableDocument, ViewDocument, Columns, ForeignKeys, ordinal_position, key_name
  <2>3. report' = diff(Document(old), Document(new))'
    BY <1>5, <2>2 DEF Compare
  <2>4. /\ exit' = (IF report.total_changes > 0 THEN 10 ELSE 0)'
        /\ exit' \in {0, 10}
    BY <1>5 DEF Compare
  <2>5. /\ engine' \in Engines /\ files' \in [Paths -> Contents]
        /\ old' \in Contents /\ new' \in Contents
        /\ old' \in Catalogs /\ new' \in Catalogs
    BY <2>1
  <2> QED
    BY <2>1, <2>3, <2>4, <2>5
<1>6. CASE Again
  BY <1>6 DEF Again
<1>7. CASE UNCHANGED vars
  <2>1. UNCHANGED <<engine, files, pc, old, new, report, exit>>
    BY <1>7 DEF vars
  <2>2. Document(old)' = Document(old) /\ Document(new)' = Document(new)
    BY <2>1 DEF Document, TableDocument, ViewDocument, Columns, ForeignKeys, ordinal_position, key_name
  <2> QED
    BY <2>1, <2>2
<1> QED
  BY <1>1, <1>2, <1>3, <1>4, <1>5, <1>6, <1>7 DEF Next

\* The invariant holds throughout.
LEMMA DInvHolds == Spec => []DInv
BY InitHolds, StepHolds, PTL DEF Spec

\* Types, and that a report that lists changes comes with the exit code 10.
THEOREM DriftTypes == Spec => []TypeOK
<1>1. DInv => TypeOK
  <2> SUFFICES ASSUME DInv PROVE TypeOK
    OBVIOUS
  <2>1. ASSUME pc = "done", exit = 0 PROVE report = NoChanges
    BY <2>1, Reported DEF DInv
  <2> QED
    BY <2>1 DEF DInv, Contents, TypeOK
<1> QED
  BY <1>1, DInvHolds, PTL

\* For any catalogs and any engine, the report of `dbctx diff` applied to the old
\* document yields the new one, every table, view, column, index and key is in the
\* one list it belongs to, and 0 is the exit code exactly when nothing changes
\* (diff() of diff.rs, CLI.md:199-207).
THEOREM ReportAlwaysRebuilds == Spec => []ReportRebuildsNew
<1>1. DInv => ReportRebuildsNew
  <2> SUFFICES ASSUME DInv, Compared PROVE ReportRebuildsNew
    BY DEF ReportRebuildsNew
  <2>1. /\ old \in Catalogs /\ new \in Catalogs
        /\ report = diff(Document(old), Document(new))
        /\ exit = IF report.total_changes > 0 THEN 10 ELSE 0
    BY DEF DInv, Compared
  <2>2. /\ report.tables = diff_tables(ByKey(Document(old).tables), ByKey(Document(new).tables))
        /\ report.views = diff_views(ByKey(Document(old).views), ByKey(Document(new).views))
        /\ ~(report.total_changes > 0) <=> Empty(report.tables) /\ Empty(report.views)
    BY <2>1, Reported
  <2> DEFINE S == ToSet(Document(old).tables)
             T == ToSet(Document(new).tables)
             V == ToSet(Document(old).views)
             W == ToSet(Document(new).views)
             tables == {PatchedTable(t) : t \in S \ report.tables.removed}
             views == {PatchedView(t) : t \in V \ report.views.removed}
  <2>3. /\ tables \cup {Items(t) : t \in report.tables.added} = {Items(t) : t \in T}
        /\ tables = {Items(t) : t \in S} /\ report.tables.added = {} <=> Empty(report.tables)
        /\ ObjectsListedOnce(report.tables, S, T)
        /\ \A t \in S, u \in T : FullName(t) = FullName(u) =>
             \A d \in DiffsOf(report.tables, t) : TableListedOnce(d, t, u)
    <3>1. /\ Maps(ByKey(Document(old).tables), S) /\ Maps(ByKey(Document(new).tables), T)
          /\ IsFiniteSet(S) /\ IsFiniteSet(T) /\ \A x \in S \cup T : IsTableDocument(x)
      BY <2>1, DocumentsOfTables
    <3> HIDE DEF S, T
    <3> QED
      BY <2>2, <3>1, TablesRebuilt, TablesOnce DEF Empty
  <2>4. /\ views \cup {ViewItems(t) : t \in report.views.added} = {ViewItems(t) : t \in W}
        /\ views = {ViewItems(t) : t \in V} /\ report.views.added = {} <=> Empty(report.views)
        /\ ObjectsListedOnce(report.views, V, W)
        /\ \A v \in V, w \in W : FullName(v) = FullName(w) =>
             \A d \in DiffsOf(report.views, v) : ViewListedOnce(d, v, w)
    <3>1. /\ Maps(ByKey(Document(old).views), V) /\ Maps(ByKey(Document(new).views), W)
          /\ IsFiniteSet(V) /\ IsFiniteSet(W) /\ \A x \in V \cup W : NamedApart(x.columns)
      BY <2>1, DocumentsOfViews
    <3> HIDE DEF V, W
    <3> QED
      BY <2>2, <3>1, ViewsRebuilt, ViewsOnce DEF Empty
  <2>5. exit = 0 <=> Empty(report.tables) /\ Empty(report.views)
    BY <2>1, <2>2
  <2> HIDE DEF S, T, V, W, tables, views
  <2>6. exit = 0 <=> /\ tables = {Items(t) : t \in S}
                     /\ views = {ViewItems(t) : t \in V}
                     /\ report.tables.added = {} /\ report.views.added = {}
    BY <2>3, <2>4, <2>5
  <2>7. EverythingListedOnce(Document(old), Document(new))
    BY <2>3, <2>4 DEF EverythingListedOnce, S, T, V, W
  <2> QED
    BY <2>3, <2>4, <2>6, <2>7 DEF ReportRebuildsNew, S, T, V, W, tables, views
<1> QED
  BY <1>1, DInvHolds, PTL

\* For any catalogs and any engine: when `dbctx diff` finds nothing, the catalogs
\* of the two exports have the same tables and views, their columns in the same
\* order, the same indexes and the same foreign keys (CLI.md:207).  The numbers of
\* the columns tell their order, on the engine that keeps them and on the others.
THEOREM DriftIsAlwaysSeen == Spec => []NoDriftUnseen
<1>1. DInv => NoDriftUnseen
  <2> SUFFICES ASSUME DInv, Compared, exit = 0 PROVE NoDriftUnseen
    BY DEF NoDriftUnseen
  <2>1. /\ old \in Catalogs /\ new \in Catalogs
        /\ report = diff(Document(old), Document(new)) /\ ~(report.total_changes > 0)
    BY DEF DInv, Compared
  <2>2. /\ report.tables = diff_tables(ByKey(Document(old).tables), ByKey(Document(new).tables))
        /\ report.views = diff_views(ByKey(Document(old).views), ByKey(Document(new).views))
        /\ Empty(report.tables) /\ Empty(report.views)
    BY <2>1, Reported
  <2>3. /\ \A t \in old.tables \cup new.tables : IsTable(t)
        /\ \A v \in old.views \cup new.views : IsView(v)
    BY <2>1, CatalogsAssumption
  <2>4. {Items(x) : x \in TableDocuments(old)} = {Items(x) : x \in TableDocuments(new)}
    <3> DEFINE S == TableDocuments(old)
               T == TableDocuments(new)
               tables == {PatchedTable(t) : t \in S \ report.tables.removed}
    <3>1. /\ Maps(ByKey(Document(old).tables), S) /\ Maps(ByKey(Document(new).tables), T)
          /\ IsFiniteSet(S) /\ IsFiniteSet(T) /\ \A x \in S \cup T : IsTableDocument(x)
      BY <2>1, DocumentsOfTables
    <3> HIDE DEF S, T
    <3>2. /\ tables \cup {Items(t) : t \in report.tables.added} = {Items(t) : t \in T}
          /\ tables = {Items(t) : t \in S} /\ report.tables.added = {}
      BY <2>2, <3>1, TablesRebuilt DEF Empty
    <3> QED
      BY <3>2 DEF S, T
  <2>5. {ViewItems(x) : x \in ViewDocuments(old)} = {ViewItems(x) : x \in ViewDocuments(new)}
    <3> DEFINE V == ViewDocuments(old)
               W == ViewDocuments(new)
               views == {PatchedView(t) : t \in V \ report.views.removed}
    <3>1. /\ Maps(ByKey(Document(old).views), V) /\ Maps(ByKey(Document(new).views), W)
          /\ IsFiniteSet(V) /\ IsFiniteSet(W) /\ \A x \in V \cup W : NamedApart(x.columns)
      BY <2>1, DocumentsOfViews
    <3> HIDE DEF V, W
    <3>2. /\ views \cup {ViewItems(t) : t \in report.views.added} = {ViewItems(t) : t \in W}
          /\ views = {ViewItems(t) : t \in V} /\ report.views.added = {}
      BY <2>2, <3>1, ViewsRebuilt DEF Empty
    <3> QED
      BY <3>2 DEF V, W
  <2>6. /\ \A t \in old.tables : \E u \in new.tables : Items(TableDocument(t)) = Items(TableDocument(u))
        /\ \A u \in new.tables : \E t \in old.tables : Items(TableDocument(t)) = Items(TableDocument(u))
    BY <2>4 DEF TableDocuments
  <2>7. /\ \A v \in old.views : \E w \in new.views : ViewItems(ViewDocument(v)) = ViewItems(ViewDocument(w))
        /\ \A w \in new.views : \E v \in old.views : ViewItems(ViewDocument(v)) = ViewItems(ViewDocument(w))
    BY <2>5 DEF ViewDocuments
  <2>8. /\ \A t \in old.tables : \E u \in new.tables : TableFacts(t) = TableFacts(u)
        /\ \A u \in new.tables : \E t \in old.tables : TableFacts(t) = TableFacts(u)
    BY <2>3, <2>6, ItemsTellFacts
  <2>9. /\ \A v \in old.views : \E w \in new.views : ViewFacts(v) = ViewFacts(w)
        /\ \A w \in new.views : \E v \in old.views : ViewFacts(v) = ViewFacts(w)
    BY <2>3, <2>7, ViewItemsTellFacts
  <2>10. /\ {TableFacts(t) : t \in old.tables} = {TableFacts(t) : t \in new.tables}
         /\ {ViewFacts(v) : v \in old.views} = {ViewFacts(v) : v \in new.views}
    BY <2>8, <2>9
  <2> QED
    BY <2>10 DEF NoDriftUnseen
<1> QED
  BY <1>1, DInvHolds, PTL

\* For any catalogs, on every engine that knows the names of its keys: a foreign
\* key that is there before and after, and says what no other key of its table
\* does, is listed neither as added nor as removed nor as changed (diff.rs:124-128).
THEOREM NamedKeysAreAlwaysQuiet == Spec => []NamedKeysAreQuiet
<1>1. DInv => NamedKeysAreQuiet
  <2> SUFFICES ASSUME DInv, Compared, engine # "sqlite",
                      NEW d \in report.tables.modified, NEW kept \in KeptKeys(d),
                      NEW fk \in d.foreign_keys.added \cup d.foreign_keys.removed
                                 \cup {c.new : c \in d.foreign_keys.changed}
               PROVE  Says(fk) # Says(kept)
    BY DEF NamedKeysAreQuiet, KeptKeysAreQuiet
  <2> DEFINE o == ByKey(Document(old).tables)
             n == ByKey(Document(new).tables)
  <2>1. /\ old \in Catalogs /\ new \in Catalogs
        /\ report = diff(Document(old), Document(new))
    BY DEF DInv, Compared
  <2>2. report.tables = diff_tables(o, n)
    BY <2>1, Reported
  <2>3. Maps(o, TableDocuments(old)) /\ Maps(n, TableDocuments(new))
    BY <2>1, DocumentsOfTables
  <2>4. PICK k \in DOMAIN o \cap DOMAIN n : d = diff_table(o[k], n[k]) /\ FullName(d) = k
    <3> HIDE DEF o, n
    <3> QED
      BY <2>2, <2>3, ModifiedTables
  <2>5. PICK t \in old.tables : o[k] = TableDocument(t)
    BY <2>3 DEF Maps, TableDocuments
  <2>6. PICK u \in new.tables : n[k] = TableDocument(u)
    BY <2>3 DEF Maps, TableDocuments
  <2>7. /\ FullName(t) = k /\ FullName(u) = k
        /\ d.foreign_keys = diff_foreign_keys(ForeignKeys(t.foreign_keys), ForeignKeys(u.foreign_keys))
    <3>1. FullName(o[k]) = k /\ FullName(n[k]) = k
      BY <2>3 DEF Maps
    <3>2. \A x : /\ FullName(TableDocument(x)) = FullName(x)
                 /\ TableDocument(x).foreign_keys = ForeignKeys(x.foreign_keys)
      BY DEF TableDocument, FullName
    <3>3. d.foreign_keys = diff_foreign_keys(o[k].foreign_keys, n[k].foreign_keys)
      BY <2>4 DEF diff_table
    <3> HIDE DEF o, n
    <3> QED
      BY <2>5, <2>6, <3>1, <3>2, <3>3
  <2>8. /\ IsTable(t) /\ IsTable(u)
        /\ {x \in old.tables : FullName(x) = FullName(d)} = {t}
        /\ {x \in new.tables : FullName(x) = FullName(d)} = {u}
    BY <2>1, <2>4, <2>7, CatalogsAssumption DEF IsSchema
  <2> DEFINE A == ToSet(t.foreign_keys)
             B == ToSet(u.foreign_keys)
             Facts(S) == {KeyFact(x) : x \in S}
  <2>9. Facts(A) = A /\ Facts(B) = B
    BY <2>8, KeysAsListed
  <2>10. /\ kept \in Facts(A) \cap Facts(B)
         /\ \A other \in Facts(A) \cup Facts(B) : Says(other) = Says(kept) => other = kept
    <3>1. /\ UNION {{KeyFact(x) : x \in ToSet(y.foreign_keys)} :
                        y \in {x \in old.tables : FullName(x) = FullName(d)}} = Facts(A)
          /\ UNION {{KeyFact(x) : x \in ToSet(y.foreign_keys)} :
                        y \in {x \in new.tables : FullName(x) = FullName(d)}} = Facts(B)
      BY <2>8
    <3> QED
      BY <3>1 DEF KeptKeys
  <2> HIDE DEF Facts
  <2>11. /\ kept \in A \cap B
         /\ \A other \in A \cup B : Says(other) = Says(kept) => other = kept
    BY <2>9, <2>10
  <2> QED
    BY <2>7, <2>8, <2>11, KeptKeyIsNotListed
<1> QED
  BY <1>1, DInvHolds, PTL

=============================================================================
