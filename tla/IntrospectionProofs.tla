-------------------------- MODULE IntrospectionProofs --------------------------
(***************************************************************************)
(* What an inspection promises of any catalogs, on any engine and with any *)
(* DDL between its queries.                                                *)
(***************************************************************************)
EXTENDS InspectAndValidate, ValidationProofs

-----------------------------------------------------------------------------
(* Lists. *)

\* Kept picks out the members of a set, none twice that is there once.
LEMMA KeptMembers ==
    ASSUME NEW S, NEW list \in Seq(S), NEW M
    PROVE  /\ Kept(list, M) \in Seq(S) /\ ToSet(Kept(list, M)) = ToSet(list) \cap M
           /\ Len(Kept(list, M)) <= Len(list)
           /\ NoRepeats(list) => NoRepeats(Kept(list, M))
<1> DEFINE n == Len(list)
           Defines(f) == f = [i \in 0 .. n |->
                IF i = 0 THEN <<>>
                ELSE IF list[i] \in M THEN Append(f[i - 1], list[i]) ELSE f[i - 1]]
           kept == CHOOSE f : Defines(f)
           step == [i \in 1 .. n |-> [s \in Seq(S) |->
                IF list[i] \in M THEN Append(s, list[i]) ELSE s]]
<1>1. n \in Nat /\ \A i \in 1 .. n : list[i] \in S
  OBVIOUS
<1>2. step \in [1 .. n -> [Seq(S) -> Seq(S)]]
  BY <1>1
<1>3. PICK f \in [0 .. n -> Seq(S)] : f[0] = <<>> /\ \A i \in 1 .. n : f[i] = step[i][f[i - 1]]
  <2> DEFINE V == Seq(S)
             start == <<>>
  <2>1. start \in V /\ step \in [1 .. n -> [V -> V]]
    BY <1>2
  <2> HIDE DEF n, step, V, start
  <2>2. HasSolution(n, V, start, step)
    BY <1>1, <2>1, DefinedFromTheStart
  <2> QED
    BY <2>2 DEF V, start, HasSolution
<1>4. \A i \in 1 .. n : f[i] = IF list[i] \in M THEN Append(f[i - 1], list[i]) ELSE f[i - 1]
  <2> SUFFICES ASSUME NEW i \in 1 .. n
               PROVE  f[i] = IF list[i] \in M THEN Append(f[i - 1], list[i]) ELSE f[i - 1]
    OBVIOUS
  <2>1. i - 1 \in 0 .. n /\ f[i - 1] \in Seq(S)
    BY <1>1, <1>3
  <2> QED
    BY <1>3, <2>1
<1>5. Defines(f)
  <2> DEFINE g == [i \in 0 .. n |->
                IF i = 0 THEN <<>>
                ELSE IF list[i] \in M THEN Append(f[i - 1], list[i]) ELSE f[i - 1]]
  <2>1. \A i \in 0 .. n : f[i] = g[i]
    <3>1. \A i \in 0 .. n : i = 0 \/ i \in 1 .. n
      BY <1>1
    <3>2. g[0] = <<>>
      BY <1>1
    <3>3. \A i \in 1 .. n : g[i] = IF list[i] \in M THEN Append(f[i - 1], list[i]) ELSE f[i - 1]
      BY <1>1
    <3> HIDE DEF g, n
    <3> QED
      BY <1>3, <1>4, <3>1, <3>2, <3>3
  <2>2. f = [i \in 0 .. n |-> f[i]]
    OBVIOUS
  <2>3. g = [i \in 0 .. n |-> g[i]]
    OBVIOUS
  <2> HIDE DEF g, n
  <2>4. f = g
    BY <2>1, <2>2, <2>3
  <2> QED
    BY <2>4 DEF g
<1>6. Defines(kept)
  <2> HIDE DEF Defines
  <2> QED
    BY <1>5
<1>7. Kept(list, M) = kept[n]
  BY DEF Kept
<1> HIDE DEF n, kept
<1>8. /\ kept[0] = <<>>
      /\ \A i \in 1 .. n : kept[i] = IF list[i] \in M THEN Append(kept[i - 1], list[i]) ELSE kept[i - 1]
  <2>1. kept = [i \in 0 .. n |->
                IF i = 0 THEN <<>>
                ELSE IF list[i] \in M THEN Append(kept[i - 1], list[i]) ELSE kept[i - 1]]
    BY <1>6
  <2>2. \A i \in 0 .. n : kept[i] =
            IF i = 0 THEN <<>>
            ELSE IF list[i] \in M THEN Append(kept[i - 1], list[i]) ELSE kept[i - 1]
    BY <2>1
  <2>3. 0 \in 0 .. n /\ \A i \in 1 .. n : i \in 0 .. n /\ i # 0
    BY <1>1
  <2> QED
    BY <2>2, <2>3
<1> DEFINE P(i) == /\ kept[i] \in Seq(S) /\ Len(kept[i]) <= i
                   /\ ToSet(kept[i]) = {list[j] : j \in 1 .. i} \cap M
                   /\ NoRepeats(list) => NoRepeats(kept[i])
           Z == {i \in 0 .. n : P(i)}
<1>9. 0 \in Z
  <2>1. ToSet(<<>>) = {} /\ <<>> \in Seq(S) /\ Len(<<>>) = 0 /\ {list[j] : j \in 1 .. 0} = {}
    BY DEF ToSet
  <2>2. kept[0] \in Seq(S) /\ Len(kept[0]) <= 0 /\ ToSet(kept[0]) = {list[j] : j \in 1 .. 0} \cap M /\ 0 \in 0 .. n
    BY <1>1, <1>8, <2>1
  <2>3. NoRepeats(kept[0])
    BY <1>8 DEF NoRepeats
  <2> QED
    BY <2>2, <2>3
<1>10. ASSUME NEW i \in 1 .. n, i - 1 \in Z PROVE i \in Z
  <2>0. P(i - 1)
    <3> HIDE DEF P
    <3> QED
      BY <1>10
  <2>1. \A s \in Seq(S), x \in S : Append(s, x) \in Seq(S) /\ Len(Append(s, x)) = Len(s) + 1 /\ ToSet(Append(s, x)) = ToSet(s) \cup {x}
    <3> SUFFICES ASSUME NEW s \in Seq(S), NEW x \in S
                 PROVE  Append(s, x) \in Seq(S) /\ Len(Append(s, x)) = Len(s) + 1 /\ ToSet(Append(s, x)) = ToSet(s) \cup {x}
      OBVIOUS
    <3>1. /\ DOMAIN Append(s, x) = 1 .. Len(s) + 1 /\ Append(s, x)[Len(s) + 1] = x
          /\ DOMAIN s = 1 .. Len(s) /\ \A j \in 1 .. Len(s) : Append(s, x)[j] = s[j]
          /\ Len(s) \in Nat
      OBVIOUS
    <3>2. \A j \in 1 .. Len(s) + 1 : j \in 1 .. Len(s) \/ j = Len(s) + 1
      BY <3>1
    <3> QED
      BY <3>1, <3>2 DEF ToSet
  <2>2. {list[j] : j \in 1 .. i} = {list[j] : j \in 1 .. i - 1} \cup {list[i]}
    <3>1. \A j \in 1 .. i : j = i \/ j \in 1 .. i - 1
      BY <1>1
    <3>2. i \in 1 .. i /\ \A j \in 1 .. i - 1 : j \in 1 .. i
      BY <1>1
    <3> QED
      BY <3>1, <3>2
  <2>3. kept[i] \in Seq(S) /\ Len(kept[i]) <= i /\ ToSet(kept[i]) = {list[j] : j \in 1 .. i} \cap M
    <3>1. kept[i - 1] \in Seq(S) /\ Len(kept[i - 1]) <= i - 1 /\ ToSet(kept[i - 1]) = {list[j] : j \in 1 .. i - 1} \cap M
      BY <2>0
    <3>2. CASE list[i] \in M
      <4>1. kept[i] = Append(kept[i - 1], list[i])
        BY <1>8, <3>2
      <4>2. list[i] \in S
        BY <1>1
      <4>3. /\ kept[i] \in Seq(S) /\ Len(kept[i]) = Len(kept[i - 1]) + 1
            /\ ToSet(kept[i]) = ToSet(kept[i - 1]) \cup {list[i]}
        BY <2>1, <3>1, <4>1, <4>2, Zenon
      <4>4. {list[j] : j \in 1 .. i} \cap M = ({list[j] : j \in 1 .. i - 1} \cap M) \cup {list[i]}
        BY <2>2, <3>2
      <4>5. Len(kept[i - 1]) \in Nat
        BY <3>1
      <4>6. Len(kept[i]) <= i
        BY <1>1, <3>1, <4>3, <4>5
      <4> QED
        BY <3>1, <4>3, <4>4, <4>6, Zenon
    <3>3. CASE list[i] \notin M
      <4>1. kept[i] = kept[i - 1]
        BY <1>8, <3>3
      <4>2. {list[j] : j \in 1 .. i} \cap M = {list[j] : j \in 1 .. i - 1} \cap M
        BY <2>2, <3>3
      <4>3. i - 1 <= i
        BY <1>1
      <4>4. Len(kept[i]) <= i
        BY <3>1, <4>1, <4>3
      <4> QED
        BY <3>1, <4>1, <4>2, <4>4, Zenon
    <3> QED
      BY <3>2, <3>3
  <2>4. ASSUME NoRepeats(list) PROVE NoRepeats(kept[i])
    <3>1. NoRepeats(kept[i - 1]) /\ kept[i - 1] \in Seq(S) /\ ToSet(kept[i - 1]) = {list[j] : j \in 1 .. i - 1} \cap M
      BY <2>0, <2>4
    <3>2. CASE list[i] \in M
      <4> DEFINE s == kept[i - 1]
                 x == list[i]
      <4>1. kept[i] = Append(s, x)
        BY <1>8, <3>2
      <4>2. \A j \in 1 .. i - 1 : list[j] # x
        BY <1>1, <2>4 DEF NoRepeats, n
      <4>3. x \notin ToSet(s) /\ s \in Seq(S) /\ x \in S /\ NoRepeats(s)
        BY <1>1, <3>1, <4>2
      <4> HIDE DEF s, x
      <4>4. /\ Len(s) \in Nat /\ Len(Append(s, x)) = Len(s) + 1 /\ Append(s, x)[Len(s) + 1] = x
            /\ \A j \in 1 .. Len(s) : Append(s, x)[j] = s[j] /\ j \in DOMAIN s
        BY <4>3
      <4>5. \A j \in 1 .. Len(s) + 1 : j \in 1 .. Len(s) \/ j = Len(s) + 1
        BY <4>4
      <4>6. \A j \in 1 .. Len(s) : s[j] # x
        BY <4>3, <4>4 DEF ToSet
      <4> QED
        BY <4>1, <4>3, <4>4, <4>5, <4>6 DEF NoRepeats
    <3>3. CASE list[i] \notin M
      <4>1. kept[i] = kept[i - 1]
        BY <1>8, <3>3
      <4> QED
        BY <3>1, <4>1
    <3> QED
      BY <3>2, <3>3
  <2>5. P(i)
    BY <2>3, <2>4, Zenon
  <2>6. i \in 0 .. n
    BY <1>1
  <2> HIDE DEF P
  <2> QED
    BY <2>5, <2>6
<1>11. n \in Z
  <2> HIDE DEF Z
  <2>1. \A i \in 0 .. n : i \in Z
    BY <1>1, <1>9, <1>10, FromTheStart
  <2> QED
    BY <1>1, <2>1
<1>12. ToSet(list) = {list[j] : j \in 1 .. n}
  BY DEF ToSet, n
<1>13. P(n)
  <2> HIDE DEF P
  <2> QED
    BY <1>11
<1> QED
  BY <1>7, <1>12, <1>13 DEF n

-----------------------------------------------------------------------------
(* The queries. *)

\* The indexes PRAGMA index_list may name.
Listings == UNION {UNION {c[k].indexes : k \in KeySet} : c \in Catalogs}

AskInfo(of, i) == [what |-> "index_info", of |-> of, list |-> i]

Queries ==
    UNION {{Ask(what, of) : what \in Wanted} \cup {AskInfo(of, i) : i \in Listings} :
            of \in SUBSET KeySet}

\* AskAll asks each of the questions once, of all the keys.
LEMMA AskedOfAll ==
    ASSUME NEW W, NEW whats \in Seq(W), NEW keys
    PROVE  /\ AskAll(whats, keys) \in Seq({Ask(w, keys) : w \in ToSet(whats)})
           /\ ToSet(AskAll(whats, keys)) = {Ask(w, keys) : w \in ToSet(whats)}
<1> DEFINE A == {Ask(w, keys) : w \in ToSet(whats)}
           n == Len(whats)
           all == [i \in 1 .. n |-> Ask(whats[i], keys)]
<1>1. n \in Nat /\ DOMAIN whats = 1 .. n /\ AskAll(whats, keys) = all
  BY DEF AskAll
<1>2. \A i \in 1 .. n : all[i] \in A
  BY <1>1 DEF ToSet
<1>3. all \in [1 .. n -> A]
  <2> HIDE DEF A, n
  <2> QED
    BY <1>2
<1>4. \A x \in A : \E i \in 1 .. n : x = all[i]
  BY <1>1 DEF ToSet
<1> HIDE DEF A, n, all
<1>5. all \in Seq(A)
  BY <1>1, <1>3
<1>6. DOMAIN all = 1 .. n
  BY <1>3
<1>7. ToSet(all) = A
  BY <1>2, <1>4, <1>6 DEF ToSet
<1> QED
  BY <1>1, <1>5, <1>7 DEF A

AllAsked(whats, keys) == UNION {{Ask(w, {k}) : w \in whats} : k \in keys}

\* AskEach asks each of the questions of each key.
LEMMA AskedOfEach ==
    ASSUME NEW W, NEW whats \in Seq(W), NEW K, NEW keys \in Seq(K)
    PROVE  LET asked == AllAsked(ToSet(whats), ToSet(keys))
           IN  AskEach(whats, keys) \in Seq(asked) /\ ToSet(AskEach(whats, keys)) = asked
<1> DEFINE asked == AllAsked(ToSet(whats), ToSet(keys))
           n == Len(keys)
           lists == [i \in 1 .. n |-> AskAll(whats, {keys[i]})]
<1>1. n \in Nat /\ DOMAIN keys = 1 .. n /\ AskEach(whats, keys) = FlattenSeq(lists)
  BY DEF AskEach
<1>2. ToSet(keys) = {keys[i] : i \in 1 .. n}
  BY <1>1 DEF ToSet
<1>3. \A i \in 1 .. n : /\ lists[i] \in Seq({Ask(w, {keys[i]}) : w \in ToSet(whats)})
                        /\ ToSet(lists[i]) = {Ask(w, {keys[i]}) : w \in ToSet(whats)}
  <2> SUFFICES ASSUME NEW i \in 1 .. n
               PROVE  /\ lists[i] \in Seq({Ask(w, {keys[i]}) : w \in ToSet(whats)})
                      /\ ToSet(lists[i]) = {Ask(w, {keys[i]}) : w \in ToSet(whats)}
    OBVIOUS
  <2>1. lists[i] = AskAll(whats, {keys[i]})
    OBVIOUS
  <2> HIDE DEF lists, n
  <2> QED
    BY <2>1, AskedOfAll
<1>4. \A i \in 1 .. n : {Ask(w, {keys[i]}) : w \in ToSet(whats)} \subseteq asked
  <2>1. \A k \in ToSet(keys) : {Ask(w, {k}) : w \in ToSet(whats)} \subseteq asked
    BY DEF AllAsked
  <2>2. \A i \in 1 .. n : keys[i] \in ToSet(keys)
    BY <1>2
  <2> HIDE DEF asked
  <2> QED
    BY <2>1, <2>2
<1>5. \A i \in 1 .. n : lists[i] \in Seq(asked)
  <2> SUFFICES ASSUME NEW i \in 1 .. n PROVE lists[i] \in Seq(asked)
    OBVIOUS
  <2> DEFINE A == {Ask(w, {keys[i]}) : w \in ToSet(whats)}
  <2>1. lists[i] \in Seq(A) /\ A \subseteq asked
    BY <1>3, <1>4
  <2> HIDE DEF A, lists, asked
  <2> QED
    BY <2>1
<1>6. lists \in Seq(Seq(asked)) /\ DOMAIN lists = 1 .. n
  <2>1. lists \in [1 .. n -> Seq(asked)]
    <3> DEFINE V == Seq(asked)
    <3>1. \A i \in 1 .. n : lists[i] \in V
      BY <1>5
    <3>2. lists = [i \in 1 .. n |-> lists[i]]
      OBVIOUS
    <3> HIDE DEF V, lists, n
    <3>3. lists \in [1 .. n -> V]
      BY <3>1, <3>2
    <3> QED
      BY <3>3 DEF V
  <2> HIDE DEF lists, asked, n
  <2> QED
    BY <1>1, <2>1
<1>7. /\ FlattenSeq(lists) \in Seq(asked)
      /\ ToSet(FlattenSeq(lists)) = UNION {ToSet(lists[i]) : i \in 1 .. n}
  <2> HIDE DEF lists, asked, n
  <2> QED
    BY <1>6, Flattened
<1>8. UNION {ToSet(lists[i]) : i \in 1 .. n} = asked
  <2>1. ASSUME NEW x \in UNION {ToSet(lists[i]) : i \in 1 .. n} PROVE x \in asked
    BY <1>3, <1>4
  <2>2. ASSUME NEW x \in asked PROVE x \in UNION {ToSet(lists[i]) : i \in 1 .. n}
    <3>1. PICK w \in ToSet(whats), k \in ToSet(keys) : x = Ask(w, {k})
      BY DEF AllAsked
    <3>2. PICK i \in 1 .. n : k = keys[i]
      BY <1>2
    <3>3. x \in ToSet(lists[i])
      BY <1>3, <3>1, <3>2
    <3> QED
      BY <3>3
  <2> QED
    BY <2>1, <2>2
<1> HIDE DEF lists, asked, n
<1> QED
  BY <1>1, <1>7, <1>8 DEF asked

\* The names a driver goes through are those it was told, in the order of Keys.
LEMMA OrderedIs ==
    ASSUME NEW keys \in SUBSET KeySet
    PROVE  /\ Ordered(keys) \in Seq(KeySet) /\ ToSet(Ordered(keys)) = keys
           /\ NoRepeats(Ordered(keys))
<1>1. /\ Kept(Keys, keys) \in Seq(KeySet) /\ ToSet(Kept(Keys, keys)) = ToSet(Keys) \cap keys
      /\ NoRepeats(Keys) => NoRepeats(Kept(Keys, keys))
  BY KeysAssumption, KeptMembers
<1>3. NoRepeats(Keys)
  <2>1. DOMAIN Keys = 1 .. Len(Keys)
    BY KeysAssumption
  <2> QED
    BY <2>1, KeysAssumption DEF NoRepeats
<1>2. ToSet(Keys) = KeySet
  BY DEF KeySet
<1> QED
  BY <1>1, <1>2, <1>3 DEF Ordered

\* A query asks something of some keys.
LEMMA QueriesAsk ==
    /\ \A q \in Queries : q.what \in Wanted /\ q.of \in SUBSET KeySet
    /\ \A what \in Wanted, of \in SUBSET KeySet : Ask(what, of) \in Queries
    /\ \A i \in Listings, of \in SUBSET KeySet : AskInfo(of, i) \in Queries
<1> DEFINE Of(of) == {Ask(what, of) : what \in Wanted} \cup {AskInfo(of, i) : i \in Listings}
<1>1. Queries = UNION {Of(of) : of \in SUBSET KeySet}
  BY DEF Queries
<1>2. ASSUME NEW of \in SUBSET KeySet, NEW q \in Of(of)
      PROVE  q.what \in Wanted /\ q.of \in SUBSET KeySet
  <2>1. CASE q \in {Ask(what, of) : what \in Wanted}
    BY <2>1 DEF Ask
  <2>2. CASE q \in {AskInfo(of, i) : i \in Listings}
    BY <2>2 DEF AskInfo, Wanted
  <2> QED
    BY <2>1, <2>2
<1>3. \A of \in SUBSET KeySet : /\ \A what \in Wanted : Ask(what, of) \in Of(of)
                                /\ \A i \in Listings : AskInfo(of, i) \in Of(of)
  OBVIOUS
<1> HIDE DEF Of
<1> QED
  BY <1>1, <1>2, <1>3

\* What a driver asks before it knows a name.
FirstAsked(e) ==
    CASE e = "mysql"     -> {"tables", "columns", "indexes", "foreign_keys", "views"}
      [] e = "postgres"  -> {"tables", "views", "info", "columns", "indexes", "foreign_keys"}
      [] e = "sqlserver" -> {"tables", "columns", "indexes", "foreign_keys", "auto", "info", "views"}
      [] e = "sqlite"    -> {"tables", "views"}

FirstQueries(e) ==
    IF e = "sqlite"
    THEN UNION {{Ask(w, InSchema(k[1])) : w \in FirstAsked(e)} : k \in KeySet}
    ELSE {Ask(w, Scope(e)) : w \in FirstAsked(e)}

\* An inspection begins with these queries, and SQLite asks of each schema.
LEMMA AgendaIs ==
    ASSUME NEW e \in AllEngines
    PROVE  /\ Agenda(e) \in Seq(Queries)
           /\ ToSet(Agenda(e)) = FirstQueries(e)
<1>1. ASSUME NEW whats \in Seq(Wanted), NEW keys \in SUBSET KeySet
      PROVE  /\ AskAll(whats, keys) \in Seq(Queries)
             /\ ToSet(AskAll(whats, keys)) = {Ask(w, keys) : w \in ToSet(whats)}
  <2> DEFINE A == {Ask(w, keys) : w \in ToSet(whats)}
  <2>1. AskAll(whats, keys) \in Seq(A) /\ ToSet(AskAll(whats, keys)) = A
    BY <1>1, AskedOfAll
  <2>2. \A w \in ToSet(whats) : w \in Wanted
    BY <1>1 DEF ToSet
  <2>3. A \subseteq Queries
    BY <2>2, QueriesAsk
  <2> HIDE DEF A
  <2>4. AskAll(whats, keys) \in Seq(Queries)
    BY <2>1, <2>3
  <2> QED
    BY <2>1, <2>4 DEF A
<1>2. \A s : InSchema(s) \in SUBSET KeySet
  BY DEF InSchema
<1>3. Scope(e) \in SUBSET KeySet
  BY <1>2 DEF Scope
<1>4. CASE e = "mysql"
  <2> DEFINE whats == <<"tables", "columns", "indexes", "foreign_keys", "views">>
  <2>1. whats \in Seq(Wanted)
    BY DEF Wanted
  <2>2. ToSet(whats) = FirstAsked(e)
    BY <1>4 DEF ToSet, FirstAsked
  <2>3. Agenda(e) = AskAll(whats, Scope(e))
    BY <1>4 DEF Agenda, MysqlAgenda
  <2>4. FirstQueries(e) = {Ask(w, Scope(e)) : w \in FirstAsked(e)}
    BY <1>4 DEF FirstQueries
  <2> HIDE DEF whats
  <2> QED
    BY <1>1, <1>3, <2>1, <2>2, <2>3, <2>4
<1>5. CASE e = "postgres"
  <2> DEFINE whats == <<"tables", "views", "info", "columns", "indexes", "foreign_keys">>
  <2>1. whats \in Seq(Wanted)
    BY DEF Wanted
  <2>2. ToSet(whats) = FirstAsked(e)
    BY <1>5 DEF ToSet, FirstAsked
  <2>3. Agenda(e) = AskAll(whats, Scope(e))
    BY <1>5 DEF Agenda, PostgresAgenda
  <2>4. FirstQueries(e) = {Ask(w, Scope(e)) : w \in FirstAsked(e)}
    BY <1>5 DEF FirstQueries
  <2> HIDE DEF whats
  <2> QED
    BY <1>1, <1>3, <2>1, <2>2, <2>3, <2>4
<1>6. CASE e = "sqlserver"
  <2> DEFINE whats == <<"tables", "columns", "indexes", "foreign_keys", "auto", "info", "views">>
  <2>1. whats \in Seq(Wanted)
    BY DEF Wanted
  <2>2. ToSet(whats) = FirstAsked(e)
    BY <1>6 DEF ToSet, FirstAsked
  <2>3. Agenda(e) = AskAll(whats, Scope(e))
    BY <1>6 DEF Agenda, SqlserverAgenda
  <2>4. FirstQueries(e) = {Ask(w, Scope(e)) : w \in FirstAsked(e)}
    BY <1>6 DEF FirstQueries
  <2> HIDE DEF whats
  <2> QED
    BY <1>1, <1>3, <2>1, <2>2, <2>3, <2>4
<1>7. CASE e = "sqlite"
  <2> DEFINE n == Len(Keys)
             whats == <<"tables", "views">>
             first(i) == \A j \in 1 .. i - 1 : Keys[j][1] # Keys[i][1]
             asked(i) == AskAll(whats, InSchema(Keys[i][1]))
             lists == [i \in 1 .. n |-> IF first(i) THEN asked(i) ELSE <<>>]
             of(s) == {Ask(w, InSchema(s)) : w \in FirstAsked(e)}
  <2>1. whats \in Seq(Wanted) /\ ToSet(whats) = FirstAsked(e)
    BY <1>7 DEF Wanted, ToSet, FirstAsked
  <2>2. n \in Nat /\ KeySet = {Keys[i] : i \in 1 .. n}
    BY KeysAssumption DEF KeySet, ToSet
  <2>3. Agenda(e) = FlattenSeq(lists)
    BY <1>7 DEF Agenda, SqliteAgenda
  <2>4. FirstQueries(e) = UNION {of(k[1]) : k \in KeySet}
    BY <1>7 DEF FirstQueries
  <2> HIDE DEF n, whats, first
  <2>5. \A i \in 1 .. n : asked(i) \in Seq(Queries) /\ ToSet(asked(i)) = of(Keys[i][1])
    BY <1>1, <1>2, <2>1
  <2> HIDE DEF asked, of
  <2>6. \A i \in 1 .. n : /\ lists[i] \in Seq(Queries)
                          /\ ToSet(lists[i]) = IF first(i) THEN of(Keys[i][1]) ELSE {}
    <3>1. \A i \in 1 .. n : lists[i] = IF first(i) THEN asked(i) ELSE <<>>
      OBVIOUS
    <3>2. <<>> \in Seq(Queries) /\ ToSet(<<>>) = {}
      BY DEF ToSet
    <3> DEFINE V == Seq(Queries)
    <3>3. /\ \A i \in 1 .. n : asked(i) \in V /\ ToSet(asked(i)) = of(Keys[i][1])
          /\ <<>> \in V
      BY <2>5, <3>2
    <3> HIDE DEF lists, V
    <3>4. \A i \in 1 .. n : /\ lists[i] \in V
                            /\ ToSet(lists[i]) = IF first(i) THEN of(Keys[i][1]) ELSE {}
      BY <3>1, <3>2, <3>3
    <3> QED
      BY <3>4 DEF V
  <2>7. lists \in Seq(Seq(Queries)) /\ DOMAIN lists = 1 .. n
    <3> DEFINE V == Seq(Queries)
    <3>1. \A i \in 1 .. n : lists[i] \in V
      BY <2>6
    <3>2. lists = [i \in 1 .. n |-> lists[i]]
      OBVIOUS
    <3> HIDE DEF V, lists
    <3>3. lists \in [1 .. n -> V]
      BY <3>1, <3>2
    <3>4. lists \in Seq(V)
      BY <2>2, <3>3
    <3> QED
      BY <3>3, <3>4 DEF V
  <2> HIDE DEF lists
  <2>8. /\ FlattenSeq(lists) \in Seq(Queries)
        /\ ToSet(FlattenSeq(lists)) = UNION {ToSet(lists[i]) : i \in 1 .. n}
    BY <2>7, Flattened
  <2>9. \A i \in 1 .. n : \E j \in 1 .. n : first(j) /\ Keys[j][1] = Keys[i][1]
    <3> SUFFICES ASSUME NEW i \in 1 .. n PROVE \E j \in 1 .. n : first(j) /\ Keys[j][1] = Keys[i][1]
      OBVIOUS
    <3> DEFINE Z == {m \in 0 .. n : \A j \in 1 .. n : j <= m =>
                        \E l \in 1 .. n : first(l) /\ Keys[l][1] = Keys[j][1]}
    <3>1. 0 \in Z
      BY <2>2
    <3>2. ASSUME NEW m \in 1 .. n, m - 1 \in Z PROVE m \in Z
      <4>1. \A j \in 1 .. n : j <= m => j <= m - 1 \/ j = m
        BY <2>2
      <4>2. \E l \in 1 .. n : first(l) /\ Keys[l][1] = Keys[m][1]
        <5>1. CASE first(m)
          BY <5>1
        <5>2. CASE ~first(m)
          <6>1. PICK j \in 1 .. m - 1 : Keys[j][1] = Keys[m][1]
            BY <5>2 DEF first
          <6>2. j \in 1 .. n /\ j <= m - 1
            BY <2>2
          <6> QED
            BY <3>2, <6>1, <6>2
        <5> QED
          BY <5>1, <5>2
      <4>3. m \in 0 .. n
        BY <2>2
      <4> QED
        BY <3>2, <4>1, <4>2, <4>3
    <3>3. n \in Z
      <4> HIDE DEF Z
      <4>1. \A m \in 0 .. n : m \in Z
        BY <2>2, <3>1, <3>2, FromTheStart
      <4> QED
        BY <2>2, <4>1
    <3>4. i <= n
      BY <2>2
    <3> QED
      BY <3>3, <3>4
  <2>10. UNION {ToSet(lists[i]) : i \in 1 .. n} = UNION {of(k[1]) : k \in KeySet}
    <3>1. ASSUME NEW x \in UNION {ToSet(lists[i]) : i \in 1 .. n}
          PROVE  x \in UNION {of(k[1]) : k \in KeySet}
      <4>1. PICK i \in 1 .. n : x \in ToSet(lists[i])
        OBVIOUS
      <4>2. x \in of(Keys[i][1]) /\ Keys[i] \in KeySet
        BY <2>2, <2>6, <4>1
      <4> QED
        BY <4>2
    <3>2. ASSUME NEW x \in UNION {of(k[1]) : k \in KeySet}
          PROVE  x \in UNION {ToSet(lists[i]) : i \in 1 .. n}
      <4>1. PICK i \in 1 .. n : x \in of(Keys[i][1])
        BY <2>2
      <4>2. PICK j \in 1 .. n : first(j) /\ Keys[j][1] = Keys[i][1]
        BY <2>9
      <4>3. x \in ToSet(lists[j])
        BY <2>6, <4>1, <4>2
      <4> QED
        BY <4>3
    <3> QED
      BY <3>1, <3>2
  <2> QED
    BY <2>3, <2>4, <2>8, <2>10
<1> QED
  BY <1>4, <1>5, <1>6, <1>7 DEF AllEngines

-----------------------------------------------------------------------------
(* Types. *)

Maps == {"columns", "view_columns", "pk", "auto", "indexes", "foreign_keys", "info"}
Fields == {"tables", "views"} \cup Maps

IsRaw(r) == DOMAIN r = Fields /\ \A f \in Maps : DOMAIN r[f] = KeySet

\* An index is asked about after its table was, on SQLite only, and which columns
\* are identities on SQL Server only.
WellAsked(q) ==
    /\ q.what = "auto" => engine = "sqlserver"
    /\ q.what \in {"index_list", "index_info"} => engine = "sqlite" /\ \E k \in KeySet : q.of = {k}
    /\ q.what = "index_info" =>
        \E c \in window : \E k \in KeySet : q.of = {k} /\ q.list \in c[k].indexes

\* The queries are questions about known names, and the rows are those of one
\* inspection, which are put together at its end.
IInv ==
    /\ catalog \in Catalogs
    /\ changes \in 0 .. MaxChanges
    /\ engine \in Engines
    /\ pc \in {"idle", "inspecting", "done", "failed"}
    /\ agenda \in Seq(Queries)
    /\ \A q \in ToSet(agenda) : WellAsked(q)
    /\ IsRaw(raw)
    /\ raw.tables \subseteq KeySet /\ raw.views \subseteq KeySet
    /\ window \subseteq Catalogs
    /\ pc = "inspecting" => catalog \in window
    /\ pc = "done" => window # {}
    /\ pc # "inspecting" => agenda = <<>>
    /\ pc = "idle" => raw = NoRows
    /\ pc = "done" => result = Assemble(engine, raw)

\* The next query and those after it.
LEMMA NextQuery ==
    ASSUME NEW S, NEW s \in Seq(S), s # <<>>
    PROVE  /\ Head(s) \in S /\ Tail(s) \in Seq(S)
           /\ ToSet(s) = {Head(s)} \cup ToSet(Tail(s))
<1>1. /\ Len(s) \in Nat \ {0} /\ DOMAIN s = 1 .. Len(s) /\ Head(s) = s[1] /\ Tail(s) \in Seq(S)
      /\ Head(s) \in S
      /\ DOMAIN Tail(s) = 1 .. Len(s) - 1 /\ \A i \in 1 .. Len(s) - 1 : Tail(s)[i] = s[i + 1]
  OBVIOUS
<1> DEFINE t == Tail(s)
           n == Len(s)
<1>2. \A i \in 1 .. n : i = 1 \/ (i - 1 \in 1 .. n - 1 /\ i = (i - 1) + 1)
  BY <1>1
<1>3. 1 \in 1 .. n /\ \A i \in 1 .. n - 1 : i + 1 \in 1 .. n
  BY <1>1
<1>4. ToSet(s) = {s[i] : i \in 1 .. n} /\ ToSet(t) = {t[i] : i \in 1 .. n - 1}
  BY <1>1 DEF ToSet
<1>5. \A i \in 1 .. n : i = 1 \/ (i - 1 \in 1 .. n - 1 /\ t[i - 1] = s[i])
  BY <1>1, <1>2
<1>6. \A i \in 1 .. n - 1 : t[i] = s[i + 1]
  BY <1>1
<1> HIDE DEF t, n
<1>7. ToSet(s) = {s[1]} \cup ToSet(t)
  BY <1>3, <1>4, <1>5, <1>6
<1> QED
  BY <1>1, <1>7 DEF t

\* What is asked next, of which keys.
LEMMA NextAsked ==
    ASSUME IInv, NEW what, Due(what)
    PROVE  /\ Head(agenda) \in Queries /\ Head(agenda).what = what /\ Asked \in SUBSET KeySet
           /\ WellAsked(Head(agenda))
           /\ Tail(agenda) \in Seq(Queries)
           /\ ToSet(agenda) = {Head(agenda)} \cup ToSet(Tail(agenda))
<1>1. agenda \in Seq(Queries) /\ agenda # <<>> /\ Head(agenda).what = what
  BY DEF IInv, Due
<1>2. /\ Head(agenda) \in Queries /\ Tail(agenda) \in Seq(Queries)
      /\ ToSet(agenda) = {Head(agenda)} \cup ToSet(Tail(agenda))
  BY <1>1, NextQuery
<1>3. WellAsked(Head(agenda))
  BY <1>2 DEF IInv
<1> QED
  BY <1>1, <1>2, <1>3, QueriesAsk DEF Asked

\* A query whose rows are collected in some of the maps.
Adds(fields) ==
    /\ IsRaw(raw')
    /\ \A f \in Fields \ fields : raw'[f] = raw[f]

\* What has been asked, and nothing else, is collected anew.
Anew(f, rows(_)) == \A k \in KeySet : raw'[f][k] = IF k \in Asked THEN rows(k) ELSE raw[f][k]

Put(r, f, m) == [r EXCEPT ![f] = m]

IsPut(s, r, f, m) == IsRaw(s) /\ s[f] = m /\ \A g \in Fields \ {f} : s[g] = r[g]

\* One field of the rows is replaced.
LEMMA PutIs ==
    ASSUME NEW r, IsRaw(r), NEW f \in Fields, NEW m, f \in Maps => DOMAIN m = KeySet
    PROVE  IsPut(Put(r, f, m), r, f, m)
<1> DEFINE s == Put(r, f, m)
<1>1. f \in DOMAIN r /\ DOMAIN s = DOMAIN r
  BY DEF IsRaw, Put
<1>2. s[f] = m /\ \A g \in Fields \ {f} : s[g] = r[g]
  BY <1>1 DEF IsRaw, Put
<1> HIDE DEF s
<1>3. \A g \in Maps : g = f \/ g \in Fields \ {f}
  BY DEF Fields
<1>4. IsRaw(s)
  BY <1>1, <1>2, <1>3 DEF IsRaw
<1> QED
  BY <1>2, <1>4 DEF s, IsPut

\* The queries that only collect rows in maps.
LEMMA RowsAreAdded ==
    ASSUME IInv
    PROVE  /\ ReadColumns => /\ Adds({"columns", "pk", "auto"})
                             /\ Anew("columns", LAMBDA k : Live(k).columns)
                             /\ Anew("pk", LAMBDA k : IF engine = "sqlite" THEN Live(k).primary ELSE {})
                             /\ Anew("auto", LAMBDA k : CASE engine = "sqlite" -> SqliteAuto(Live(k))
                                                          [] engine = "sqlserver" -> {}
                                                          [] OTHER -> Live(k).auto)
           /\ ReadViewColumns => /\ Adds({"view_columns"})
                                 /\ Anew("view_columns", LAMBDA k : Live(k).columns)
           /\ ReadIdentities => Adds({"auto"}) /\ Anew("auto", LAMBDA k : Live(k).auto)
           /\ ReadIndexes => Adds({"indexes"}) /\ Anew("indexes", LAMBDA k : RawIndexes(engine, Live(k)))
           /\ ReadForeignKeys =>
                /\ Adds({"foreign_keys"})
                /\ Anew("foreign_keys", LAMBDA k : {RawForeignKey(fk) : fk \in Live(k).foreign_keys})
           /\ ReadInfo => Adds({"info"}) /\ Anew("info", LAMBDA k : Live(k).info)
<1>1. IsRaw(raw)
  BY DEF IInv
<1>3. {"columns", "pk", "auto", "view_columns", "indexes", "foreign_keys", "info"} \subseteq Fields
  BY DEF Maps, Fields
<1>4. ASSUME ReadViewColumns
      PROVE  Adds({"view_columns"}) /\ Anew("view_columns", LAMBDA k : Live(k).columns)
  <2> DEFINE m == [k \in KeySet |-> IF k \in Asked THEN Live(k).columns ELSE raw.view_columns[k]]
  <2>1. raw' = Put(raw, "view_columns", m) /\ DOMAIN m = KeySet
    BY <1>4 DEF ReadViewColumns, Collect, Put
  <2> HIDE DEF m
  <2>2. IsPut(raw', raw, "view_columns", m)
    BY <1>1, <1>3, <2>1, PutIs
  <2> QED
    BY <2>2 DEF Adds, Anew, m, IsPut
<1>5. ASSUME ReadIdentities
      PROVE  Adds({"auto"}) /\ Anew("auto", LAMBDA k : Live(k).auto)
  <2> DEFINE m == [k \in KeySet |-> IF k \in Asked THEN Live(k).auto ELSE raw.auto[k]]
  <2>1. raw' = Put(raw, "auto", m) /\ DOMAIN m = KeySet
    BY <1>5 DEF ReadIdentities, Collect, Put
  <2> HIDE DEF m
  <2>2. IsPut(raw', raw, "auto", m)
    BY <1>1, <1>3, <2>1, PutIs
  <2> QED
    BY <2>2 DEF Adds, Anew, m, IsPut
<1>6. ASSUME ReadIndexes
      PROVE  Adds({"indexes"}) /\ Anew("indexes", LAMBDA k : RawIndexes(engine, Live(k)))
  <2> DEFINE m == [k \in KeySet |-> IF k \in Asked THEN RawIndexes(engine, Live(k)) ELSE raw.indexes[k]]
  <2>1. raw' = Put(raw, "indexes", m) /\ DOMAIN m = KeySet
    BY <1>6 DEF ReadIndexes, Collect, Put
  <2> HIDE DEF m
  <2>2. IsPut(raw', raw, "indexes", m)
    BY <1>1, <1>3, <2>1, PutIs
  <2> QED
    BY <2>2 DEF Adds, Anew, m, IsPut
<1>7. ASSUME ReadForeignKeys
      PROVE  Adds({"foreign_keys"}) /\ Anew("foreign_keys", LAMBDA k : {RawForeignKey(fk) : fk \in Live(k).foreign_keys})
  <2> DEFINE m == [k \in KeySet |-> IF k \in Asked THEN {RawForeignKey(fk) : fk \in Live(k).foreign_keys} ELSE raw.foreign_keys[k]]
  <2>1. raw' = Put(raw, "foreign_keys", m) /\ DOMAIN m = KeySet
    BY <1>7 DEF ReadForeignKeys, Collect, Put
  <2> HIDE DEF m
  <2>2. IsPut(raw', raw, "foreign_keys", m)
    BY <1>1, <1>3, <2>1, PutIs
  <2> QED
    BY <2>2 DEF Adds, Anew, m, IsPut
<1>8. ASSUME ReadInfo
      PROVE  Adds({"info"}) /\ Anew("info", LAMBDA k : Live(k).info)
  <2> DEFINE m == [k \in KeySet |-> IF k \in Asked THEN Live(k).info ELSE raw.info[k]]
  <2>1. raw' = Put(raw, "info", m) /\ DOMAIN m = KeySet
    BY <1>8 DEF ReadInfo, Collect, Put
  <2> HIDE DEF m
  <2>2. IsPut(raw', raw, "info", m)
    BY <1>1, <1>3, <2>1, PutIs
  <2> QED
    BY <2>2 DEF Adds, Anew, m, IsPut
<1>9. ASSUME ReadColumns
      PROVE  /\ Adds({"columns", "pk", "auto"})
             /\ Anew("columns", LAMBDA k : Live(k).columns)
             /\ Anew("pk", LAMBDA k : IF engine = "sqlite" THEN Live(k).primary ELSE {})
             /\ Anew("auto", LAMBDA k : CASE engine = "sqlite" -> SqliteAuto(Live(k))
                                          [] engine = "sqlserver" -> {}
                                          [] OTHER -> Live(k).auto)
  <2> DEFINE columns == [k \in KeySet |-> IF k \in Asked THEN Live(k).columns ELSE raw.columns[k]]
             pk == [k \in KeySet |-> IF k \in Asked
                                     THEN IF engine = "sqlite" THEN Live(k).primary ELSE {}
                                     ELSE raw.pk[k]]
             auto == [k \in KeySet |-> IF k \in Asked
                                       THEN CASE engine = "sqlite" -> SqliteAuto(Live(k))
                                              [] engine = "sqlserver" -> {}
                                              [] OTHER -> Live(k).auto
                                       ELSE raw.auto[k]]
  <2>1. raw' = [raw EXCEPT !.columns = columns, !.pk = pk, !.auto = auto]
    BY <1>9 DEF ReadColumns, Collect
  <2>2. DOMAIN columns = KeySet /\ DOMAIN pk = KeySet /\ DOMAIN auto = KeySet
    OBVIOUS
  <2> HIDE DEF columns, pk, auto
  <2> DEFINE r1 == Put(raw, "columns", columns)
             r2 == Put(r1, "pk", pk)
             r3 == Put(r2, "auto", auto)
  <2>3. raw' = r3
    BY <2>1 DEF Put
  <2>4. IsPut(r1, raw, "columns", columns)
    BY <1>1, <1>3, <2>2, PutIs
  <2>5. IsPut(r2, r1, "pk", pk)
    <3>1. IsRaw(r1)
      BY <2>4 DEF IsPut
    <3> HIDE DEF r1
    <3> QED
      BY <1>3, <2>2, <3>1, PutIs
  <2>6. IsPut(r3, r2, "auto", auto)
    <3>1. IsRaw(r2)
      BY <2>5 DEF IsPut
    <3> HIDE DEF r2
    <3> QED
      BY <1>3, <2>2, <3>1, PutIs
  <2> HIDE DEF r1, r2, r3
  <2>7. /\ IsRaw(raw') /\ raw'["columns"] = columns /\ raw'["pk"] = pk /\ raw'["auto"] = auto
        /\ \A f \in Fields \ {"columns", "pk", "auto"} : raw'[f] = raw[f]
    <3>1. {"columns", "pk", "auto"} \subseteq Fields
      BY DEF Fields, Maps
    <3> QED
      BY <2>3, <2>4, <2>5, <2>6, <3>1 DEF IsPut
  <2>8. Adds({"columns", "pk", "auto"})
    BY <2>7 DEF Adds
  <2>9. /\ Anew("columns", LAMBDA k : Live(k).columns)
        /\ Anew("pk", LAMBDA k : IF engine = "sqlite" THEN Live(k).primary ELSE {})
    BY <2>7 DEF Anew, columns, pk
  <2>10. Anew("auto", LAMBDA k : CASE engine = "sqlite" -> SqliteAuto(Live(k))
                                   [] engine = "sqlserver" -> {}
                                   [] OTHER -> Live(k).auto)
    BY <2>7 DEF Anew, auto
  <2> QED
    BY <2>8, <2>9, <2>10
<1> QED
  BY <1>4, <1>5, <1>6, <1>7, <1>8, <1>9

\* The questions a list of tables leads to.
Following(listed) ==
    IF engine = "sqlite" THEN AllAsked({"columns", "index_list", "foreign_keys"}, listed)
    ELSE IF engine = "mysql" THEN AllAsked({"info"}, listed) ELSE {}

\* Known keys may be asked about.
LEMMA KeysAreAsked ==
    ASSUME NEW W \in SUBSET Wanted, NEW listed \in SUBSET KeySet
    PROVE  AllAsked(W, listed) \subseteq Queries
<1>1. \A w \in W, k \in listed : Ask(w, {k}) \in Queries
  BY QueriesAsk
<1>2. ASSUME NEW x \in AllAsked(W, listed) PROVE x \in Queries
  <2>1. PICK k \in listed : x \in {Ask(w, {k}) : w \in W}
    BY DEF AllAsked
  <2> QED
    BY <1>1, <2>1
<1> QED
  BY <1>2

\* The list of tables: who is listed, and what is asked of them.
LEMMA TablesAreListed ==
    ASSUME IInv, ListTables
    PROVE  LET listed == {k \in Asked : Live(k).kind = "table"}
           IN  /\ Due("tables") /\ UNCHANGED <<catalog, changes, engine, pc, window, result>>
               /\ Adds({"tables", "info"})
               /\ raw'.tables = raw.tables \cup listed
               /\ \A k \in KeySet : raw'.info[k] =
                    IF engine = "sqlite" /\ k \in listed THEN Live(k).info ELSE raw.info[k]
               /\ agenda' \in Seq(Queries)
               /\ ToSet(agenda') = ToSet(Tail(agenda)) \cup Following(listed)
<1> DEFINE listed == {k \in Asked : Live(k).kind = "table"}
           info == [k \in KeySet |-> IF engine = "sqlite" /\ k \in listed THEN Live(k).info ELSE raw.info[k]]
           three == <<"columns", "index_list", "foreign_keys">>
           one == <<"info">>
<1>1. Due("tables") /\ UNCHANGED <<catalog, changes, engine, pc, window, result>>
  BY DEF ListTables, Send
<1>2. raw' = [raw EXCEPT !.tables = raw.tables \cup listed, !.info = info]
  BY DEF ListTables
<1>3. agenda' = CASE engine = "sqlite" -> AskEach(three, Ordered(listed)) \o Tail(agenda)
                  [] engine = "mysql" -> Tail(agenda) \o AskEach(one, Ordered(listed))
                  [] OTHER -> Tail(agenda)
  BY DEF ListTables, Send
<1>4. listed \in SUBSET KeySet /\ Tail(agenda) \in Seq(Queries)
  BY <1>1, NextAsked
<1>5. /\ three \in Seq(Wanted) /\ ToSet(three) = {"columns", "index_list", "foreign_keys"}
      /\ one \in Seq(Wanted) /\ ToSet(one) = {"info"}
  BY DEF Wanted, ToSet
<1>6. DOMAIN info = KeySet
  OBVIOUS
<1> HIDE DEF listed, info, three, one
<1>7. Ordered(listed) \in Seq(KeySet) /\ ToSet(Ordered(listed)) = listed
  BY <1>4, OrderedIs
<1>8. ASSUME NEW whats \in Seq(Wanted)
      PROVE  /\ AskEach(whats, Ordered(listed)) \in Seq(Queries)
             /\ ToSet(AskEach(whats, Ordered(listed))) = AllAsked(ToSet(whats), listed)
  <2> DEFINE A == AllAsked(ToSet(whats), listed)
  <2>1. AskEach(whats, Ordered(listed)) \in Seq(A) /\ ToSet(AskEach(whats, Ordered(listed))) = A
    BY <1>7, AskedOfEach
  <2>2. ToSet(whats) \in SUBSET Wanted
    BY DEF ToSet
  <2>3. A \subseteq Queries
    BY <1>4, <2>2, KeysAreAsked
  <2> HIDE DEF A
  <2>4. AskEach(whats, Ordered(listed)) \in Seq(Queries)
    BY <2>1, <2>3
  <2> QED
    BY <2>1, <2>4 DEF A
<1>9. agenda' \in Seq(Queries) /\ ToSet(agenda') = ToSet(Tail(agenda)) \cup Following(listed)
  <2>1. CASE engine = "sqlite"
    <3>1. agenda' = AskEach(three, Ordered(listed)) \o Tail(agenda)
      BY <1>3, <2>1
    <3>2. Following(listed) = AllAsked(ToSet(three), listed)
      BY <1>5, <2>1 DEF Following
    <3> DEFINE asked == AskEach(three, Ordered(listed))
               rest == Tail(agenda)
    <3>3. asked \in Seq(Queries) /\ ToSet(asked) = Following(listed)
      BY <1>5, <1>8, <3>2
    <3>4. agenda' = asked \o rest /\ rest \in Seq(Queries)
      BY <1>4, <3>1
    <3> HIDE DEF asked, rest
    <3>5. agenda' \in Seq(Queries) /\ ToSet(agenda') = ToSet(rest) \cup Following(listed)
      BY <3>3, <3>4, Concatenated
    <3> QED
      BY <3>5 DEF rest
  <2>2. CASE engine = "mysql"
    <3>1. agenda' = Tail(agenda) \o AskEach(one, Ordered(listed))
      BY <1>3, <2>2
    <3>2. Following(listed) = AllAsked(ToSet(one), listed)
      BY <1>5, <2>2 DEF Following
    <3> DEFINE asked == AskEach(one, Ordered(listed))
               rest == Tail(agenda)
    <3>3. asked \in Seq(Queries) /\ ToSet(asked) = Following(listed)
      BY <1>5, <1>8, <3>2
    <3>4. agenda' = rest \o asked /\ rest \in Seq(Queries)
      BY <1>4, <3>1
    <3> HIDE DEF asked, rest
    <3>5. agenda' \in Seq(Queries) /\ ToSet(agenda') = ToSet(rest) \cup Following(listed)
      BY <3>3, <3>4, Concatenated
    <3> QED
      BY <3>5 DEF rest
  <2>3. CASE engine \notin {"sqlite", "mysql"}
    <3>1. agenda' = Tail(agenda) /\ Following(listed) = {}
      BY <1>3, <2>3 DEF Following
    <3> QED
      BY <1>4, <3>1
  <2> QED
    BY <2>1, <2>2, <2>3
<1>10. /\ Adds({"tables", "info"}) /\ raw'.tables = raw.tables \cup listed
       /\ raw'.info = info
  <2> DEFINE r1 == Put(raw, "tables", raw.tables \cup listed)
             r2 == Put(r1, "info", info)
  <2>1. {"tables", "info"} \subseteq Fields /\ "tables" \notin Maps
    BY DEF Fields, Maps
  <2>2. raw' = r2
    BY <1>2 DEF Put
  <2>3. IsPut(r1, raw, "tables", raw.tables \cup listed)
    BY <2>1, PutIs DEF IInv
  <2>4. IsPut(r2, r1, "info", info)
    <3>1. IsRaw(r1)
      BY <2>3 DEF IsPut
    <3> HIDE DEF r1
    <3> QED
      BY <1>6, <2>1, <3>1, PutIs
  <2> HIDE DEF r1, r2
  <2>5. /\ IsRaw(raw') /\ raw'["tables"] = raw.tables \cup listed /\ raw'["info"] = info
        /\ \A f \in Fields \ {"tables", "info"} : raw'[f] = raw[f]
    BY <2>1, <2>2, <2>3, <2>4 DEF IsPut
  <2> QED
    BY <2>5 DEF Adds
<1> QED
  BY <1>1, <1>9, <1>10 DEF info, listed

\* The list of views.
LEMMA ViewsAreListed ==
    ASSUME IInv, ListViews
    PROVE  LET listed == {k \in Asked : Live(k).kind = "view"}
           IN  /\ Due("views") /\ UNCHANGED <<catalog, changes, engine, pc, window, result>>
               /\ Adds({"views"})
               /\ raw'.views = raw.views \cup listed
               /\ agenda' \in Seq(Queries)
               /\ ToSet(agenda') = ToSet(Tail(agenda)) \cup
                    (IF engine = "sqlite" THEN AllAsked({"view_columns"}, listed) ELSE {})
<1> DEFINE listed == {k \in Asked : Live(k).kind = "view"}
           one == <<"view_columns">>
<1>1. Due("views") /\ UNCHANGED <<catalog, changes, engine, pc, window, result>>
  BY DEF ListViews, Send
<1>2. raw' = [raw EXCEPT !.views = raw.views \cup listed]
  BY DEF ListViews
<1>3. agenda' = IF engine = "sqlite" THEN AskEach(one, Ordered(listed)) \o Tail(agenda) ELSE Tail(agenda)
  BY DEF ListViews, Send
<1>4. listed \in SUBSET KeySet /\ Tail(agenda) \in Seq(Queries)
  BY <1>1, NextAsked
<1>5. one \in Seq(Wanted) /\ ToSet(one) = {"view_columns"}
  BY DEF Wanted, ToSet
<1> HIDE DEF listed, one
<1>6. Ordered(listed) \in Seq(KeySet) /\ ToSet(Ordered(listed)) = listed
  BY <1>4, OrderedIs
<1>7. /\ AskEach(one, Ordered(listed)) \in Seq(Queries)
      /\ ToSet(AskEach(one, Ordered(listed))) = AllAsked({"view_columns"}, listed)
  <2> DEFINE A == AllAsked({"view_columns"}, listed)
  <2>1. AskEach(one, Ordered(listed)) \in Seq(A) /\ ToSet(AskEach(one, Ordered(listed))) = A
    BY <1>5, <1>6, AskedOfEach
  <2>2. A \subseteq Queries
    BY <1>4, KeysAreAsked DEF Wanted
  <2> HIDE DEF A
  <2>3. AskEach(one, Ordered(listed)) \in Seq(Queries)
    BY <2>1, <2>2
  <2> QED
    BY <2>1, <2>3 DEF A
<1>8. /\ agenda' \in Seq(Queries)
      /\ ToSet(agenda') = ToSet(Tail(agenda)) \cup
            (IF engine = "sqlite" THEN AllAsked({"view_columns"}, listed) ELSE {})
  <2>1. CASE engine = "sqlite"
    <3> DEFINE asked == AskEach(one, Ordered(listed))
               rest == Tail(agenda)
    <3>1. agenda' = asked \o rest /\ rest \in Seq(Queries) /\ asked \in Seq(Queries)
      BY <1>3, <1>4, <1>7, <2>1
    <3>2. ToSet(asked) = AllAsked({"view_columns"}, listed)
      BY <1>7
    <3> HIDE DEF asked, rest
    <3>3. agenda' \in Seq(Queries) /\ ToSet(agenda') = ToSet(rest) \cup ToSet(asked)
      BY <3>1, Concatenated
    <3> QED
      BY <2>1, <3>2, <3>3 DEF rest
  <2>2. CASE engine # "sqlite"
    BY <1>3, <1>4, <2>2
  <2> QED
    BY <2>1, <2>2
<1>9. Adds({"views"}) /\ raw'.views = raw.views \cup listed
  <2>1. "views" \in Fields /\ "views" \notin Maps
    BY DEF Fields, Maps
  <2>2. raw' = Put(raw, "views", raw.views \cup listed)
    BY <1>2 DEF Put
  <2>3. IsPut(raw', raw, "views", raw.views \cup listed)
    BY <2>1, <2>2, PutIs DEF IInv
  <2> QED
    BY <2>3 DEF Adds, IsPut
<1> QED
  BY <1>1, <1>8, <1>9 DEF listed

\* PRAGMA index_list: each index it names is asked about.
LEMMA IndexesAreListed ==
    ASSUME IInv, ListIndexes
    PROVE  LET listed == UNION {Live(k).indexes : k \in Asked}
           IN  /\ Due("index_list") /\ UNCHANGED <<catalog, changes, engine, pc, window, result, raw>>
               /\ agenda' \in Seq(Queries)
               /\ ToSet(agenda') = {AskInfo(Asked, i) : i \in listed} \cup ToSet(Tail(agenda))
<1> DEFINE listed == UNION {Live(k).indexes : k \in Asked}
           Asking(order) == [i \in DOMAIN order |-> AskInfo(Asked, order[i])]
           rest == Tail(agenda)
<1>1. Due("index_list") /\ UNCHANGED <<catalog, changes, engine, pc, window, result, raw>>
  BY DEF ListIndexes, Send
<1>2. PICK order \in SetToSeqs(listed) : agenda' = Asking(order) \o rest
  BY DEF ListIndexes, Send, AskInfo
<1>3. DOMAIN order \in {1 .. n : n \in Nat} /\ ToSet(order) = listed /\ order \in Seq(listed)
  <2> DEFINE n == Cardinality(listed)
  <2>1. order \in [1 .. n -> listed] /\ \A i, j \in 1 .. n : i # j => order[i] # order[j]
    BY <1>2 DEF SetToSeqs
  <2>2. IsFiniteSet(listed)
    <3>1. PICK k \in KeySet : Asked = {k}
      BY <1>1, NextAsked DEF WellAsked, Asked
    <3>2. listed = catalog[k].indexes
      BY <3>1 DEF Live
    <3> QED
      BY <3>2, IndexesAssumption DEF IInv
  <2> HIDE DEF listed
  <2>3. n \in Nat
    BY <2>2, FS_CardinalityType
  <2>4. order \in Injection(1 .. n, listed)
    BY <2>1 DEF Injection, IsInjective
  <2>5. IsFiniteSet(1 .. n) /\ Cardinality(1 .. n) = n
    BY <2>3, FS_Interval
  <2>6. order \in Surjection(1 .. n, listed)
    BY <2>2, <2>4, <2>5, FS_Injection
  <2>7. \A x \in listed : \E i \in 1 .. n : order[i] = x
    BY <2>6 DEF Surjection
  <2> HIDE DEF n
  <2> QED
    BY <2>1, <2>3, <2>7 DEF ToSet
<1>4. Asked \in SUBSET KeySet /\ rest \in Seq(Queries) /\ listed \subseteq Listings
  <2>1. Asked \in SUBSET KeySet /\ rest \in Seq(Queries) /\ catalog \in Catalogs
    BY <1>1, NextAsked DEF IInv
  <2> QED
    BY <2>1 DEF Listings, Live
<1> HIDE DEF listed, rest
<1>5. Asking(order) \in Seq(Queries) /\ ToSet(Asking(order)) = {AskInfo(Asked, i) : i \in listed}
  <2>1. PICK n \in Nat : DOMAIN order = 1 .. n
    BY <1>3
  <2>2. \A i \in 1 .. n : order[i] \in listed
    BY <1>3, <2>1 DEF ToSet
  <2>3. \A i \in listed : \E j \in 1 .. n : i = order[j]
    BY <1>3, <2>1 DEF ToSet
  <2>4. \A i \in listed : AskInfo(Asked, i) \in Queries
    BY <1>4, QueriesAsk
  <2> DEFINE asking == Asking(order)
  <2>5. asking = [i \in 1 .. n |-> AskInfo(Asked, order[i])]
    BY <2>1
  <2>6. asking \in [1 .. n -> Queries]
    BY <2>2, <2>4, <2>5
  <2>7. DOMAIN asking = 1 .. n /\ \A i \in 1 .. n : asking[i] = AskInfo(Asked, order[i])
    BY <2>5
  <2> HIDE DEF asking
  <2>8. asking \in Seq(Queries)
    BY <2>6
  <2>9. ToSet(asking) = {AskInfo(Asked, i) : i \in listed}
    BY <2>2, <2>3, <2>7 DEF ToSet
  <2> QED
    BY <2>8, <2>9 DEF asking
<1> DEFINE asking == Asking(order)
<1> HIDE DEF asking
<1>6. agenda' \in Seq(Queries) /\ ToSet(agenda') = {AskInfo(Asked, i) : i \in listed} \cup ToSet(rest)
  <2>1. asking \in Seq(Queries) /\ agenda' = asking \o rest
    BY <1>2, <1>5 DEF asking
  <2>2. agenda' \in Seq(Queries) /\ ToSet(agenda') = ToSet(asking) \cup ToSet(rest)
    BY <1>4, <2>1, Concatenated
  <2> QED
    BY <1>5, <2>2 DEF asking
<1> QED
  BY <1>1, <1>6 DEF listed, rest

\* What PRAGMA index_info finds under the name of an index: its columns, as an
\* index of some table of the schema has them now.
Found(k, i) ==
    LET listed == RawIndex(engine, i)
    IN  {[listed EXCEPT !.columns = j.columns] :
            j \in {x \in UNION {RawIndexes(engine, Live(n)) : n \in InSchema(k[1])} :
                    x.name = listed.name}}

\* PRAGMA index_info: what it found is added to the indexes of the table.
LEMMA IndexIsRead ==
    ASSUME IInv, ReadIndexInfo
    PROVE  /\ Adds({"indexes"})
           /\ \E k \in KeySet :
                /\ Asked = {k}
                /\ Anew("indexes", LAMBDA n : raw.indexes[n] \cup Found(k, Head(agenda).list))
<1> DEFINE listed == RawIndex(engine, Head(agenda).list)
           now == {i \in UNION {RawIndexes(engine, Live(j)) :
                                j \in UNION {InSchema(k[1]) : k \in Asked}} : i.name = listed.name}
           found == {[listed EXCEPT !.columns = i.columns] : i \in now}
           m == [k \in KeySet |-> IF k \in Asked THEN raw.indexes[k] \cup found ELSE raw.indexes[k]]
<1>1. Due("index_info")
  BY DEF ReadIndexInfo, Send
<1>2. PICK k \in KeySet : Asked = {k}
  BY <1>1, NextAsked DEF WellAsked, Asked
<1>3. found = Found(k, Head(agenda).list)
  <2>1. UNION {InSchema(n[1]) : n \in Asked} = InSchema(k[1])
    BY <1>2
  <2> QED
    BY <2>1 DEF Found
<1>4. raw' = Put(raw, "indexes", m) /\ DOMAIN m = KeySet
  BY DEF ReadIndexInfo, Collect, Put
<1> HIDE DEF m
<1>5. IsPut(raw', raw, "indexes", m)
  <2>1. IsRaw(raw) /\ "indexes" \in Fields
    BY DEF IInv, Fields, Maps
  <2> QED
    BY <1>4, <2>1, PutIs
<1> HIDE DEF found
<1>6. Anew("indexes", LAMBDA n : raw.indexes[n] \cup Found(k, Head(agenda).list))
  BY <1>3, <1>5 DEF IsPut, m, Anew
<1> QED
  BY <1>2, <1>5, <1>6 DEF IsPut, Adds

\* A query stays well asked while the inspection goes on.
LEMMA StillWellAsked ==
    ASSUME engine' = engine, window \subseteq window', NEW q, WellAsked(q)
    PROVE  WellAsked(q)'
BY DEF WellAsked

\* Reading rows preserves the invariant.
LEMMA ReadingKeeps ==
    ASSUME IInv, NEW what, Due(what), UNCHANGED <<catalog, changes, engine, pc, window, result>>,
           agenda' \in Seq(Queries),
           \A q \in ToSet(agenda') : q \in ToSet(Tail(agenda)) \/ WellAsked(q)',
           IsRaw(raw'), raw'.tables \subseteq KeySet, raw'.views \subseteq KeySet
    PROVE  IInv'
<1>1. pc = "inspecting"
  BY DEF Due
<1>2. ASSUME NEW q \in ToSet(agenda') PROVE WellAsked(q)'
  <2>1. CASE q \in ToSet(Tail(agenda))
    <3>1. q \in ToSet(agenda)
      BY <2>1, NextAsked
    <3>2. WellAsked(q)
      BY <3>1 DEF IInv
    <3> QED
      BY <3>2, StillWellAsked
  <2> QED
    BY <1>2, <2>1
<1> QED
  BY <1>1, <1>2 DEF IInv

\* The queries whose only effect is on the maps.
LEMMA AddingKeeps ==
    ASSUME IInv, NEW what, Send(what, Tail(agenda)), NEW fields \in SUBSET Maps, Adds(fields)
    PROVE  IInv'
<1>1. Due(what) /\ agenda' = Tail(agenda) /\ UNCHANGED <<catalog, changes, engine, pc, window, result>>
  BY DEF Send
<1>2. agenda' \in Seq(Queries)
  BY <1>1, NextAsked
<1>3. raw'["tables"] = raw["tables"] /\ raw'["views"] = raw["views"]
  BY DEF Adds, Fields, Maps
<1>4. IsRaw(raw')
  BY DEF Adds
<1>5. raw'.tables \subseteq KeySet /\ raw'.views \subseteq KeySet
  BY <1>3 DEF IInv
<1> QED
  BY <1>1, <1>2, <1>4, <1>5, ReadingKeeps

\* The invariant holds from the start.
THEOREM InspectionInvariant == Spec => []IInv
<1>1. Init => IInv
  <2> SUFFICES ASSUME Init PROVE IInv
    OBVIOUS
  <2>1. IsRaw(NoRows)
    BY DEF IsRaw, NoRows, Fields, Maps
  <2>2. NoRows.tables \subseteq KeySet /\ NoRows.views \subseteq KeySet
    BY DEF NoRows
  <2>3. agenda \in Seq(Queries) /\ ToSet(agenda) = {} /\ agenda = <<>>
    BY DEF Init, ToSet
  <2> QED
    BY <2>1, <2>2, <2>3, MaxChangesAssumption DEF Init, IInv
<1>2. IInv /\ [Next]_vars => IInv'
  <2> SUFFICES ASSUME IInv, [Next]_vars PROVE IInv'
    OBVIOUS
  <2>1. ASSUME Migrate PROVE IInv'
    <3>1. /\ catalog' \in Catalogs /\ changes' \in 0 .. MaxChanges
          /\ UNCHANGED <<engine, pc, agenda, raw, result>>
      BY <2>1, MaxChangesAssumption DEF Migrate, IInv, collected
    <3>2. /\ window \subseteq window' /\ window' \subseteq Catalogs
          /\ pc = "inspecting" => catalog' \in window'
      BY <2>1 DEF Migrate, IInv
    <3>3. \A q \in ToSet(agenda) : WellAsked(q)'
      BY <3>1, <3>2, StillWellAsked DEF IInv
    <3> QED
      BY <3>1, <3>2, <3>3 DEF IInv
  <2>2. ASSUME Begin PROVE IInv'
    <3>1. agenda' \in Seq(Queries) /\ ToSet(agenda') = FirstQueries(engine)
      BY <2>2, AgendaIs, EnginesAssumption DEF Begin, IInv
    <3>2. \A q \in FirstQueries(engine) : /\ q.what \notin {"index_list", "index_info"}
                                          /\ q.what = "auto" => engine = "sqlserver"
      <4>1. \A w \in FirstAsked(engine) : /\ w \notin {"index_list", "index_info"}
                                          /\ w = "auto" => engine = "sqlserver"
        BY EnginesAssumption DEF FirstAsked, IInv, AllEngines
      <4> QED
        BY <4>1 DEF FirstQueries, Ask
    <3>3. \A q \in ToSet(agenda') : WellAsked(q)'
      BY <2>2, <3>1, <3>2 DEF WellAsked, Begin
    <3> QED
      BY <2>2, <3>1, <3>3 DEF IInv, Begin
  <2>3. ASSUME ListTables PROVE IInv'
    <3> DEFINE listed == {k \in Asked : Live(k).kind = "table"}
    <3>1. /\ Due("tables") /\ UNCHANGED <<catalog, changes, engine, pc, window, result>>
          /\ Adds({"tables", "info"}) /\ raw'.tables = raw.tables \cup listed
          /\ agenda' \in Seq(Queries)
          /\ ToSet(agenda') = ToSet(Tail(agenda)) \cup Following(listed)
      BY <2>3, TablesAreListed
    <3>2. listed \subseteq KeySet
      BY <3>1, NextAsked
    <3> HIDE DEF listed
    <3>3. ASSUME NEW q \in Following(listed) PROVE WellAsked(q)'
      <4>1. CASE engine = "sqlite"
        <5>1. PICK k \in listed : \E w \in {"columns", "index_list", "foreign_keys"} : q = Ask(w, {k})
          BY <3>3, <4>1 DEF Following, AllAsked
        <5> QED
          BY <3>1, <3>2, <4>1, <5>1 DEF WellAsked, Ask
      <4>2. CASE engine # "sqlite"
        <5>1. q.what = "info"
          BY <3>3, <4>2 DEF Following, AllAsked, Ask
        <5> QED
          BY <5>1 DEF WellAsked
      <4> QED
        BY <4>1, <4>2
    <3>4. raw'["views"] = raw["views"] /\ IsRaw(raw')
      BY <3>1 DEF Adds, Fields
    <3>5. raw'.tables \subseteq KeySet /\ raw'.views \subseteq KeySet
      BY <3>1, <3>2, <3>4 DEF IInv
    <3>6. \A q \in ToSet(agenda') : q \in ToSet(Tail(agenda)) \/ WellAsked(q)'
      BY <3>1, <3>3
    <3> QED
      BY <3>1, <3>4, <3>5, <3>6, ReadingKeeps
  <2>4. ASSUME ListViews PROVE IInv'
    <3> DEFINE listed == {k \in Asked : Live(k).kind = "view"}
    <3>1. /\ Due("views") /\ UNCHANGED <<catalog, changes, engine, pc, window, result>>
          /\ Adds({"views"}) /\ raw'.views = raw.views \cup listed
          /\ agenda' \in Seq(Queries)
          /\ ToSet(agenda') = ToSet(Tail(agenda)) \cup
                (IF engine = "sqlite" THEN AllAsked({"view_columns"}, listed) ELSE {})
      BY <2>4, ViewsAreListed
    <3>2. listed \subseteq KeySet
      BY <3>1, NextAsked
    <3> HIDE DEF listed
    <3>3. \A q \in AllAsked({"view_columns"}, listed) : WellAsked(q)'
      BY DEF AllAsked, Ask, WellAsked
    <3>4. raw'["tables"] = raw["tables"] /\ IsRaw(raw')
      BY <3>1 DEF Adds, Fields
    <3>5. raw'.tables \subseteq KeySet /\ raw'.views \subseteq KeySet
      BY <3>1, <3>2, <3>4 DEF IInv
    <3>6. \A q \in ToSet(agenda') : q \in ToSet(Tail(agenda)) \/ WellAsked(q)'
      BY <3>1, <3>3
    <3> QED
      BY <3>1, <3>4, <3>5, <3>6, ReadingKeeps
  <2>5. ASSUME ReadColumns PROVE IInv'
    <3>1. Send("columns", Tail(agenda)) /\ Adds({"columns", "pk", "auto"})
      BY <2>5, RowsAreAdded DEF ReadColumns
    <3> QED
      BY <3>1, AddingKeeps DEF Maps
  <2>6. ASSUME ReadViewColumns PROVE IInv'
    <3>1. Send("view_columns", Tail(agenda)) /\ Adds({"view_columns"})
      BY <2>6, RowsAreAdded DEF ReadViewColumns
    <3> QED
      BY <3>1, AddingKeeps DEF Maps
  <2>7. ASSUME ReadIdentities PROVE IInv'
    <3>1. Send("auto", Tail(agenda)) /\ Adds({"auto"})
      BY <2>7, RowsAreAdded DEF ReadIdentities
    <3> QED
      BY <3>1, AddingKeeps DEF Maps
  <2>8. ASSUME ReadIndexes PROVE IInv'
    <3>1. Send("indexes", Tail(agenda)) /\ Adds({"indexes"})
      BY <2>8, RowsAreAdded DEF ReadIndexes
    <3> QED
      BY <3>1, AddingKeeps DEF Maps
  <2>9. ASSUME ListIndexes PROVE IInv'
    <3> DEFINE listed == UNION {Live(k).indexes : k \in Asked}
    <3>1. /\ Due("index_list") /\ UNCHANGED <<catalog, changes, engine, pc, window, result, raw>>
          /\ agenda' \in Seq(Queries)
          /\ ToSet(agenda') = {AskInfo(Asked, i) : i \in listed} \cup ToSet(Tail(agenda))
      BY <2>9, IndexesAreListed
    <3>2. PICK k \in KeySet : Head(agenda).of = {k} /\ engine = "sqlite"
      BY <3>1, NextAsked DEF WellAsked
    <3>3. ASSUME NEW q \in {AskInfo(Asked, i) : i \in listed} PROVE WellAsked(q)'
      <4>1. PICK i \in listed : q = AskInfo(Asked, i)
        OBVIOUS
      <4>2. i \in catalog[k].indexes /\ Asked = {k}
        BY <3>2 DEF Live, Asked
      <4>3. catalog \in window
        BY <3>1 DEF IInv, Due
      <4>4. q.what = "index_info" /\ q.of = {k} /\ q.list = i
        BY <4>1, <4>2 DEF AskInfo
      <4> QED
        BY <3>1, <3>2, <4>2, <4>3, <4>4 DEF WellAsked
    <3>6. \A q \in ToSet(agenda') : q \in ToSet(Tail(agenda)) \/ WellAsked(q)'
      BY <3>1, <3>3
    <3>7. IsRaw(raw') /\ raw'.tables \subseteq KeySet /\ raw'.views \subseteq KeySet
      BY <3>1 DEF IInv
    <3> HIDE DEF listed
    <3> QED
      BY <3>1, <3>6, <3>7, ReadingKeeps
  <2>10. ASSUME ReadIndexInfo PROVE IInv'
    <3>1. Send("index_info", Tail(agenda)) /\ Adds({"indexes"})
      BY <2>10, IndexIsRead DEF ReadIndexInfo
    <3> QED
      BY <3>1, AddingKeeps DEF Maps
  <2>11. ASSUME ReadForeignKeys PROVE IInv'
    <3>1. Send("foreign_keys", Tail(agenda)) /\ Adds({"foreign_keys"})
      BY <2>11, RowsAreAdded DEF ReadForeignKeys
    <3> QED
      BY <3>1, AddingKeeps DEF Maps
  <2>12. ASSUME ReadInfo PROVE IInv'
    <3>1. Send("info", Tail(agenda)) /\ Adds({"info"})
      BY <2>12, RowsAreAdded DEF ReadInfo
    <3> QED
      BY <3>1, AddingKeeps DEF Maps
  <2>13. ASSUME Return PROVE IInv'
    BY <2>13 DEF Return, IInv, WellAsked
  <2>14. ASSUME Fail PROVE IInv'
    <3>1. IsRaw(NoRows) /\ NoRows.tables \subseteq KeySet /\ NoRows.views \subseteq KeySet
      BY DEF IsRaw, NoRows, Fields, Maps
    <3>2. agenda' \in Seq(Queries) /\ ToSet(agenda') = {} /\ agenda' = <<>>
      BY <2>14 DEF Fail, ToSet
    <3> QED
      BY <2>14, <3>1, <3>2 DEF Fail, IInv
  <2>15. ASSUME UNCHANGED vars PROVE IInv'
    BY <2>15 DEF vars, collected, IInv, WellAsked
  <2> QED
    BY <2>1, <2>2, <2>3, <2>4, <2>5, <2>6, <2>7, <2>8, <2>9, <2>10, <2>11, <2>12, <2>13,
       <2>14, <2>15 DEF Next
<1> QED
  BY <1>1, <1>2, PTL DEF Spec

\* What TypeOK says of an inspection follows from the invariant.
THEOREM IntrospectionTypes == Spec => []TypeOK
<1>1. IInv => TypeOK
  <2> SUFFICES ASSUME IInv PROVE TypeOK
    OBVIOUS
  <2>1. \A i \in DOMAIN agenda : agenda[i] \in Queries
    BY DEF IInv
  <2>2. \A i \in DOMAIN agenda : agenda[i].what \in Wanted /\ agenda[i].of \subseteq KeySet
    BY <2>1, QueriesAsk
  <2>3. DOMAIN raw["columns"] = KeySet /\ DOMAIN raw["indexes"] = KeySet
    BY DEF IInv, IsRaw, Maps
  <2>4. DOMAIN raw.columns = KeySet /\ DOMAIN raw.indexes = KeySet
    BY <2>3
  <2> QED
    BY <2>2, <2>4 DEF IInv, TypeOK
<1> QED
  BY <1>1, InspectionInvariant, PTL

-----------------------------------------------------------------------------
(* The rows. *)

\* The objects a name meant in some catalogs.
Seen(w, k) == {c[k] : c \in w}

\* What is read of the columns of an object, and of its foreign keys.
AutoRead(e, o) == IF e = "sqlite" THEN SqliteAuto(o) ELSE o.auto
KeysRead(o) == {RawForeignKey(fk) : fk \in o.foreign_keys}

\* An index row came from an index of its table, and its columns from an index
\* of its name: on SQLite one of any table of the schema.
WasIndex(e, w, k, i) ==
    /\ i.columns # <<>>
    /\ \E o \in Seen(w, k) : \E j \in o.indexes :
        i.name = j.name /\ i.unique = (j.kind # "plain") /\ i.primary = (j.kind = "primary")
    /\ e # "sqlite" => \E o \in Seen(w, k) : \E j \in o.indexes : i = RawIndex(e, j)
    /\ e = "sqlite" =>
        \E n \in InSchema(k[1]) : \E o \in Seen(w, n) : \E j \in o.indexes :
            i.name = j.name /\ i.columns = RawIndex(e, j).columns

\* What a map holds of a name was read of an object that had it.
WasTrue(e, w, f, k, v) ==
    /\ f \in {"columns", "view_columns"} => \A n \in v : \E o \in Seen(w, k) : n \in o.columns
    /\ f = "pk" => \A n \in v : \E o \in Seen(w, k) : n \in o.primary
    /\ f = "auto" => \A n \in v : \E o \in Seen(w, k) : n \in AutoRead(e, o)
    /\ f = "foreign_keys" => \A fk \in v : \E o \in Seen(w, k) : fk \in KeysRead(o)
    /\ f = "info" => v = Nothing \/ \E o \in Seen(w, k) : v = o.info
    /\ f = "indexes" => \A i \in v : WasIndex(e, w, k, i)

RowsWereTrue ==
    /\ \A k \in raw.tables : \E o \in Seen(window, k) : o.kind = "table"
    /\ \A k \in raw.views : \E o \in Seen(window, k) : o.kind = "view"
    /\ \A f \in Maps, k \in KeySet : WasTrue(engine, window, f, k, raw[f][k])

\* What was true stays so when more catalogs have been there.
LEMMA TrueOfMore ==
    ASSUME NEW e, NEW w, NEW more, w \subseteq more, NEW f, NEW k, NEW v, WasTrue(e, w, f, k, v)
    PROVE  WasTrue(e, more, f, k, v)
<1>1. \A n : Seen(w, n) \subseteq Seen(more, n)
  BY DEF Seen
<1>2. \A i : WasIndex(e, w, k, i) => WasIndex(e, more, k, i)
  <2> SUFFICES ASSUME NEW i, WasIndex(e, w, k, i) PROVE WasIndex(e, more, k, i)
    OBVIOUS
  <2> QED
    BY <1>1 DEF WasIndex
<1> QED
  BY <1>1, <1>2 DEF WasTrue

\* What a row says of its index, whatever its columns.
LEMMA RowNames ==
    ASSUME NEW e, NEW j
    PROVE  /\ RawIndex(e, j).name = j.name /\ RawIndex(e, j).unique = (j.kind # "plain")
           /\ RawIndex(e, j).primary = (j.kind = "primary")
BY DEF RawIndex

\* What a query returns of the live catalog is read of it.
LEMMA LiveRowsAreTrue ==
    ASSUME IInv, pc = "inspecting", NEW k \in KeySet
    PROVE  /\ Live(k) \in Seen(window, k)
           /\ WasTrue(engine, window, "columns", k, Live(k).columns)
           /\ WasTrue(engine, window, "view_columns", k, Live(k).columns)
           /\ WasTrue(engine, window, "pk", k, IF engine = "sqlite" THEN Live(k).primary ELSE {})
           /\ engine = "sqlserver" => WasTrue(engine, window, "auto", k, Live(k).auto)
           /\ WasTrue(engine, window, "auto", k, CASE engine = "sqlite" -> SqliteAuto(Live(k))
                                                   [] engine = "sqlserver" -> {}
                                                   [] OTHER -> Live(k).auto)
           /\ WasTrue(engine, window, "foreign_keys", k, {RawForeignKey(fk) : fk \in Live(k).foreign_keys})
           /\ WasTrue(engine, window, "info", k, Live(k).info)
           /\ WasTrue(engine, window, "indexes", k, RawIndexes(engine, Live(k)))
<1>1. catalog \in window
  BY DEF IInv
<1>2. Live(k) \in Seen(window, k)
  BY <1>1 DEF Seen, Live
<1> DEFINE o == Live(k)
<1> HIDE DEF o
<1>3. o \in Seen(window, k)
  BY <1>2 DEF o
<1>4. /\ WasTrue(engine, window, "columns", k, o.columns)
      /\ WasTrue(engine, window, "view_columns", k, o.columns)
  BY <1>3 DEF WasTrue
<1>5. WasTrue(engine, window, "pk", k, IF engine = "sqlite" THEN o.primary ELSE {})
  BY <1>3 DEF WasTrue
<1>6. engine = "sqlserver" => WasTrue(engine, window, "auto", k, o.auto)
  BY <1>3 DEF WasTrue, AutoRead
<1>7. WasTrue(engine, window, "auto", k, CASE engine = "sqlite" -> SqliteAuto(o)
                                           [] engine = "sqlserver" -> {}
                                           [] OTHER -> o.auto)
  <2> DEFINE auto == CASE engine = "sqlite" -> SqliteAuto(o)
                       [] engine = "sqlserver" -> {}
                       [] OTHER -> o.auto
  <2>1. auto \subseteq AutoRead(engine, o)
    BY DEF AutoRead
  <2> HIDE DEF auto
  <2>2. WasTrue(engine, window, "auto", k, auto)
    BY <1>3, <2>1 DEF WasTrue
  <2> QED
    BY <2>2 DEF auto
<1>8. WasTrue(engine, window, "foreign_keys", k, {RawForeignKey(fk) : fk \in o.foreign_keys})
  BY <1>3 DEF WasTrue, KeysRead
<1>9. WasTrue(engine, window, "info", k, o.info)
  BY <1>3 DEF WasTrue
<1>10. WasTrue(engine, window, "indexes", k, RawIndexes(engine, o))
  <2>1. ASSUME NEW i \in RawIndexes(engine, o) PROVE WasIndex(engine, window, k, i)
    <3>1. PICK j \in o.indexes : i = RawIndex(engine, j)
      BY <2>1 DEF RawIndexes
    <3>2. i.name = j.name /\ i.unique = (j.kind # "plain") /\ i.primary = (j.kind = "primary")
      BY <3>1, RowNames
    <3>3. i.columns # <<>>
      BY <2>1 DEF RawIndexes
    <3>4. k \in InSchema(k[1])
      BY DEF InSchema
    <3> QED
      BY <1>3, <3>1, <3>2, <3>3, <3>4 DEF WasIndex
  <2> QED
    BY <2>1 DEF WasTrue
<1> QED
  BY <1>2, <1>4, <1>5, <1>6, <1>7, <1>8, <1>9, <1>10 DEF o

\* Rows that are true may be added.
LEMMA AddingKeepsTrue ==
    ASSUME RowsWereTrue, engine' = engine, window' = window,
           NEW fields \in SUBSET Maps, Adds(fields),
           \A f \in fields, k \in KeySet : WasTrue(engine, window, f, k, raw'[f][k])
    PROVE  RowsWereTrue'
<1>1. raw'["tables"] = raw["tables"] /\ raw'["views"] = raw["views"]
  BY DEF Adds, Fields, Maps
<1>2. ASSUME NEW f \in Maps, NEW k \in KeySet PROVE WasTrue(engine', window', f, k, raw'[f][k])
  <2>1. CASE f \in fields
    BY <2>1
  <2>2. CASE f \notin fields
    <3>1. raw'[f] = raw[f]
      BY <2>2 DEF Adds, Fields
    <3> QED
      BY <3>1 DEF RowsWereTrue
  <2> QED
    BY <2>1, <2>2
<1> QED
  BY <1>1, <1>2 DEF RowsWereTrue

\* What the rows say was so at some moment of the inspection.
THEOREM RowsWereAlwaysTrue == Spec => []RowsWereTrue
<1>1. Init => RowsWereTrue
  <2> SUFFICES ASSUME Init PROVE RowsWereTrue
    OBVIOUS
  <2>1. raw = NoRows
    BY DEF Init
  <2>2. raw.tables = {} /\ raw.views = {}
    BY <2>1 DEF NoRows
  <2>3. ASSUME NEW f \in Maps, NEW k \in KeySet PROVE WasTrue(engine, window, f, k, raw[f][k])
    <3>1. raw["info"][k] = Nothing /\ (f # "info" => raw[f][k] = {})
      BY <2>1 DEF NoRows, Maps
    <3> QED
      BY <3>1 DEF WasTrue, Maps
  <2> QED
    BY <2>2, <2>3 DEF RowsWereTrue
<1>2. IInv /\ RowsWereTrue /\ [Next]_vars => RowsWereTrue'
  <2> SUFFICES ASSUME IInv, RowsWereTrue, [Next]_vars PROVE RowsWereTrue'
    OBVIOUS
  <2>1. ASSUME raw' = raw, engine' = engine, window \subseteq window' PROVE RowsWereTrue'
    <3>1. \A f \in Maps, k \in KeySet : WasTrue(engine', window', f, k, raw'[f][k])
      BY <2>1, TrueOfMore DEF RowsWereTrue
    <3>2. \A k : Seen(window, k) \subseteq Seen(window', k)
      BY <2>1 DEF Seen
    <3> QED
      BY <2>1, <3>1, <3>2 DEF RowsWereTrue
  <2>2. ASSUME Migrate PROVE RowsWereTrue'
    BY <2>1, <2>2 DEF Migrate, collected
  <2>3. ASSUME raw' = NoRows PROVE RowsWereTrue'
    <3>1. raw'.tables = {} /\ raw'.views = {}
      BY <2>3 DEF NoRows
    <3>2. ASSUME NEW f \in Maps, NEW k \in KeySet PROVE WasTrue(engine', window', f, k, raw'[f][k])
      <4>1. raw'["info"][k] = Nothing /\ (f # "info" => raw'[f][k] = {})
        BY <2>3 DEF NoRows, Maps
      <4> QED
        BY <4>1 DEF WasTrue, Maps
    <3> QED
      BY <3>1, <3>2 DEF RowsWereTrue
  <2>4. ASSUME Begin PROVE RowsWereTrue'
    BY <2>3, <2>4 DEF Begin, IInv
  <2>5. ASSUME ListTables PROVE RowsWereTrue'
    <3> DEFINE listed == {k \in Asked : Live(k).kind = "table"}
    <3>1. /\ Due("tables") /\ UNCHANGED <<engine, window>> /\ Adds({"tables", "info"})
          /\ raw'.tables = raw.tables \cup listed
          /\ \A k \in KeySet : raw'.info[k] =
                IF engine = "sqlite" /\ k \in listed THEN Live(k).info ELSE raw.info[k]
      BY <2>5, TablesAreListed
    <3>2. pc = "inspecting" /\ Asked \subseteq KeySet
      BY <3>1, NextAsked DEF Due
    <3>3. \A k \in listed : Live(k) \in Seen(window, k) /\ Live(k).kind = "table"
      BY <3>2, LiveRowsAreTrue
    <3> HIDE DEF listed
    <3>4. \A k \in KeySet : WasTrue(engine, window, "info", k, raw'["info"][k])
      <4>1. \A k \in KeySet : WasTrue(engine, window, "info", k, Live(k).info)
        BY <3>2, LiveRowsAreTrue
      <4>2. \A k \in KeySet : WasTrue(engine, window, "info", k, raw["info"][k])
        BY DEF RowsWereTrue, Maps
      <4> QED
        BY <3>1, <4>1, <4>2
    <3>5. ASSUME NEW f \in Maps, NEW k \in KeySet PROVE WasTrue(engine', window', f, k, raw'[f][k])
      <4>1. CASE f = "info"
        BY <3>1, <3>4, <4>1
      <4>2. CASE f # "info"
        <5>1. raw'[f] = raw[f]
          BY <3>1, <4>2 DEF Adds, Fields, Maps
        <5> QED
          BY <3>1, <5>1 DEF RowsWereTrue
      <4> QED
        BY <4>1, <4>2
    <3>6. raw'["views"] = raw["views"]
      BY <3>1 DEF Adds, Fields
    <3> QED
      BY <3>1, <3>3, <3>5, <3>6 DEF RowsWereTrue
  <2>6. ASSUME ListViews PROVE RowsWereTrue'
    <3> DEFINE listed == {k \in Asked : Live(k).kind = "view"}
    <3>1. /\ Due("views") /\ UNCHANGED <<engine, window>> /\ Adds({"views"})
          /\ raw'.views = raw.views \cup listed
      BY <2>6, ViewsAreListed
    <3>2. pc = "inspecting" /\ Asked \subseteq KeySet
      BY <3>1, NextAsked DEF Due
    <3>3. \A k \in listed : Live(k) \in Seen(window, k) /\ Live(k).kind = "view"
      BY <3>2, LiveRowsAreTrue
    <3> HIDE DEF listed
    <3>4. ASSUME NEW f \in Maps, NEW k \in KeySet PROVE WasTrue(engine', window', f, k, raw'[f][k])
      <4>1. raw'[f] = raw[f]
        BY <3>1 DEF Adds, Fields, Maps
      <4> QED
        BY <3>1, <4>1 DEF RowsWereTrue
    <3>5. raw'["tables"] = raw["tables"]
      BY <3>1 DEF Adds, Fields
    <3> QED
      BY <3>1, <3>3, <3>4, <3>5 DEF RowsWereTrue
  <2>7. ASSUME NEW what, Send(what, Tail(agenda)) PROVE pc = "inspecting" /\ engine' = engine /\ window' = window
    BY <2>7 DEF Send, Due
  <2>8. \A f \in Maps, k \in KeySet : WasTrue(engine, window, f, k, raw[f][k])
    BY DEF RowsWereTrue
  <2>9. ASSUME ReadColumns PROVE RowsWereTrue'
    <3>1. /\ pc = "inspecting" /\ engine' = engine /\ window' = window
          /\ Adds({"columns", "pk", "auto"})
          /\ Anew("columns", LAMBDA k : Live(k).columns)
          /\ Anew("pk", LAMBDA k : IF engine = "sqlite" THEN Live(k).primary ELSE {})
          /\ Anew("auto", LAMBDA k : CASE engine = "sqlite" -> SqliteAuto(Live(k))
                                       [] engine = "sqlserver" -> {}
                                       [] OTHER -> Live(k).auto)
      BY <2>7, <2>9, RowsAreAdded DEF ReadColumns
    <3>2. ASSUME NEW k \in KeySet
          PROVE  /\ WasTrue(engine, window, "columns", k, raw'["columns"][k])
                 /\ WasTrue(engine, window, "pk", k, raw'["pk"][k])
      BY <2>8, <3>1, LiveRowsAreTrue DEF Anew, Maps
    <3>3. ASSUME NEW k \in KeySet PROVE WasTrue(engine, window, "auto", k, raw'["auto"][k])
      <4> DEFINE auto == CASE engine = "sqlite" -> SqliteAuto(Live(k))
                           [] engine = "sqlserver" -> {}
                           [] OTHER -> Live(k).auto
      <4>1. raw'["auto"][k] = IF k \in Asked THEN auto ELSE raw["auto"][k]
        BY <3>1 DEF Anew
      <4>2. WasTrue(engine, window, "auto", k, auto)
        BY <3>1, LiveRowsAreTrue
      <4> HIDE DEF auto
      <4> QED
        BY <2>8, <4>1, <4>2 DEF Maps
    <3> QED
      BY <3>1, <3>2, <3>3, AddingKeepsTrue DEF Maps
  <2>10. ASSUME ReadViewColumns PROVE RowsWereTrue'
    <3>1. /\ pc = "inspecting" /\ engine' = engine /\ window' = window /\ Adds({"view_columns"})
          /\ Anew("view_columns", LAMBDA k : Live(k).columns)
      BY <2>7, <2>10, RowsAreAdded DEF ReadViewColumns
    <3>2. \A k \in KeySet : WasTrue(engine, window, "view_columns", k, raw'["view_columns"][k])
      BY <2>8, <3>1, LiveRowsAreTrue DEF Anew, Maps
    <3> QED
      BY <3>1, <3>2, AddingKeepsTrue DEF Maps
  <2>11. ASSUME ReadIdentities PROVE RowsWereTrue'
    <3>1. /\ pc = "inspecting" /\ engine' = engine /\ window' = window /\ Adds({"auto"})
          /\ Anew("auto", LAMBDA k : Live(k).auto) /\ Due("auto")
      BY <2>7, <2>11, RowsAreAdded DEF ReadIdentities, Send
    <3>2. engine = "sqlserver"
      BY <3>1, NextAsked DEF WellAsked
    <3>3. \A k \in KeySet : WasTrue(engine, window, "auto", k, raw'["auto"][k])
      BY <2>8, <3>1, <3>2, LiveRowsAreTrue DEF Anew, Maps
    <3> QED
      BY <3>1, <3>3, AddingKeepsTrue DEF Maps
  <2>12. ASSUME ReadIndexes PROVE RowsWereTrue'
    <3>1. /\ pc = "inspecting" /\ engine' = engine /\ window' = window /\ Adds({"indexes"})
          /\ Anew("indexes", LAMBDA k : RawIndexes(engine, Live(k)))
      BY <2>7, <2>12, RowsAreAdded DEF ReadIndexes
    <3>2. \A k \in KeySet : WasTrue(engine, window, "indexes", k, raw'["indexes"][k])
      BY <2>8, <3>1, LiveRowsAreTrue DEF Anew, Maps
    <3> QED
      BY <3>1, <3>2, AddingKeepsTrue DEF Maps
  <2>13. ASSUME ReadForeignKeys PROVE RowsWereTrue'
    <3>1. /\ pc = "inspecting" /\ engine' = engine /\ window' = window /\ Adds({"foreign_keys"})
          /\ Anew("foreign_keys", LAMBDA k : {RawForeignKey(fk) : fk \in Live(k).foreign_keys})
      BY <2>7, <2>13, RowsAreAdded DEF ReadForeignKeys
    <3>2. \A k \in KeySet : WasTrue(engine, window, "foreign_keys", k, raw'["foreign_keys"][k])
      BY <2>8, <3>1, LiveRowsAreTrue DEF Anew, Maps
    <3> QED
      BY <3>1, <3>2, AddingKeepsTrue DEF Maps
  <2>14. ASSUME ReadInfo PROVE RowsWereTrue'
    <3>1. /\ pc = "inspecting" /\ engine' = engine /\ window' = window /\ Adds({"info"})
          /\ Anew("info", LAMBDA k : Live(k).info)
      BY <2>7, <2>14, RowsAreAdded DEF ReadInfo
    <3>2. \A k \in KeySet : WasTrue(engine, window, "info", k, raw'["info"][k])
      BY <2>8, <3>1, LiveRowsAreTrue DEF Anew, Maps
    <3> QED
      BY <3>1, <3>2, AddingKeepsTrue DEF Maps
  <2>15. ASSUME ReadIndexInfo PROVE RowsWereTrue'
    <3> DEFINE listed == Head(agenda).list
    <3>1. /\ pc = "inspecting" /\ engine' = engine /\ window' = window /\ Adds({"indexes"})
          /\ Due("index_info")
      BY <2>7, <2>15, IndexIsRead DEF ReadIndexInfo, Send
    <3>2. PICK k \in KeySet : /\ Asked = {k}
                              /\ Anew("indexes", LAMBDA n : raw.indexes[n] \cup Found(k, listed))
      BY <2>15, IndexIsRead
    <3>3. engine = "sqlite" /\ \E c \in window : listed \in c[k].indexes
      BY <3>1, <3>2, NextAsked DEF WellAsked, Asked
    <3> HIDE DEF listed
    <3>4. ASSUME NEW i \in Found(k, listed) PROVE WasIndex(engine, window, k, i)
      <4>1. PICK n \in InSchema(k[1]) : \E x \in RawIndexes(engine, Live(n)) :
                /\ x.name = RawIndex(engine, listed).name
                /\ i = [RawIndex(engine, listed) EXCEPT !.columns = x.columns]
        BY <3>4 DEF Found
      <4>2. PICK x \in RawIndexes(engine, Live(n)) :
                /\ x.name = RawIndex(engine, listed).name
                /\ i = [RawIndex(engine, listed) EXCEPT !.columns = x.columns]
        BY <4>1
      <4>3. /\ i.name = listed.name /\ i.unique = (listed.kind # "plain")
            /\ i.primary = (listed.kind = "primary") /\ i.columns = x.columns /\ x.name = listed.name
        BY <4>2 DEF RawIndex
      <4>4. n \in KeySet /\ Live(n) \in Seen(window, n)
        BY <3>1, LiveRowsAreTrue DEF InSchema
      <4>5. PICK j \in Live(n).indexes : x = RawIndex(engine, j) /\ x.columns # <<>>
        BY <4>2 DEF RawIndexes
      <4>6. x.name = j.name
        BY <4>5, RowNames
      <4>7. \E o \in Seen(window, k) : \E l \in o.indexes :
                i.name = l.name /\ i.unique = (l.kind # "plain") /\ i.primary = (l.kind = "primary")
        BY <3>3, <4>3 DEF Seen
      <4> QED
        BY <3>3, <4>3, <4>4, <4>5, <4>6, <4>7 DEF WasIndex
    <3>5. \A n \in KeySet : WasTrue(engine, window, "indexes", n, raw'["indexes"][n])
      <4> SUFFICES ASSUME NEW n \in KeySet PROVE WasTrue(engine, window, "indexes", n, raw'["indexes"][n])
        OBVIOUS
      <4>1. WasTrue(engine, window, "indexes", n, raw["indexes"][n])
        BY <2>8 DEF Maps
      <4>2. raw'["indexes"][n] = IF n = k THEN raw["indexes"][n] \cup Found(k, listed) ELSE raw["indexes"][n]
        BY <3>2 DEF Anew
      <4> QED
        BY <3>4, <4>1, <4>2 DEF WasTrue
    <3> QED
      BY <3>1, <3>5, AddingKeepsTrue DEF Maps
  <2>16. ASSUME ListIndexes PROVE RowsWereTrue'
    BY <2>1, <2>16, IndexesAreListed
  <2>17. ASSUME Return PROVE RowsWereTrue'
    BY <2>1, <2>17 DEF Return
  <2>18. ASSUME Fail PROVE RowsWereTrue'
    BY <2>3, <2>18 DEF Fail
  <2>19. ASSUME UNCHANGED vars PROVE RowsWereTrue'
    BY <2>1, <2>19 DEF vars, collected
  <2> QED
    BY <2>2, <2>4, <2>5, <2>6, <2>9, <2>10, <2>11, <2>12, <2>13, <2>14, <2>15, <2>16, <2>17,
       <2>18, <2>19 DEF Next
<1> QED
  BY <1>1, <1>2, InspectionInvariant, PTL DEF Spec

-----------------------------------------------------------------------------
(* The facts. *)

\* What a result says of a table is what was collected of its name.
LEMMA ResultIs ==
    ASSUME result = Assemble(engine, raw)
    PROVE  /\ DOMAIN result.tables = raw.tables /\ DOMAIN result.views = raw.views
           /\ \A k \in raw.tables :
                LET t == result.tables[k]
                IN  /\ t.is = to_columns(engine, raw.columns[k], raw.pk[k], raw.auto[k], raw.indexes[k])
                    /\ t.indexes = {Index(i) : i \in raw.indexes[k]}
                    /\ t.foreign_keys = raw.foreign_keys[k]
                    /\ t.info = raw.info[k]
           /\ \A k \in raw.views : result.views[k] =
                IF engine = "sqlite" THEN to_columns(engine, raw.view_columns[k], {}, {}, {})
                ELSE to_columns(engine, raw.columns[k], raw.pk[k], raw.auto[k], raw.indexes[k])
BY DEF Assemble

WasFact(f) ==
    \E c \in window : f \in CatalogFacts(c) \/ \E k \in KeySet : f \in Misreadings(k, c[k])

\* The columns of an index, as each engine reads them.
LEMMA RawIndexIs ==
    ASSUME NEW e \in AllEngines, NEW o, WellFormed(o), NEW j \in o.indexes
    PROVE  /\ RawIndex(e, j).columns \in Covered(j)
           /\ RawIndex(e, j).columns \in Seq(o.columns)
           /\ e \notin {"postgres", "sqlserver"} \/ j.include = <<>> =>
                RawIndex(e, j).columns = IndexColumns(j.key)
           /\ ToSet(IndexColumns(j.key)) = ToSet(j.key) \ {Expr}
           /\ ToSet(RawIndex(e, j).columns) \subseteq (ToSet(j.key) \ {Expr}) \cup ToSet(j.include)
           /\ ToSet(j.key) \ {Expr} \subseteq ToSet(RawIndex(e, j).columns)
<1>1. j.key \in Seq(o.columns \cup {Expr}) /\ j.include \in Seq(o.columns) /\ Expr \notin o.columns
  BY DEF WellFormed
<1> DEFINE columns == IndexColumns(j.key)
           S == o.columns
<1>2. columns \in Seq(S) /\ ToSet(columns) = ToSet(j.key) \ {Expr}
  <2> DEFINE T == o.columns \cup {Expr}
             M == ToSet(j.key) \ {Expr}
  <2>1. j.key \in Seq(T) /\ columns = Kept(j.key, M)
    BY <1>1 DEF IndexColumns
  <2>2. T \ {Expr} = S
    BY <1>1
  <2> HIDE DEF T, M, columns, S
  <2>3. columns \in Seq(T) /\ ToSet(columns) = ToSet(j.key) \cap M
    BY <2>1, KeptMembers
  <2>4. ToSet(columns) = ToSet(j.key) \ {Expr}
    BY <2>3 DEF M
  <2>5. columns \in Seq(S)
    <3>1. \A i \in DOMAIN columns : columns[i] \in ToSet(columns) /\ columns[i] \in T
      BY <2>3 DEF ToSet
    <3>2. \A i \in DOMAIN columns : columns[i] \in S
      BY <2>2, <2>4, <3>1
    <3> QED
      BY <2>3, <3>2
  <2> QED
    BY <2>4, <2>5
<1>3. RawIndex(e, j).columns = CASE e = "sqlserver" -> j.include \o columns
                                 [] e = "postgres"  -> columns \o j.include
                                 [] OTHER           -> columns
  BY DEF RawIndex, SqlserverIndexColumns, PostgresIndexColumns
<1>4. Covered(j) = {columns, columns \o j.include, j.include \o columns}
  BY DEF Covered
<1> HIDE DEF columns, S
<1>5. j.include \in Seq(S)
  BY <1>1 DEF S
<1>6. /\ columns \o j.include \in Seq(S) /\ j.include \o columns \in Seq(S)
      /\ ToSet(columns \o j.include) = ToSet(columns) \cup ToSet(j.include)
      /\ ToSet(j.include \o columns) = ToSet(j.include) \cup ToSet(columns)
  BY <1>2, <1>5, Concatenated
<1>7. j.include = <<>> => columns \o j.include = columns /\ j.include \o columns = columns
  BY <1>2
<1>8. CASE e = "sqlserver"
  BY <1>2, <1>3, <1>4, <1>6, <1>7, <1>8 DEF columns, S
<1>9. CASE e = "postgres"
  BY <1>2, <1>3, <1>4, <1>6, <1>7, <1>9 DEF columns, S
<1>10. CASE e \notin {"postgres", "sqlserver"}
  BY <1>2, <1>3, <1>4, <1>10 DEF columns, S
<1> QED
  BY <1>8, <1>9, <1>10

\* A foreign key that says what it references is read as it is.
LEMMA ForeignKeyAsIs ==
    ASSUME NEW o, WellFormed(o), NEW fk \in o.foreign_keys, fk.referenced # Implicit
    PROVE  RawForeignKey(fk) = fk
<1>1. fk = [columns |-> fk.columns, table |-> fk.table, referenced |-> fk.referenced]
  BY DEF WellFormed
<1>2. RawForeignKey(fk) = [fk EXCEPT !.referenced = fk.referenced]
  BY <1>1 DEF RawForeignKey
<1> DEFINE a == fk.columns
           b == fk.table
           d == fk.referenced
<1>3. fk = [columns |-> a, table |-> b, referenced |-> d]
  BY <1>1
<1> HIDE DEF a, b, d
<1>4. RawForeignKey(fk) = [fk EXCEPT !.referenced = d]
  BY <1>2 DEF d
<1> QED
  BY <1>3, <1>4

\* One that does not is read as one to columns without a name.
LEMMA ForeignKeyOfNoNames ==
    ASSUME NEW o, WellFormed(o), NEW fk \in o.foreign_keys, fk.referenced = Implicit
    PROVE  RawForeignKey(fk) = [fk EXCEPT !.referenced = [i \in DOMAIN fk.columns |-> ""]]
BY DEF RawForeignKey

\* A fact of an object that had the name.
LEMMA FactOfObject ==
    ASSUME NEW k \in KeySet, NEW o \in Seen(window, k), o.kind # "none", NEW f,
           f \in TableFacts(k, TableImage(o)) \cup {<<"index", k, i.name, i.kind # "plain">> : i \in o.indexes}
    PROVE  WasFact(f)
<1>1. PICK c \in window : o = c[k]
  BY DEF Seen
<1>2. f \in CatalogFacts(c)
  <2> DEFINE Facts(n) == TableFacts(n, TableImage(c[n]))
                         \cup {<<"index", n, i.name, i.kind # "plain">> : i \in c[n].indexes}
             D == {n \in KeySet : c[n].kind # "none"}
             V == {ViewFacts(n, ViewImage(c[n])) : n \in {n \in KeySet : c[n].kind = "view"}}
  <2>1. f \in Facts(k) /\ k \in D
    BY <1>1
  <2>2. CatalogFacts(c) = UNION ({Facts(n) : n \in D} \cup V)
    BY DEF CatalogFacts
  <2> HIDE DEF Facts, D, V
  <2> QED
    BY <2>1, <2>2
<1> QED
  BY <1>2 DEF WasFact

\* A fact of a view that had the name.
LEMMA FactOfView ==
    ASSUME NEW k \in KeySet, NEW o \in Seen(window, k), o.kind = "view"
    PROVE  WasFact(<<"view", k>>)
<1>1. PICK c \in window : o = c[k]
  BY DEF Seen
<1>2. <<"view", k>> \in CatalogFacts(c)
  <2> DEFINE D == {n \in KeySet : c[n].kind = "view"}
             Views == {ViewFacts(n, ViewImage(c[n])) : n \in D}
             T == {TableFacts(n, TableImage(c[n]))
                   \cup {<<"index", n, i.name, i.kind # "plain">> : i \in c[n].indexes} :
                        n \in {n \in KeySet : c[n].kind # "none"}}
  <2>1. k \in D
    BY <1>1
  <2>2. CatalogFacts(c) = UNION (T \cup Views)
    BY DEF CatalogFacts
  <2>3. <<"view", k>> \in ViewFacts(k, ViewImage(c[k]))
    BY DEF ViewFacts
  <2> HIDE DEF T
  <2>4. ViewFacts(k, ViewImage(c[k])) \in Views
    BY <2>1
  <2> HIDE DEF Views
  <2> QED
    BY <2>2, <2>3, <2>4
<1> QED
  BY <1>2 DEF WasFact

\* What the image of an object shows.
LEMMA ImageIs ==
    ASSUME NEW o
    PROVE  LET t == TableImage(o)
           IN  /\ t.is.columns = o.columns /\ t.is.primary = o.primary /\ t.is.auto = o.auto
               /\ t.is.unique = UniqueAlone(o)
               /\ t.foreign_keys = o.foreign_keys /\ t.info = o.info
               /\ t.indexes = {[name |-> i.name, unique |-> i.kind # "plain", columns |-> IndexColumns(i.key)] :
                                i \in {j \in o.indexes : IndexColumns(j.key) # <<>>}}
BY DEF TableImage

\* What a driver is known to make of an object that had the name.
LEMMA MisreadingOfObject ==
    ASSUME NEW k \in KeySet, NEW o \in Seen(window, k), NEW f \in Misreadings(k, o)
    PROVE  WasFact(f)
<1>1. PICK c \in window : o = c[k]
  BY DEF Seen
<1> QED
  BY <1>1 DEF WasFact

\* What an object has, and a name nobody has does not, is a fact.
LEMMA ObjectFacts ==
    ASSUME NEW k \in KeySet, NEW o \in Seen(window, k), WellFormed(o)
    PROVE  /\ \A n \in o.columns : WasFact(<<"column", k, n>>)
           /\ \A n \in o.primary : WasFact(<<"primary", k, n>>)
           /\ \A n \in o.auto : WasFact(<<"auto", k, n>>)
           /\ \A fk \in o.foreign_keys : WasFact(<<"foreign key", k, fk>>)
           /\ o.info # Nothing => WasFact(<<"info", k, o.info>>)
           /\ o.kind = "table" => WasFact(<<"table", k>>)
           /\ \A i \in o.indexes :
                /\ WasFact(<<"index", k, i.name, i.kind # "plain">>)
                /\ IndexColumns(i.key) # <<>> =>
                    WasFact(<<"parts", IF engine = "sqlite" THEN k[1] ELSE k, i.name, IndexColumns(i.key)>>)
<1> DEFINE t == TableImage(o)
           Facts == TableFacts(k, t)
           Indexes == {<<"index", k, i.name, i.kind # "plain">> : i \in o.indexes}
<1>1. /\ t.is.columns = o.columns /\ t.is.primary = o.primary /\ t.is.auto = o.auto
      /\ t.foreign_keys = o.foreign_keys /\ t.info = o.info
      /\ t.indexes = {[name |-> i.name, unique |-> i.kind # "plain", columns |-> IndexColumns(i.key)] :
                        i \in {j \in o.indexes : IndexColumns(j.key) # <<>>}}
  BY ImageIs
<1> HIDE DEF t
<1>2. ASSUME NEW f \in Facts \cup Indexes, o.kind # "none" PROVE WasFact(f)
  BY <1>2, FactOfObject DEF t
<1>3. o.kind = "none" => /\ o.columns = {} /\ o.primary = {} /\ o.auto = {}
                         /\ o.indexes = {} /\ o.foreign_keys = {} /\ o.info = Nothing
  BY DEF WellFormed
<1>4. /\ \A n \in o.columns : <<"column", k, n>> \in Facts
      /\ \A n \in o.primary : <<"primary", k, n>> \in Facts
      /\ \A n \in o.auto : <<"auto", k, n>> \in Facts
      /\ \A fk \in o.foreign_keys : <<"foreign key", k, fk>> \in Facts
      /\ <<"info", k, o.info>> \in Facts
      /\ <<"table", k>> \in Facts
  BY <1>1 DEF TableFacts
<1>5. ASSUME NEW i \in o.indexes, IndexColumns(i.key) # <<>>
      PROVE  <<"parts", IF engine = "sqlite" THEN k[1] ELSE k, i.name, IndexColumns(i.key)>> \in Facts
  <2> DEFINE j == [name |-> i.name, unique |-> i.kind # "plain", columns |-> IndexColumns(i.key)]
  <2>1. j \in t.indexes /\ j.name = i.name /\ j.columns = IndexColumns(i.key)
    BY <1>1, <1>5
  <2> HIDE DEF j
  <2> QED
    BY <2>1 DEF TableFacts
<1>6. \A i \in o.indexes : <<"index", k, i.name, i.kind # "plain">> \in Indexes
  OBVIOUS
<1> HIDE DEF Facts, Indexes
<1> QED
  BY <1>2, <1>3, <1>4, <1>5, <1>6

\* What is read of an object is a fact, or what a driver is known to make of one.
LEMMA ReadFacts ==
    ASSUME NEW k \in KeySet, NEW o \in Seen(window, k), WellFormed(o), engine \in AllEngines
    PROVE  /\ \A n \in AutoRead(engine, o) : WasFact(<<"auto", k, n>>)
           /\ \A fk \in KeysRead(o) : WasFact(<<"foreign key", k, fk>>)
           /\ \A j \in o.indexes :
                LET i == RawIndex(engine, j)
                IN  /\ i.columns # <<>> =>
                        WasFact(<<"parts", IF engine = "sqlite" THEN k[1] ELSE k, j.name, i.columns>>)
                    /\ j.kind = "primary" =>
                        \A n \in ToSet(i.columns) :
                            WasFact(<<"primary", k, n>>) /\ WasFact(<<"unique", k, n>>)
                    /\ j.kind # "plain" => \A n : i.columns = <<n>> => WasFact(<<"unique", k, n>>)
<1>1. ASSUME NEW n \in AutoRead(engine, o) PROVE WasFact(<<"auto", k, n>>)
  <2>1. CASE engine = "sqlite"
    <3>1. n \in o.primary \cap o.integer
      BY <1>1, <2>1 DEF AutoRead, SqliteAuto
    <3>2. <<"auto", k, n>> \in Misreadings(k, o)
      BY <2>1, <3>1 DEF Misreadings
    <3> QED
      BY <3>2, MisreadingOfObject
  <2>2. CASE engine # "sqlite"
    BY <1>1, <2>2, ObjectFacts DEF AutoRead
  <2> QED
    BY <2>1, <2>2
<1>2. ASSUME NEW fk \in o.foreign_keys PROVE WasFact(<<"foreign key", k, RawForeignKey(fk)>>)
  <2>1. CASE fk.referenced = Implicit
    <3> DEFINE nameless == [fk EXCEPT !.referenced = [i \in DOMAIN fk.columns |-> ""]]
    <3>1. RawForeignKey(fk) = nameless
      BY <2>1, ForeignKeyOfNoNames
    <3>2. <<"foreign key", k, nameless>> \in Misreadings(k, o)
      BY <2>1 DEF Misreadings
    <3> HIDE DEF nameless
    <3> QED
      BY <3>1, <3>2, MisreadingOfObject
  <2>2. CASE fk.referenced # Implicit
    BY <2>2, ForeignKeyAsIs, ObjectFacts
  <2> QED
    BY <2>1, <2>2
<1>3. ASSUME NEW j \in o.indexes, RawIndex(engine, j).columns # <<>>
      PROVE  WasFact(<<"parts", IF engine = "sqlite" THEN k[1] ELSE k, j.name, RawIndex(engine, j).columns>>)
  <2> DEFINE columns == RawIndex(engine, j).columns
  <2>1. columns \in Covered(j) /\ (engine = "sqlite" => columns = IndexColumns(j.key))
    BY RawIndexIs
  <2>2. columns # <<>>
    BY <1>3
  <2> HIDE DEF columns
  <2>3. CASE engine = "sqlite"
    BY <2>1, <2>2, <2>3, ObjectFacts DEF columns
  <2>4. CASE engine # "sqlite"
    <3>1. <<"parts", k, j.name, columns>> \in Misreadings(k, o)
      BY <2>1 DEF Misreadings
    <3>2. WasFact(<<"parts", k, j.name, columns>>)
      BY <3>1, MisreadingOfObject
    <3> QED
      BY <2>4, <3>2 DEF columns
  <2> QED
    BY <2>3, <2>4
<1>4. ASSUME NEW j \in o.indexes, j.kind = "primary", NEW n \in ToSet(RawIndex(engine, j).columns)
      PROVE  WasFact(<<"primary", k, n>>) /\ WasFact(<<"unique", k, n>>)
  <2>1. n \in ToSet(j.key) \cup ToSet(j.include)
    BY <1>4, RawIndexIs
  <2>2. ToSet(j.key) = o.primary
    BY <1>4 DEF WellFormed
  <2>3. n \in Covers(o)
    BY <1>4, <2>1, <2>2 DEF Covers
  <2>4. <<"primary", k, n>> \in Misreadings(k, o) /\ <<"unique", k, n>> \in Misreadings(k, o)
    BY <2>3 DEF Misreadings
  <2> QED
    BY <2>4, MisreadingOfObject
<1>5. ASSUME NEW j \in o.indexes, j.kind # "plain", NEW n, RawIndex(engine, j).columns = <<n>>
      PROVE  WasFact(<<"unique", k, n>>)
  <2>1. <<n>> \in Covered(j) /\ <<n>> \in Seq(o.columns)
    BY <1>5, RawIndexIs
  <2>2. n \in o.columns
    <3>1. ASSUME NEW S, NEW s \in Seq(S), Len(s) = 1 PROVE s[1] \in S
      <4>1. \A i \in 1 .. Len(s) : s[i] \in S
        OBVIOUS
      <4>2. 1 \in 1 .. Len(s)
        BY <3>1
      <4> QED
        BY <4>1, <4>2, Zenon
    <3>2. Len(<<n>>) = 1 /\ <<n>>[1] = n
      OBVIOUS
    <3>3. <<n>>[1] \in o.columns
      BY <2>1, <3>1, <3>2, Zenon
    <3> QED
      BY <3>2, <3>3
  <2>3. n \in {m \in o.columns : \E i \in o.indexes : i.kind # "plain" /\ <<m>> \in Covered(i)}
    BY <1>5, <2>1, <2>2
  <2>4. <<"unique", k, n>> \in Misreadings(k, o)
    BY <2>3 DEF Misreadings
  <2> QED
    BY <2>4, MisreadingOfObject
<1>6. \A fk \in KeysRead(o) : WasFact(<<"foreign key", k, fk>>)
  BY <1>2 DEF KeysRead
<1> QED
  BY <1>1, <1>3, <1>4, <1>5, <1>6

\* The columns collected of a name.
LEMMA ColumnsWereTrue ==
    ASSUME AllWellFormed(Catalogs), IInv, RowsWereTrue, NEW k \in KeySet,
           NEW n \in raw.columns[k] \cup raw.view_columns[k]
    PROVE  WasFact(<<"column", k, n>>)
<1>1. /\ WasTrue(engine, window, "columns", k, raw["columns"][k])
      /\ WasTrue(engine, window, "view_columns", k, raw["view_columns"][k])
  BY DEF RowsWereTrue, Maps
<1>2. PICK o \in Seen(window, k) : n \in o.columns
  BY <1>1 DEF WasTrue
<1>3. WellFormed(o)
  BY DEF Seen, AllWellFormed, IInv
<1> QED
  BY <1>2, <1>3, ObjectFacts

\* Every fact about a table was one.
LEMMA TableFactsWere ==
    ASSUME AllWellFormed(Catalogs), IInv, RowsWereTrue, result = Assemble(engine, raw),
           NEW k \in raw.tables, NEW f \in TableFacts(k, result.tables[k])
    PROVE  (f[1] = "info" /\ f[3] = Nothing) \/ WasFact(f)
<1> DEFINE t == result.tables[k]
<1>1. k \in KeySet /\ engine \in AllEngines
  BY EnginesAssumption DEF IInv
<1>2. /\ t.is.columns = raw.columns[k]
      /\ t.is.primary = IF engine = "sqlite" THEN raw.pk[k]
                        ELSE {n \in raw.columns[k] : is_primary_key(raw.indexes[k], n)}
      /\ t.is.unique = {n \in raw.columns[k] : is_unique_column(raw.indexes[k], n)} \cup t.is.primary
      /\ t.is.auto = raw.auto[k] \cap raw.columns[k]
      /\ t.indexes = {Index(i) : i \in raw.indexes[k]}
      /\ t.foreign_keys = raw.foreign_keys[k]
      /\ t.info = raw.info[k]
  <2>1. /\ t.is = to_columns(engine, raw.columns[k], raw.pk[k], raw.auto[k], raw.indexes[k])
        /\ t.indexes = {Index(i) : i \in raw.indexes[k]}
        /\ t.foreign_keys = raw.foreign_keys[k]
        /\ t.info = raw.info[k]
    BY ResultIs
  <2> HIDE DEF t
  <2>2. LET d == to_columns(engine, raw.columns[k], raw.pk[k], raw.auto[k], raw.indexes[k])
        IN  /\ d.columns = raw.columns[k]
            /\ d.primary = IF engine = "sqlite" THEN raw.pk[k]
                           ELSE {n \in raw.columns[k] : is_primary_key(raw.indexes[k], n)}
            /\ d.unique = {n \in raw.columns[k] : is_unique_column(raw.indexes[k], n)} \cup d.primary
            /\ d.auto = raw.auto[k] \cap raw.columns[k]
    BY DEF to_columns
  <2> QED
    BY <2>1, <2>2
<1> HIDE DEF t
<1>3. \A x \in Maps : WasTrue(engine, window, x, k, raw[x][k])
  BY <1>1 DEF RowsWereTrue
<1>4. \A o \in Seen(window, k) : WellFormed(o)
  BY <1>1 DEF Seen, AllWellFormed, IInv
<1>5. CASE f = <<"table", k>>
  <2>1. PICK o \in Seen(window, k) : o.kind = "table"
    BY DEF RowsWereTrue
  <2> QED
    BY <1>1, <1>4, <1>5, <2>1, ObjectFacts
<1>6. CASE f = <<"info", k, t.info>>
  <2>1. raw["info"][k] = Nothing \/ \E o \in Seen(window, k) : raw["info"][k] = o.info
    BY <1>3 DEF WasTrue, Maps
  <2>2. CASE raw["info"][k] = Nothing
    BY <1>2, <1>6, <2>2
  <2>3. CASE raw["info"][k] # Nothing
    <3>1. PICK o \in Seen(window, k) : t.info = o.info /\ o.info # Nothing
      BY <1>2, <2>1, <2>3
    <3> QED
      BY <1>1, <1>4, <1>6, <3>1, ObjectFacts
  <2> QED
    BY <2>2, <2>3
<1>7. CASE \E n \in t.is.columns : f = <<"column", k, n>>
  BY <1>1, <1>2, <1>7, ColumnsWereTrue
<1>8. ASSUME NEW n \in t.is.primary
      PROVE  WasFact(<<"primary", k, n>>) /\ (engine # "sqlite" => WasFact(<<"unique", k, n>>))
  <2>1. CASE engine = "sqlite"
    <3>1. WasTrue(engine, window, "pk", k, raw["pk"][k]) /\ n \in raw["pk"][k]
      BY <1>2, <1>3, <1>8, <2>1 DEF Maps
    <3>2. PICK o \in Seen(window, k) : n \in o.primary
      BY <3>1 DEF WasTrue
    <3> QED
      BY <1>1, <1>4, <2>1, <3>2, ObjectFacts
  <2>2. CASE engine # "sqlite"
    <3>1. PICK i \in raw["indexes"][k] : i.primary /\ n \in ToSet(i.columns)
      BY <1>2, <1>8, <2>2 DEF is_primary_key
    <3>2. WasIndex(engine, window, k, i)
      BY <1>3, <3>1 DEF WasTrue, Maps
    <3>3. PICK o \in Seen(window, k) : \E j \in o.indexes : i = RawIndex(engine, j)
      BY <2>2, <3>2 DEF WasIndex
    <3> PICK j \in o.indexes : i = RawIndex(engine, j)
      BY <3>3
    <3>4. j.kind = "primary"
      BY <3>1, RowNames
    <3> QED
      BY <1>1, <1>4, <3>1, <3>4, ReadFacts
  <2> QED
    BY <2>1, <2>2
<1>9. ASSUME engine # "sqlite", NEW n \in t.is.unique PROVE WasFact(<<"unique", k, n>>)
  <2>1. CASE n \in t.is.primary
    BY <1>8, <1>9, <2>1
  <2>2. CASE n \notin t.is.primary
    <3>1. PICK i \in raw["indexes"][k] : i.unique /\ i.columns = <<n>>
      BY <1>2, <1>9, <2>2 DEF is_unique_column
    <3>2. WasIndex(engine, window, k, i)
      BY <1>3, <3>1 DEF WasTrue, Maps
    <3>3. PICK o \in Seen(window, k) : \E j \in o.indexes : i = RawIndex(engine, j)
      BY <1>9, <3>2 DEF WasIndex
    <3> PICK j \in o.indexes : i = RawIndex(engine, j)
      BY <3>3
    <3>4. j.kind # "plain"
      BY <3>1, RowNames
    <3> QED
      BY <1>1, <1>4, <3>1, <3>4, ReadFacts
  <2> QED
    BY <2>1, <2>2
<1>10. CASE \/ \E n \in t.is.auto : f = <<"auto", k, n>>
            \/ \E fk \in t.foreign_keys : f = <<"foreign key", k, fk>>
  <2>1. /\ WasTrue(engine, window, "auto", k, raw["auto"][k])
        /\ WasTrue(engine, window, "foreign_keys", k, raw["foreign_keys"][k])
    BY <1>3 DEF Maps
  <2>2. ASSUME NEW n \in t.is.auto PROVE WasFact(<<"auto", k, n>>)
    <3>1. PICK o \in Seen(window, k) : n \in AutoRead(engine, o)
      BY <1>2, <2>1, <2>2 DEF WasTrue
    <3> QED
      BY <1>1, <1>4, <3>1, ReadFacts
  <2>3. ASSUME NEW fk \in t.foreign_keys PROVE WasFact(<<"foreign key", k, fk>>)
    <3>1. PICK o \in Seen(window, k) : fk \in KeysRead(o)
      BY <1>2, <2>1, <2>3 DEF WasTrue
    <3> QED
      BY <1>1, <1>4, <3>1, ReadFacts
  <2> QED
    BY <1>10, <2>2, <2>3
<1>11. ASSUME NEW i \in t.indexes
       PROVE  /\ WasFact(<<"index", k, i.name, i.unique>>)
              /\ WasFact(<<"parts", IF engine = "sqlite" THEN k[1] ELSE k, i.name, i.columns>>)
  <2>1. PICK x \in raw["indexes"][k] : i = Index(x)
    BY <1>2, <1>11
  <2>2. i.name = x.name /\ i.unique = x.unique /\ i.columns = x.columns
    BY <2>1 DEF Index
  <2>3. WasIndex(engine, window, k, x) /\ x.columns # <<>>
    BY <1>3, <2>1 DEF WasTrue, Maps, WasIndex
  <2>4. WasFact(<<"index", k, i.name, i.unique>>)
    <3>1. PICK o \in Seen(window, k) : \E j \in o.indexes : x.name = j.name /\ x.unique = (j.kind # "plain")
      BY <2>3 DEF WasIndex
    <3> QED
      BY <1>1, <1>4, <2>2, <3>1, ObjectFacts
  <2>5. WasFact(<<"parts", IF engine = "sqlite" THEN k[1] ELSE k, i.name, i.columns>>)
    <3>1. CASE engine = "sqlite"
      <4>1. PICK n \in InSchema(k[1]) : \E o \in Seen(window, n) : \E j \in o.indexes :
                x.name = j.name /\ x.columns = RawIndex(engine, j).columns
        BY <2>3, <3>1 DEF WasIndex
      <4> PICK o \in Seen(window, n) :
                \E j \in o.indexes : x.name = j.name /\ x.columns = RawIndex(engine, j).columns
        BY <4>1
      <4> PICK j \in o.indexes : x.name = j.name /\ x.columns = RawIndex(engine, j).columns
        OBVIOUS
      <4>2. n \in KeySet /\ n[1] = k[1] /\ WellFormed(o)
        BY DEF InSchema, Seen, AllWellFormed, IInv
      <4>3. WasFact(<<"parts", IF engine = "sqlite" THEN n[1] ELSE n, j.name, RawIndex(engine, j).columns>>)
        BY <1>1, <2>3, <4>2, ReadFacts
      <4> QED
        BY <2>2, <3>1, <4>2, <4>3
    <3>2. CASE engine # "sqlite"
      <4>1. PICK o \in Seen(window, k) : \E j \in o.indexes : x = RawIndex(engine, j)
        BY <2>3, <3>2 DEF WasIndex
      <4> PICK j \in o.indexes : x = RawIndex(engine, j)
        BY <4>1
      <4>2. WasFact(<<"parts", IF engine = "sqlite" THEN k[1] ELSE k, j.name, RawIndex(engine, j).columns>>)
        BY <1>1, <1>4, <2>3, ReadFacts
      <4>3. x.name = j.name
        BY RowNames
      <4> QED
        BY <2>2, <3>2, <4>2, <4>3
    <3> QED
      BY <3>1, <3>2
  <2> QED
    BY <2>4, <2>5
<1>12. CASE \/ \E i \in t.indexes : \/ f = <<"index", k, i.name, i.unique>>
                                    \/ f = <<"parts", IF engine = "sqlite" THEN k[1] ELSE k, i.name, i.columns>>
            \/ \E n \in t.is.primary : f = <<"primary", k, n>>
            \/ engine # "sqlite" /\ \E n \in t.is.unique : f = <<"unique", k, n>>
  BY <1>8, <1>9, <1>11, <1>12
<1>13. f \in TableFacts(k, t)
  BY DEF t
<1> QED
  BY <1>5, <1>6, <1>7, <1>10, <1>12, <1>13 DEF TableFacts

\* Every fact about a view was one.
LEMMA ViewFactsWere ==
    ASSUME AllWellFormed(Catalogs), IInv, RowsWereTrue, result = Assemble(engine, raw),
           NEW k \in raw.views, NEW f \in ViewFacts(k, result.views[k])
    PROVE  WasFact(f)
<1>1. k \in KeySet
  BY DEF IInv
<1>2. result.views[k].columns \subseteq raw.columns[k] \cup raw.view_columns[k]
  <2>1. result.views[k] =
            IF engine = "sqlite" THEN to_columns(engine, raw.view_columns[k], {}, {}, {})
            ELSE to_columns(engine, raw.columns[k], raw.pk[k], raw.auto[k], raw.indexes[k])
    BY ResultIs
  <2>2. \A e, names, pk, auto, indexes : to_columns(e, names, pk, auto, indexes).columns = names
    BY DEF to_columns
  <2> QED
    BY <2>1, <2>2
<1>3. CASE f = <<"view", k>>
  <2>1. PICK o \in Seen(window, k) : o.kind = "view"
    BY DEF RowsWereTrue
  <2> QED
    BY <1>1, <1>3, <2>1, FactOfView
<1>4. CASE \E n \in result.views[k].columns : f = <<"column", k, n>>
  BY <1>1, <1>2, <1>4, ColumnsWereTrue
<1> QED
  BY <1>3, <1>4 DEF ViewFacts

\* An inspection torn by DDL mixes moments and invents nothing: each fact of the
\* Database was one of a catalog there was while it ran, or one of Misreadings of
\* an object of such a catalog.  The catalogs may have composite keys, INCLUDE
\* columns, expressions and foreign keys without columns; the hypothesis is what
\* every server sees to.
THEOREM EveryFactAlwaysWasTrue == ASSUME AllWellFormed(Catalogs) PROVE Spec => []EveryFactWasTrue
<1>1. IInv /\ RowsWereTrue => EveryFactWasTrue
  <2> SUFFICES ASSUME IInv, RowsWereTrue, pc = "done", NEW f \in ResultFacts
               PROVE  (f[1] = "info" /\ f[3] = Nothing) \/ WasFact(f)
    BY DEF EveryFactWasTrue, WasFact
  <2>1. result = Assemble(engine, raw)
    BY DEF IInv
  <2>2. DOMAIN result.tables = raw.tables /\ DOMAIN result.views = raw.views
    BY <2>1, ResultIs
  <2>3. \/ \E k \in raw.tables : f \in TableFacts(k, result.tables[k])
        \/ \E k \in raw.views : f \in ViewFacts(k, result.views[k])
    BY <2>2 DEF ResultFacts
  <2> QED
    BY <2>1, <2>3, TableFactsWere, ViewFactsWere
<1> QED
  BY <1>1, InspectionInvariant, RowsWereAlwaysTrue, PTL

-----------------------------------------------------------------------------
(* The questions still to be answered. *)

\* What is asked about an object.
Topics(e, o) ==
    FirstAsked(e)
    \cup (IF e = "mysql" /\ o.kind = "table" THEN {"info"} ELSE {})
    \cup (IF e = "sqlite" /\ o.kind = "table" THEN {"columns", "index_list", "foreign_keys"} ELSE {})
    \cup (IF e = "sqlite" /\ o.kind = "view" THEN {"view_columns"} ELSE {})

\* The question whose answer leads to another one.
Leads(e, first, what) ==
    \/ e = "sqlite" /\ first = "tables" /\ what \in {"columns", "index_list", "foreign_keys"}
    \/ e = "sqlite" /\ first = "views" /\ what = "view_columns"
    \/ e = "mysql" /\ first = "tables" /\ what = "info"

Pending(A, what, k) == \E q \in A : q.what = what /\ k \in q.of

\* What was collected of a name is what is read of the object; `A` is still to be asked.
Answered(e, r, A, what, k, o) ==
    /\ what = "tables" => (o.kind = "table" => k \in r.tables /\ (e = "sqlite" => r.info[k] = o.info))
    /\ what = "views" => (o.kind = "view" => k \in r.views)
    /\ what = "columns" => /\ r.columns[k] = o.columns
                           /\ e = "sqlite" => r.pk[k] = o.primary
                           /\ e # "sqlserver" => r.auto[k] = AutoRead(e, o)
    /\ what = "view_columns" => r.view_columns[k] = o.columns
    /\ what = "auto" => r.auto[k] = AutoRead(e, o)
    /\ what = "indexes" => r.indexes[k] = RawIndexes(e, o)
    /\ what = "index_list" =>
        \A j \in o.indexes : RawIndex(e, j).columns # <<>> =>
            RawIndex(e, j) \in r.indexes[k] \/ AskInfo({k}, j) \in A
    /\ what = "foreign_keys" => r.foreign_keys[k] = KeysRead(o)
    /\ what = "info" => r.info[k] = o.info

Settled(e, r, A, what, k, o) ==
    \/ Answered(e, r, A, what, k, o)
    \/ Pending(A, what, k)
    \/ \E first \in Wanted : Leads(e, first, what) /\ Pending(A, first, k)

\* Every question about a name that has meant the same object all along is
\* answered, or it or the one that leads to it is still to be asked.
QuestionsAreSettled ==
    pc \in {"inspecting", "done"} =>
        \A k \in Scope(engine) : \A o \in Seen(window, k) : Seen(window, k) = {o} =>
            \A what \in Topics(engine, o) : Settled(engine, raw, ToSet(agenda), what, k, o)

\* SQL Server is asked for the identity columns after the columns.
IdentitiesFollow ==
    engine = "sqlserver" =>
        \A i \in DOMAIN agenda : agenda[i].what = "columns" =>
            \E j \in DOMAIN agenda : j > i /\ agenda[j].what = "auto" /\ agenda[i].of \subseteq agenda[j].of

\* A query of SQL Server leads to no other.
LEMMA SqlserverAsksInOrder ==
    ASSUME IInv, engine = "sqlserver", [Next]_vars
    PROVE  \/ agenda' = agenda \/ agenda' = <<>>
           \/ agenda # <<>> /\ agenda' = Tail(agenda)
           \/ agenda' = SqlserverAgenda
<1>1. ASSUME NEW what, Send(what, Tail(agenda)) PROVE agenda # <<>> /\ agenda' = Tail(agenda)
  BY <1>1 DEF Send, Due
<1>2. ASSUME ListTables PROVE agenda # <<>> /\ agenda' = Tail(agenda)
  <2>1. Send("tables", Tail(agenda))
    BY <1>2 DEF ListTables
  <2> QED
    BY <1>1, <2>1
<1>3. ASSUME ListViews PROVE agenda # <<>> /\ agenda' = Tail(agenda)
  <2>1. Send("views", Tail(agenda))
    BY <1>3 DEF ListViews
  <2> QED
    BY <1>1, <2>1
<1>4. ASSUME ReadColumns \/ ReadViewColumns \/ ReadIdentities \/ ReadIndexes \/ ReadIndexInfo
             \/ ReadForeignKeys \/ ReadInfo
      PROVE  agenda # <<>> /\ agenda' = Tail(agenda)
  BY <1>1, <1>4 DEF ReadColumns, ReadViewColumns, ReadIdentities, ReadIndexes, ReadIndexInfo,
                    ReadForeignKeys, ReadInfo
<1>5. ASSUME ListIndexes PROVE FALSE
  <2>1. Due("index_list")
    BY <1>5, IndexesAreListed
  <2> QED
    BY <2>1, NextAsked DEF WellAsked
<1>6. ASSUME Begin PROVE agenda' = SqlserverAgenda
  BY <1>6 DEF Begin, Agenda
<1>7. ASSUME Migrate \/ Return \/ UNCHANGED vars PROVE agenda' = agenda
  BY <1>7 DEF Migrate, Return, vars, collected
<1>8. ASSUME Fail PROVE agenda' = <<>>
  BY <1>8 DEF Fail
<1> QED
  BY <1>2, <1>3, <1>4, <1>5, <1>6, <1>7, <1>8 DEF Next

\* On SQL Server what the columns were read without is read after them.
THEOREM IdentitiesAlwaysFollow == Spec => []IdentitiesFollow
<1>1. Init => IdentitiesFollow
  BY DEF Init, IdentitiesFollow
<1>2. IInv /\ IdentitiesFollow /\ [Next]_vars => IdentitiesFollow'
  <2> SUFFICES ASSUME IInv, IdentitiesFollow, [Next]_vars, engine' = "sqlserver",
                      NEW i \in DOMAIN agenda', agenda'[i].what = "columns"
               PROVE  \E j \in DOMAIN agenda' :
                        j > i /\ agenda'[j].what = "auto" /\ agenda'[i].of \subseteq agenda'[j].of
    BY DEF IdentitiesFollow
  <2>1. engine' = engine
    BY DEF Next, vars, collected, Migrate, Begin, ListTables, ListViews, ReadColumns, ReadViewColumns,
           ReadIdentities, ReadIndexes, ListIndexes, ReadIndexInfo, ReadForeignKeys, ReadInfo,
           Return, Fail, Send
  <2>2. agenda \in Seq(Queries)
    BY DEF IInv
  <2>3. CASE agenda' = agenda
    BY <2>1, <2>3 DEF IdentitiesFollow
  <2>4. CASE agenda' = <<>>
    BY <2>4
  <2>5. CASE agenda # <<>> /\ agenda' = Tail(agenda)
    <3> DEFINE n == Len(agenda)
    <3>1. /\ n \in Nat \ {0} /\ DOMAIN agenda = 1 .. n /\ DOMAIN agenda' = 1 .. n - 1
          /\ \A j \in 1 .. n - 1 : agenda'[j] = agenda[j + 1]
      BY <2>2, <2>5
    <3>2. i + 1 \in 1 .. n /\ agenda[i + 1].what = "columns" /\ agenda'[i] = agenda[i + 1]
      BY <3>1
    <3>3. PICK j \in 1 .. n : /\ j > i + 1 /\ agenda[j].what = "auto"
                              /\ agenda[i + 1].of \subseteq agenda[j].of
      BY <2>1, <3>1, <3>2 DEF IdentitiesFollow
    <3>4. j - 1 \in 1 .. n - 1 /\ j - 1 > i /\ agenda'[j - 1] = agenda[j]
      <4>1. j - 1 \in 1 .. n - 1 /\ j - 1 > i /\ (j - 1) + 1 = j
        BY <3>1, <3>3
      <4> HIDE DEF n
      <4> QED
        BY <3>1, <4>1
    <3> HIDE DEF n
    <3> QED
      BY <3>1, <3>2, <3>3, <3>4
  <2>6. CASE agenda' = SqlserverAgenda
    <3> DEFINE whats == <<"tables", "columns", "indexes", "foreign_keys", "auto", "info", "views">>
               keys == Scope("sqlserver")
    <3>1. agenda' = [j \in 1 .. 7 |-> Ask(whats[j], keys)]
      BY <2>6 DEF SqlserverAgenda, AskAll
    <3> HIDE DEF keys
    <3>2. i \in 1 .. 7 /\ agenda'[i].what = whats[i] /\ agenda'[i].of = keys
      BY <3>1 DEF Ask
    <3>3. i = 2
      BY <3>2
    <3>4. 5 \in DOMAIN agenda' /\ agenda'[5].what = "auto" /\ agenda'[5].of = keys
      BY <3>1 DEF Ask
    <3> QED
      BY <3>2, <3>3, <3>4
  <2> QED
    BY <2>1, <2>3, <2>4, <2>5, <2>6, SqlserverAsksInOrder
<1> QED
  BY <1>1, <1>2, InspectionInvariant, PTL DEF Spec

\* A query leaves what was collected of a name, or collects what is read of the object.
Refreshed(what, k, o) ==
    /\ raw["tables"] \subseteq raw'["tables"] /\ raw["views"] \subseteq raw'["views"]
    /\ raw'["columns"][k] \in {raw["columns"][k], o.columns}
    /\ raw'["view_columns"][k] \in {raw["view_columns"][k], o.columns}
    /\ engine = "sqlite" => raw'["pk"][k] \in {raw["pk"][k], o.primary}
    /\ what = "auto" \/ engine # "sqlserver" => raw'["auto"][k] \in {raw["auto"][k], AutoRead(engine, o)}
    /\ raw'["foreign_keys"][k] \in {raw["foreign_keys"][k], KeysRead(o)}
    /\ raw'["info"][k] \in {raw["info"][k], o.info}
    /\ \/ raw'["indexes"][k] \in {raw["indexes"][k], RawIndexes(engine, o)}
       \/ engine = "sqlite" /\ raw["indexes"][k] \subseteq raw'["indexes"][k]
    /\ \A j \in o.indexes : RawIndex(engine, j).columns # <<>> /\ AskInfo({k}, j) = Head(agenda) =>
            RawIndex(engine, j) \in raw'["indexes"][k]

\* An index with a named column has a row.
LEMMA NamedIndexHasRow ==
    ASSUME NEW e, NEW o, NEW j \in o.indexes, RawIndex(e, j).columns # <<>>
    PROVE  RawIndex(e, j) \in RawIndexes(e, o)
<1>1. RawIndex(e, j) \in {RawIndex(e, i) : i \in o.indexes}
  OBVIOUS
<1> QED
  BY <1>1 DEF RawIndexes

\* What is answered stays so.
LEMMA AnswersStay ==
    ASSUME IInv, NEW w, Due(w), ToSet(Tail(agenda)) \subseteq ToSet(agenda'),
           NEW k, NEW o, NEW what \in Topics(engine, o), Refreshed(what, k, o),
           Answered(engine, raw, ToSet(agenda), what, k, o)
    PROVE  Answered(engine, raw', ToSet(agenda'), what, k, o)
<1>2. ASSUME what = "tables", o.kind = "table"
      PROVE  k \in raw'.tables /\ (engine = "sqlite" => raw'.info[k] = o.info)
  BY <1>2 DEF Answered, Refreshed
<1>3. ASSUME what = "views", o.kind = "view" PROVE k \in raw'.views
  BY <1>3 DEF Answered, Refreshed
<1>4. ASSUME what = "columns"
      PROVE  /\ raw'.columns[k] = o.columns
             /\ engine = "sqlite" => raw'.pk[k] = o.primary
             /\ engine # "sqlserver" => raw'.auto[k] = AutoRead(engine, o)
  BY <1>4 DEF Answered, Refreshed
<1>5. ASSUME what = "view_columns" PROVE raw'.view_columns[k] = o.columns
  BY <1>5 DEF Answered, Refreshed
<1>6. ASSUME what = "auto" PROVE raw'.auto[k] = AutoRead(engine, o)
  BY <1>6 DEF Answered, Refreshed
<1>7. ASSUME what = "indexes" PROVE raw'.indexes[k] = RawIndexes(engine, o)
  <2>1. engine # "sqlite"
    BY <1>7 DEF Topics, FirstAsked
  <2>2. raw.indexes[k] = RawIndexes(engine, o)
    BY <1>7 DEF Answered
  <2> QED
    BY <2>1, <2>2 DEF Refreshed
<1>8. ASSUME what = "index_list", NEW j \in o.indexes, RawIndex(engine, j).columns # <<>>
      PROVE  RawIndex(engine, j) \in raw'.indexes[k] \/ AskInfo({k}, j) \in ToSet(agenda')
  <2>1. RawIndex(engine, j) \in raw.indexes[k] \/ AskInfo({k}, j) \in ToSet(agenda)
    BY <1>8 DEF Answered
  <2>2. CASE RawIndex(engine, j) \in raw.indexes[k]
    <3>1. RawIndex(engine, j) \in RawIndexes(engine, o)
      BY <1>8, NamedIndexHasRow
    <3> QED
      BY <2>2, <3>1 DEF Refreshed
  <2>3. CASE AskInfo({k}, j) \in ToSet(agenda)
    <3>1. AskInfo({k}, j) = Head(agenda) \/ AskInfo({k}, j) \in ToSet(Tail(agenda))
      BY <2>3, NextAsked
    <3>2. CASE AskInfo({k}, j) = Head(agenda)
      BY <1>8, <3>2 DEF Refreshed
    <3> QED
      BY <3>1, <3>2
  <2> QED
    BY <2>1, <2>2, <2>3
<1>9. ASSUME what = "foreign_keys" PROVE raw'.foreign_keys[k] = KeysRead(o)
  BY <1>9 DEF Answered, Refreshed
<1>10. ASSUME what = "info" PROVE raw'.info[k] = o.info
  BY <1>10 DEF Answered, Refreshed
<1> QED
  BY <1>2, <1>3, <1>4, <1>5, <1>6, <1>7, <1>8, <1>9, <1>10 DEF Answered

\* A query that answers its question, asks the ones it leads to and loses no
\* answer leaves every question settled.
LEMMA QuerySettles ==
    ASSUME IInv, QuestionsAreSettled, NEW w, Due(w),
           UNCHANGED <<engine, pc, window>>, ToSet(Tail(agenda)) \subseteq ToSet(agenda'),
           \A k \in KeySet : \A what \in Topics(engine, Live(k)) :
                Refreshed(what, k, Live(k)) \/ Pending(ToSet(agenda'), what, k),
           \A k \in Asked : w \in Topics(engine, Live(k)) =>
                Answered(engine, raw', ToSet(agenda'), w, k, Live(k)),
           \A k \in Asked : \A what \in Topics(engine, Live(k)) :
                Leads(engine, w, what) => Pending(ToSet(agenda'), what, k)
    PROVE  QuestionsAreSettled'
<1>1. pc = "inspecting" /\ catalog \in window /\ window \subseteq Catalogs
  BY DEF Due, IInv
<1>2. SUFFICES ASSUME NEW k \in Scope(engine), NEW o \in Seen(window, k), Seen(window, k) = {o},
                      NEW what \in Topics(engine, o)
               PROVE  Settled(engine, raw', ToSet(agenda'), what, k, o)
  BY DEF QuestionsAreSettled
<1>3. o = Live(k)
  BY <1>1, <1>2 DEF Seen, Live
<1>4. k \in KeySet
  BY DEF Scope, InSchema
<1> DEFINE A == ToSet(agenda)
           B == ToSet(agenda')
<1>6. \A q \in A : q = Head(agenda) \/ q \in B
  BY NextAsked
<1>7. Settled(engine, raw, A, what, k, o)
  BY <1>1, <1>2 DEF QuestionsAreSettled
<1>8. CASE Answered(engine, raw, A, what, k, o)
  <2>1. CASE Refreshed(what, k, o)
    <3>1. Answered(engine, raw', B, what, k, o)
      BY <1>8, <2>1, AnswersStay
    <3> QED
      BY <3>1 DEF Settled
  <2>2. CASE Pending(B, what, k)
    BY <2>2 DEF Settled
  <2> QED
    BY <1>3, <1>4, <2>1, <2>2
<1>9. CASE Pending(A, what, k)
  <2>1. PICK q \in A : q.what = what /\ k \in q.of
    BY <1>9 DEF Pending
  <2>2. CASE q \in B
    BY <2>1, <2>2 DEF Pending, Settled
  <2>3. CASE q = Head(agenda)
    <3>1. what = w /\ k \in Asked
      BY <2>1, <2>3, NextAsked DEF Asked
    <3> HIDE DEF B
    <3> QED
      BY <1>3, <3>1 DEF Settled, B
  <2> QED
    BY <1>6, <2>2, <2>3
<1>10. CASE \E first \in Wanted : Leads(engine, first, what) /\ Pending(A, first, k)
  <2>1. PICK first \in Wanted : Leads(engine, first, what) /\ Pending(A, first, k)
    BY <1>10
  <2>2. PICK q \in A : q.what = first /\ k \in q.of
    BY <2>1 DEF Pending
  <2>3. CASE q \in B
    BY <2>1, <2>2, <2>3 DEF Pending, Settled
  <2>4. CASE q = Head(agenda)
    <3>1. first = w /\ k \in Asked
      BY <2>2, <2>4, NextAsked DEF Asked
    <3>2. Pending(B, what, k)
      BY <1>3, <2>1, <3>1
    <3> QED
      BY <3>2 DEF Settled
  <2> QED
    BY <1>6, <2>3, <2>4
<1> QED
  BY <1>7, <1>8, <1>9, <1>10 DEF Settled

\* Only PRAGMA index_info asks about an index.
LEMMA NoIndexIsAsked ==
    ASSUME NEW w, Due(w), w # "index_info"
    PROVE  \A k, j : AskInfo({k}, j) # Head(agenda)
BY DEF Due, AskInfo

\* The list of tables answers who is one, and asks the rest.
LEMMA TablesSettle ==
    ASSUME IInv, QuestionsAreSettled, ListTables
    PROVE  QuestionsAreSettled'
<1> DEFINE listed == {k \in Asked : Live(k).kind = "table"}
           B == ToSet(agenda')
<1>1. /\ Due("tables") /\ UNCHANGED <<engine, pc, window>> /\ Adds({"tables", "info"})
      /\ raw'.tables = raw.tables \cup listed
      /\ \A k \in KeySet : raw'.info[k] =
            IF engine = "sqlite" /\ k \in listed THEN Live(k).info ELSE raw.info[k]
      /\ B = ToSet(Tail(agenda)) \cup Following(listed)
  BY TablesAreListed
<1>2. Asked \subseteq KeySet
  BY <1>1, NextAsked
<1>3. \A k \in KeySet : \A what : Refreshed(what, k, Live(k))
  BY <1>1, NoIndexIsAsked DEF Adds, Fields, Maps, Refreshed
<1>4. \A k \in Asked : Answered(engine, raw', B, "tables", k, Live(k))
  <2> SUFFICES ASSUME NEW k \in Asked PROVE Answered(engine, raw', B, "tables", k, Live(k))
    OBVIOUS
  <2> HIDE DEF B
  <2> QED
    BY <1>1, <1>2 DEF Answered
<1>5. ASSUME NEW k \in Asked, NEW what \in Topics(engine, Live(k)), Leads(engine, "tables", what)
      PROVE  Pending(B, what, k)
  <2>1. k \in listed
    <3>1. Live(k).kind = "table"
      BY <1>5 DEF Leads, Topics, FirstAsked
    <3> QED
      BY <3>1
  <2> HIDE DEF listed, B
  <2>2. Ask(what, {k}) \in Following(listed)
    <3>1. CASE engine = "sqlite"
      <4>1. what \in {"columns", "index_list", "foreign_keys"}
        BY <1>5, <3>1 DEF Leads
      <4> QED
        BY <2>1, <3>1, <4>1 DEF Following, AllAsked
    <3>2. CASE engine = "mysql"
      <4>1. what = "info"
        BY <1>5, <3>2 DEF Leads
      <4> QED
        BY <2>1, <3>2, <4>1 DEF Following, AllAsked
    <3> QED
      BY <1>5, <3>1, <3>2 DEF Leads
  <2>3. Ask(what, {k}).what = what /\ Ask(what, {k}).of = {k} /\ Ask(what, {k}) \in B
    BY <1>1, <2>2 DEF Ask
  <2> QED
    BY <2>3 DEF Pending
<1> HIDE DEF listed
<1>6. ToSet(Tail(agenda)) \subseteq B
  BY <1>1
<1> QED
  BY <1>1, <1>3, <1>4, <1>5, <1>6, QuerySettles

\* The list of views answers who is one, and on SQLite asks for its columns.
LEMMA ViewsSettle ==
    ASSUME IInv, QuestionsAreSettled, ListViews
    PROVE  QuestionsAreSettled'
<1> DEFINE listed == {k \in Asked : Live(k).kind = "view"}
           B == ToSet(agenda')
<1>1. /\ Due("views") /\ UNCHANGED <<engine, pc, window>> /\ Adds({"views"})
      /\ raw'.views = raw.views \cup listed
      /\ B = ToSet(Tail(agenda)) \cup
                (IF engine = "sqlite" THEN AllAsked({"view_columns"}, listed) ELSE {})
  BY ViewsAreListed
<1>2. Asked \subseteq KeySet
  BY <1>1, NextAsked
<1>3. \A k \in KeySet : \A what : Refreshed(what, k, Live(k))
  BY <1>1, NoIndexIsAsked DEF Adds, Fields, Maps, Refreshed
<1>4. \A k \in Asked : Answered(engine, raw', B, "views", k, Live(k))
  <2> SUFFICES ASSUME NEW k \in Asked PROVE Answered(engine, raw', B, "views", k, Live(k))
    OBVIOUS
  <2> HIDE DEF B
  <2> QED
    BY <1>1, <1>2 DEF Answered
<1>5. ASSUME NEW k \in Asked, NEW what \in Topics(engine, Live(k)), Leads(engine, "views", what)
      PROVE  Pending(B, what, k)
  <2>1. k \in listed /\ engine = "sqlite" /\ what = "view_columns"
    <3>1. Live(k).kind = "view" /\ engine = "sqlite" /\ what = "view_columns"
      BY <1>5 DEF Leads, Topics, FirstAsked
    <3> QED
      BY <3>1
  <2> HIDE DEF listed, B
  <2>2. Ask(what, {k}) \in AllAsked({"view_columns"}, listed)
    BY <2>1 DEF AllAsked
  <2>3. Ask(what, {k}).what = what /\ Ask(what, {k}).of = {k} /\ Ask(what, {k}) \in B
    BY <1>1, <2>1, <2>2 DEF Ask
  <2> QED
    BY <2>3 DEF Pending
<1> HIDE DEF listed
<1>6. ToSet(Tail(agenda)) \subseteq B
  BY <1>1
<1> QED
  BY <1>1, <1>3, <1>4, <1>5, <1>6, QuerySettles

\* A query that leads to no other and collects what the object has.
LEMMA RowsSettle ==
    ASSUME IInv, QuestionsAreSettled,
           NEW w \in Wanted \ {"tables", "views", "index_info"}, Send(w, Tail(agenda)),
           \A k \in KeySet : \A what \in Topics(engine, Live(k)) :
                Refreshed(what, k, Live(k)) \/ Pending(ToSet(Tail(agenda)), what, k),
           \A k \in Asked : w \in Topics(engine, Live(k)) =>
                Answered(engine, raw', ToSet(Tail(agenda)), w, k, Live(k))
    PROVE  QuestionsAreSettled'
<1>1. Due(w) /\ UNCHANGED <<engine, pc, window>> /\ agenda' = Tail(agenda)
  BY DEF Send
<1>2. \A what : ~Leads(engine, w, what)
  BY DEF Leads
<1>3. ToSet(agenda') = ToSet(Tail(agenda))
  BY <1>1
<1> QED
  BY <1>1, <1>2, <1>3, QuerySettles

\* The columns of a view.
LEMMA ViewColumnsSettle ==
    ASSUME IInv, QuestionsAreSettled, ReadViewColumns
    PROVE  QuestionsAreSettled'
<1>1. Send("view_columns", Tail(agenda)) /\ Due("view_columns")
  BY DEF ReadViewColumns, Send
<1>2. Adds({"view_columns"}) /\ Anew("view_columns", LAMBDA k : Live(k).columns)
  BY RowsAreAdded
<1>3. Asked \subseteq KeySet
  BY <1>1, NextAsked
<1>4. \A k \in KeySet : \A what : Refreshed(what, k, Live(k))
  BY <1>1, <1>2, NoIndexIsAsked DEF Adds, Anew, Fields, Maps, Refreshed
<1>5. \A k \in Asked : Answered(engine, raw', ToSet(Tail(agenda)), "view_columns", k, Live(k))
  BY <1>2, <1>3 DEF Answered, Anew
<1>6. "view_columns" \in Wanted \ {"tables", "views", "index_info"}
  BY DEF Wanted
<1> QED
  BY <1>1, <1>4, <1>5, <1>6, RowsSettle

\* The identity columns.
LEMMA IdentitiesSettle ==
    ASSUME IInv, QuestionsAreSettled, ReadIdentities
    PROVE  QuestionsAreSettled'
<1>1. Send("auto", Tail(agenda)) /\ Due("auto")
  BY DEF ReadIdentities, Send
<1>2. Adds({"auto"}) /\ Anew("auto", LAMBDA k : Live(k).auto)
  BY RowsAreAdded
<1>3. Asked \subseteq KeySet /\ engine = "sqlserver"
  BY <1>1, NextAsked DEF WellAsked
<1>4. \A k \in KeySet : \A what : Refreshed(what, k, Live(k))
  BY <1>1, <1>2, <1>3, NoIndexIsAsked DEF Adds, Anew, Fields, Maps, Refreshed, AutoRead
<1>5. \A k \in Asked : Answered(engine, raw', ToSet(Tail(agenda)), "auto", k, Live(k))
  BY <1>2, <1>3 DEF Answered, Anew, AutoRead
<1>6. "auto" \in Wanted \ {"tables", "views", "index_info"}
  BY DEF Wanted
<1> QED
  BY <1>1, <1>4, <1>5, <1>6, RowsSettle

\* The indexes.
LEMMA IndexesSettle ==
    ASSUME IInv, QuestionsAreSettled, ReadIndexes
    PROVE  QuestionsAreSettled'
<1>1. Send("indexes", Tail(agenda)) /\ Due("indexes")
  BY DEF ReadIndexes, Send
<1>2. Adds({"indexes"}) /\ Anew("indexes", LAMBDA k : RawIndexes(engine, Live(k)))
  BY RowsAreAdded
<1>3. Asked \subseteq KeySet
  BY <1>1, NextAsked
<1>4. \A k \in KeySet : \A what : Refreshed(what, k, Live(k))
  BY <1>1, <1>2, NoIndexIsAsked DEF Adds, Anew, Fields, Maps, Refreshed
<1>5. \A k \in Asked : Answered(engine, raw', ToSet(Tail(agenda)), "indexes", k, Live(k))
  BY <1>2, <1>3 DEF Answered, Anew
<1>6. "indexes" \in Wanted \ {"tables", "views", "index_info"}
  BY DEF Wanted
<1> QED
  BY <1>1, <1>4, <1>5, <1>6, RowsSettle

\* The foreign keys.
LEMMA ForeignKeysSettle ==
    ASSUME IInv, QuestionsAreSettled, ReadForeignKeys
    PROVE  QuestionsAreSettled'
<1>1. Send("foreign_keys", Tail(agenda)) /\ Due("foreign_keys")
  BY DEF ReadForeignKeys, Send
<1>2. Adds({"foreign_keys"}) /\ Anew("foreign_keys", LAMBDA k : {RawForeignKey(fk) : fk \in Live(k).foreign_keys})
  BY RowsAreAdded
<1>3. Asked \subseteq KeySet
  BY <1>1, NextAsked
<1>4. \A k \in KeySet : {RawForeignKey(fk) : fk \in Live(k).foreign_keys} = KeysRead(Live(k))
  BY DEF KeysRead
<1>5. \A k \in KeySet : \A what : Refreshed(what, k, Live(k))
  BY <1>1, <1>2, <1>4, NoIndexIsAsked DEF Adds, Anew, Fields, Maps, Refreshed
<1>6. \A k \in Asked : Answered(engine, raw', ToSet(Tail(agenda)), "foreign_keys", k, Live(k))
  BY <1>2, <1>3, <1>4 DEF Answered, Anew
<1>7. "foreign_keys" \in Wanted \ {"tables", "views", "index_info"}
  BY DEF Wanted
<1> QED
  BY <1>1, <1>5, <1>6, <1>7, RowsSettle

\* The comments and the storage.
LEMMA InfoSettle ==
    ASSUME IInv, QuestionsAreSettled, ReadInfo
    PROVE  QuestionsAreSettled'
<1>1. Send("info", Tail(agenda)) /\ Due("info")
  BY DEF ReadInfo, Send
<1>2. Adds({"info"}) /\ Anew("info", LAMBDA k : Live(k).info)
  BY RowsAreAdded
<1>3. Asked \subseteq KeySet
  BY <1>1, NextAsked
<1>4. \A k \in KeySet : \A what : Refreshed(what, k, Live(k))
  BY <1>1, <1>2, NoIndexIsAsked DEF Adds, Anew, Fields, Maps, Refreshed
<1>5. \A k \in Asked : Answered(engine, raw', ToSet(Tail(agenda)), "info", k, Live(k))
  BY <1>2, <1>3 DEF Answered, Anew
<1>6. "info" \in Wanted \ {"tables", "views", "index_info"}
  BY DEF Wanted
<1> QED
  BY <1>1, <1>4, <1>5, <1>6, RowsSettle

\* The columns; SQL Server has still to be asked which are identities.
LEMMA ColumnsSettle ==
    ASSUME IInv, QuestionsAreSettled, IdentitiesFollow, ReadColumns
    PROVE  QuestionsAreSettled'
<1>1. Send("columns", Tail(agenda)) /\ Due("columns")
  BY DEF ReadColumns, Send
<1>2. /\ Adds({"columns", "pk", "auto"})
      /\ Anew("columns", LAMBDA k : Live(k).columns)
      /\ Anew("pk", LAMBDA k : IF engine = "sqlite" THEN Live(k).primary ELSE {})
      /\ Anew("auto", LAMBDA k : CASE engine = "sqlite" -> SqliteAuto(Live(k))
                                   [] engine = "sqlserver" -> {}
                                   [] OTHER -> Live(k).auto)
  BY RowsAreAdded
<1>3. Asked \subseteq KeySet /\ engine \in AllEngines
  BY <1>1, NextAsked, EnginesAssumption DEF IInv
<1>4. ASSUME engine # "sqlserver", NEW k \in KeySet
      PROVE  raw'["auto"][k] = IF k \in Asked THEN AutoRead(engine, Live(k)) ELSE raw["auto"][k]
  <2> DEFINE auto == CASE engine = "sqlite" -> SqliteAuto(Live(k))
                       [] engine = "sqlserver" -> {}
                       [] OTHER -> Live(k).auto
  <2>1. raw'["auto"][k] = IF k \in Asked THEN auto ELSE raw["auto"][k]
    BY <1>2 DEF Anew
  <2>2. auto = AutoRead(engine, Live(k))
    BY <1>4 DEF AutoRead
  <2> HIDE DEF auto
  <2> QED
    BY <2>1, <2>2
<1>5. ASSUME NEW k \in KeySet, NEW what, what # "auto" \/ engine # "sqlserver" \/ k \notin Asked
      PROVE  Refreshed(what, k, Live(k))
  <2>1. what = "auto" \/ engine # "sqlserver" => raw'["auto"][k] \in {raw["auto"][k], AutoRead(engine, Live(k))}
    <3>1. CASE engine # "sqlserver"
      BY <1>4, <3>1
    <3>2. CASE engine = "sqlserver" /\ what # "auto"
      BY <3>2
    <3>3. CASE k \notin Asked
      BY <1>2, <3>3 DEF Anew
    <3> QED
      BY <1>5, <3>1, <3>2, <3>3
  <2> QED
    BY <1>1, <1>2, <2>1, NoIndexIsAsked DEF Adds, Anew, Fields, Maps, Refreshed
<1>6. ASSUME NEW k \in Asked, engine = "sqlserver" PROVE Pending(ToSet(Tail(agenda)), "auto", k)
  <2> DEFINE n == Len(agenda)
             t == Tail(agenda)
  <2>1. agenda \in Seq(Queries) /\ agenda # <<>> /\ Head(agenda).what = "columns" /\ k \in Head(agenda).of
    BY <1>1 DEF Due, IInv, Asked
  <2>2. /\ n \in Nat \ {0} /\ DOMAIN agenda = 1 .. n /\ Head(agenda) = agenda[1]
        /\ DOMAIN t = 1 .. n - 1 /\ \A i \in 1 .. n - 1 : t[i] = agenda[i + 1]
    BY <2>1
  <2>3. 1 \in DOMAIN agenda /\ agenda[1].what = "columns"
    BY <2>1, <2>2
  <2> HIDE DEF t, n
  <2>4. PICK j \in 1 .. n : j > 1 /\ agenda[j].what = "auto" /\ agenda[1].of \subseteq agenda[j].of
    BY <1>6, <2>2, <2>3 DEF IdentitiesFollow
  <2>5. j - 1 \in 1 .. n - 1 /\ (j - 1) + 1 = j
    BY <2>2, <2>4
  <2>6. t[j - 1] = agenda[j] /\ t[j - 1] \in ToSet(t)
    BY <2>2, <2>5 DEF ToSet
  <2> QED
    BY <2>1, <2>2, <2>4, <2>6 DEF Pending, t
<1>7. \A k \in Asked : Answered(engine, raw', ToSet(Tail(agenda)), "columns", k, Live(k))
  <2> SUFFICES ASSUME NEW k \in Asked
               PROVE  Answered(engine, raw', ToSet(Tail(agenda)), "columns", k, Live(k))
    OBVIOUS
  <2>1. /\ raw'["columns"][k] = Live(k).columns
        /\ engine = "sqlite" => raw'["pk"][k] = Live(k).primary
    BY <1>2, <1>3 DEF Anew
  <2>2. engine # "sqlserver" => raw'["auto"][k] = AutoRead(engine, Live(k))
    BY <1>3, <1>4
  <2> QED
    BY <2>1, <2>2 DEF Answered
<1>8. \A k \in KeySet : \A what \in Topics(engine, Live(k)) :
        Refreshed(what, k, Live(k)) \/ Pending(ToSet(Tail(agenda)), what, k)
  BY <1>5, <1>6
<1>9. "columns" \in Wanted \ {"tables", "views", "index_info"}
  BY DEF Wanted
<1> QED
  BY <1>1, <1>7, <1>8, <1>9, RowsSettle

\* The names of the indexes: each is asked about.
LEMMA IndexListSettles ==
    ASSUME IInv, QuestionsAreSettled, ListIndexes
    PROVE  QuestionsAreSettled'
<1> DEFINE listed == UNION {Live(k).indexes : k \in Asked}
           B == ToSet(agenda')
<1>1. /\ Due("index_list") /\ UNCHANGED <<engine, pc, window, raw>>
      /\ B = {AskInfo(Asked, i) : i \in listed} \cup ToSet(Tail(agenda))
  BY IndexesAreListed
<1>2. PICK n \in KeySet : Asked = {n}
  BY <1>1, NextAsked DEF WellAsked, Asked
<1>3. \A k \in KeySet : \A what : Refreshed(what, k, Live(k))
  BY <1>1, NoIndexIsAsked DEF Refreshed
<1>4. \A k \in Asked : Answered(engine, raw', B, "index_list", k, Live(k))
  <2>1. \A j \in Live(n).indexes : AskInfo({n}, j) \in B
    BY <1>1, <1>2
  <2> HIDE DEF B
  <2> QED
    BY <1>2, <2>1 DEF Answered
<1>5. \A what : ~Leads(engine, "index_list", what)
  BY DEF Leads
<1> HIDE DEF listed
<1>6. ToSet(Tail(agenda)) \subseteq B
  BY <1>1
<1> QED
  BY <1>1, <1>3, <1>4, <1>5, <1>6, QuerySettles

\* The columns of an index: those of a table that has not changed are its own.
LEMMA IndexInfoSettles ==
    ASSUME IInv, QuestionsAreSettled, ReadIndexInfo
    PROVE  QuestionsAreSettled'
<1>1. /\ Due("index_info") /\ UNCHANGED <<engine, pc, window>> /\ agenda' = Tail(agenda)
      /\ Adds({"indexes"})
  BY IndexIsRead DEF ReadIndexInfo, Send
<1>2. PICK n \in KeySet :
        /\ Asked = {n}
        /\ Anew("indexes", LAMBDA k : raw.indexes[k] \cup Found(n, Head(agenda).list))
  BY IndexIsRead
<1>3. engine = "sqlite" /\ engine \in AllEngines
  BY <1>1, NextAsked DEF WellAsked, AllEngines
<1>4. ASSUME NEW k \in KeySet, NEW what PROVE Refreshed(what, k, Live(k))
  <2>1. raw["indexes"][k] \subseteq raw'["indexes"][k]
    BY <1>2 DEF Anew
  <2>2. ASSUME NEW j \in Live(k).indexes, RawIndex(engine, j).columns # <<>>, AskInfo({k}, j) = Head(agenda)
        PROVE  RawIndex(engine, j) \in raw'["indexes"][k]
    <3>1. Head(agenda).list = j /\ Asked = {k}
      BY <2>2 DEF AskInfo, Asked
    <3>2. k = n
      BY <1>2, <3>1
    <3>3. raw'["indexes"][k] = raw["indexes"][k] \cup Found(k, j)
      BY <1>2, <3>1, <3>2 DEF Anew
    <3>4. RawIndex(engine, j) \in Found(k, j)
      <4> DEFINE r == RawIndex(engine, j)
                 All == UNION {RawIndexes(engine, Live(m)) : m \in InSchema(k[1])}
      <4>2. r \in RawIndexes(engine, Live(k))
        BY <2>2, NamedIndexHasRow
      <4>3. k \in InSchema(k[1])
        BY DEF InSchema
      <4>4. r \in All
        <5> HIDE DEF r
        <5> QED
          BY <4>2, <4>3
      <4>5. [r EXCEPT !.columns = r.columns] = r
        BY DEF RawIndex
      <4>6. Found(k, j) = {[r EXCEPT !.columns = x.columns] : x \in {y \in All : y.name = r.name}}
        BY DEF Found
      <4> HIDE DEF r, All
      <4> QED
        BY <4>4, <4>5, <4>6 DEF r
    <3> QED
      BY <3>3, <3>4
  <2> QED
    BY <1>1, <1>3, <2>1, <2>2 DEF Adds, Fields, Maps, Refreshed
<1>5. \A what : ~Leads(engine, "index_info", what)
  BY DEF Leads
<1>6. \A k : "index_info" \notin Topics(engine, Live(k))
  BY <1>3 DEF Topics, FirstAsked
<1>7. ToSet(Tail(agenda)) \subseteq ToSet(agenda')
  BY <1>1
<1> QED
  BY <1>1, <1>4, <1>5, <1>6, <1>7, QuerySettles

\* Every question is settled from the first query to the last.
THEOREM QuestionsAreAlwaysSettled == Spec => []QuestionsAreSettled
<1>1. Init => QuestionsAreSettled
  BY DEF Init, QuestionsAreSettled
<1>2. IInv /\ IdentitiesFollow /\ QuestionsAreSettled /\ [Next]_vars => QuestionsAreSettled'
  <2> SUFFICES ASSUME IInv, IdentitiesFollow, QuestionsAreSettled, [Next]_vars
               PROVE  QuestionsAreSettled'
    OBVIOUS
  <2>1. ASSUME Migrate PROVE QuestionsAreSettled'
    <3>1. UNCHANGED <<engine, pc, agenda, raw>>
      BY <2>1 DEF Migrate, collected
    <3>2. CASE pc = "inspecting"
      <4> SUFFICES ASSUME NEW k \in Scope(engine), NEW o \in Seen(window', k), Seen(window', k) = {o},
                          NEW what \in Topics(engine, o)
                   PROVE  Settled(engine, raw, ToSet(agenda), what, k, o)
        BY <3>1 DEF QuestionsAreSettled
      <4>1. window \subseteq window' /\ catalog \in window
        BY <2>1, <3>2 DEF Migrate, IInv
      <4>2. Seen(window, k) = {o}
        <5>1. Seen(window, k) \subseteq {o} /\ catalog[k] \in Seen(window, k)
          BY <4>1 DEF Seen
        <5> QED
          BY <5>1
      <4> QED
        BY <3>2, <4>2 DEF QuestionsAreSettled
    <3>3. CASE pc # "inspecting"
      <4>1. window' = window
        BY <2>1, <3>3 DEF Migrate
      <4> QED
        BY <3>1, <4>1 DEF QuestionsAreSettled
    <3> QED
      BY <3>2, <3>3
  <2>2. ASSUME Begin PROVE QuestionsAreSettled'
    <3>1. ToSet(agenda') = FirstQueries(engine) /\ engine' = engine
      BY <2>2, AgendaIs, EnginesAssumption DEF Begin, IInv
    <3>2. engine \in AllEngines
      BY EnginesAssumption DEF IInv
    <3>3. ASSUME NEW k \in Scope(engine), NEW w \in FirstAsked(engine)
          PROVE  Pending(FirstQueries(engine), w, k)
      <4>1. CASE engine = "sqlite"
        <5> DEFINE q == Ask(w, InSchema(k[1]))
        <5>1. k \in KeySet /\ k \in InSchema(k[1])
          BY DEF Scope, InSchema
        <5>2. q \in FirstQueries(engine)
          BY <4>1, <5>1 DEF FirstQueries
        <5>3. q.what = w /\ k \in q.of
          BY <5>1 DEF Ask
        <5> HIDE DEF q
        <5> QED
          BY <5>2, <5>3 DEF Pending
      <4>2. CASE engine # "sqlite"
        <5> DEFINE q == Ask(w, Scope(engine))
        <5>1. q \in FirstQueries(engine)
          BY <4>2 DEF FirstQueries
        <5>2. q.what = w /\ k \in q.of
          BY DEF Ask
        <5> HIDE DEF q
        <5> QED
          BY <5>1, <5>2 DEF Pending
      <4> QED
        BY <4>1, <4>2
    <3>4. ASSUME NEW o, NEW what \in Topics(engine, o)
          PROVE  what \in FirstAsked(engine) \/ \E w \in FirstAsked(engine) \cap Wanted : Leads(engine, w, what)
      BY <3>4 DEF Topics, FirstAsked, Leads, Wanted
    <3>5. ASSUME NEW k \in Scope(engine), NEW o, NEW what \in Topics(engine, o)
          PROVE  Settled(engine, raw', FirstQueries(engine), what, k, o)
      BY <3>3, <3>4 DEF Settled
    <3> QED
      BY <3>1, <3>5 DEF QuestionsAreSettled
  <2>3. ASSUME Return PROVE QuestionsAreSettled'
    BY <2>3 DEF Return, QuestionsAreSettled
  <2>4. ASSUME Fail PROVE QuestionsAreSettled'
    BY <2>4 DEF Fail, QuestionsAreSettled
  <2>5. ASSUME UNCHANGED vars PROVE QuestionsAreSettled'
    BY <2>5 DEF vars, collected, QuestionsAreSettled
  <2> QED
    BY <2>1, <2>2, <2>3, <2>4, <2>5, TablesSettle, ViewsSettle, ColumnsSettle, ViewColumnsSettle,
       IdentitiesSettle, IndexesSettle, IndexListSettles, IndexInfoSettles, ForeignKeysSettle,
       InfoSettle DEF Next
<1> QED
  BY <1>1, <1>2, InspectionInvariant, IdentitiesAlwaysFollow, PTL DEF Spec

-----------------------------------------------------------------------------
(* Exactness. *)

\* An index on one column, which is no expression, has this column.
LEMMA OneColumnIndex ==
    ASSUME NEW n, n # Expr
    PROVE  IndexColumns(<<n>>) = <<n>>
<1> DEFINE list == <<n>>
           M == ToSet(list) \ {Expr}
           kept == Kept(list, M)
<1>1. list \in Seq({n}) /\ Len(list) = 1 /\ ToSet(list) = {n} /\ IndexColumns(list) = kept
  BY DEF ToSet, IndexColumns
<1>2. ToSet(list) \cap M = {n}
  BY <1>1
<1> HIDE DEF list, M
<1>3. kept \in Seq({n}) /\ ToSet(kept) = {n} /\ Len(kept) <= 1
  BY <1>1, <1>2, KeptMembers
<1> HIDE DEF kept
<1>4. Len(kept) \in Nat /\ DOMAIN kept = 1 .. Len(kept) /\ \A i \in 1 .. Len(kept) : kept[i] = n
  BY <1>3
<1>5. Len(kept) # 0
  BY <1>3, <1>4 DEF ToSet
<1>6. Len(kept) = 1 /\ kept[1] = n
  BY <1>3, <1>4, <1>5
<1>7. kept = <<n>>
  BY <1>3, <1>6
<1> QED
  BY <1>1, <1>7 DEF list

\* An index row and the index it is of.
IsRowOf(i, j) ==
    /\ i.name = j.name /\ i.unique = (j.kind # "plain") /\ i.primary = (j.kind = "primary")
    /\ i.columns = RawIndex(engine, j).columns

HasRow(j) == RawIndex(engine, j).columns # <<>>

\* The rows of the indexes are those of the object.
RowsOf(rows, o) ==
    /\ \A i \in rows : \E j \in o.indexes : HasRow(j) /\ IsRowOf(i, j)
    /\ \A j \in o.indexes : HasRow(j) => \E i \in rows : IsRowOf(i, j)

\* What one query reads of the indexes of an object.
LEMMA RowsOfIndexes ==
    ASSUME NEW o
    PROVE  RowsOf(RawIndexes(engine, o), o)
<1>1. \A j \in o.indexes : IsRowOf(RawIndex(engine, j), j)
  BY RowNames DEF IsRowOf
<1>2. \A j \in o.indexes : HasRow(j) => RawIndex(engine, j) \in RawIndexes(engine, o)
  BY NamedIndexHasRow DEF HasRow
<1>3. \A i \in RawIndexes(engine, o) : \E j \in o.indexes : i = RawIndex(engine, j) /\ HasRow(j)
  BY DEF RawIndexes, HasRow
<1> QED
  BY <1>1, <1>2, <1>3 DEF RowsOf

\* The columns of an index that a driver reads as it is.
LEMMA LegibleIndex ==
    ASSUME engine \in Engines, NEW o, WellFormed(o), Legible(o), NEW j \in o.indexes
    PROVE  RawIndex(engine, j).columns = IndexColumns(j.key)
<1>1. engine \in AllEngines
  BY EnginesAssumption
<1>2. j.include = <<>>
  BY DEF Legible
<1> QED
  BY <1>1, <1>2, RawIndexIs

\* The key is found in the rows of its index, where there is one.
LEMMA KeyIsFound ==
    ASSUME engine \in Engines, NEW o, WellFormed(o), NEW rows, RowsOf(rows, o), engine # "sqlite"
    PROVE  /\ \A n \in o.primary : is_primary_key(rows, n)
           /\ \A n \in o.columns : is_primary_key(rows, n) => o.primary # {}
<1>1. engine \in AllEngines
  BY EnginesAssumption
<1>2. ASSUME NEW n \in o.primary PROVE is_primary_key(rows, n)
  <2>1. PICK j \in o.indexes : j.kind = "primary"
    BY <1>2 DEF WellFormed
  <2>2. n \in ToSet(j.key) \ {Expr}
    BY <2>1, <1>2 DEF WellFormed
  <2>3. n \in ToSet(RawIndex(engine, j).columns)
    BY <1>1, <2>2, RawIndexIs
  <2>4. HasRow(j)
    BY <2>3 DEF HasRow, ToSet
  <2>5. PICK i \in rows : IsRowOf(i, j)
    BY <2>4 DEF RowsOf
  <2> QED
    BY <2>1, <2>3, <2>5 DEF IsRowOf, is_primary_key
<1>3. ASSUME NEW n \in o.columns, is_primary_key(rows, n) PROVE o.primary # {}
  <2>1. PICK i \in rows : i.primary
    BY <1>3 DEF is_primary_key
  <2>2. PICK j \in o.indexes : IsRowOf(i, j)
    BY DEF RowsOf
  <2> QED
    BY <2>1, <2>2 DEF IsRowOf, WellFormed
<1> QED
  BY <1>2, <1>3

\* The flags of the columns are those of the object.
LEMMA FlagsAreExact ==
    ASSUME engine \in Engines, NEW o, WellFormed(o), Legible(o), NEW pk, NEW auto, NEW rows,
           engine = "sqlite" => pk = o.primary, auto = o.auto, RowsOf(rows, o)
    PROVE  to_columns(engine, o.columns, pk, auto, rows) =
                [columns |-> o.columns, primary |-> o.primary, unique |-> UniqueAlone(o), auto |-> o.auto]
<1>1. /\ engine \in AllEngines
      /\ \A j \in o.indexes : /\ RawIndex(engine, j).columns = IndexColumns(j.key)
                              /\ HasRow(j) <=> IndexColumns(j.key) # <<>>
  BY LegibleIndex, EnginesAssumption DEF HasRow
<1>2. o.primary \subseteq o.columns /\ Expr \notin o.columns /\ o.auto \subseteq o.columns
  BY DEF WellFormed
<1>3. ASSUME engine # "sqlite" PROVE {n \in o.columns : is_primary_key(rows, n)} = o.primary
  <2>1. ASSUME NEW n \in o.columns, is_primary_key(rows, n) PROVE n \in o.primary
    <3>1. PICK i \in rows : i.primary /\ n \in ToSet(i.columns)
      BY <2>1 DEF is_primary_key
    <3>2. PICK j \in o.indexes : IsRowOf(i, j)
      BY DEF RowsOf
    <3>3. ToSet(IndexColumns(j.key)) = ToSet(j.key) \ {Expr}
      BY <1>1, RawIndexIs
    <3>4. j.kind = "primary" /\ n \in ToSet(j.key)
      BY <1>1, <3>1, <3>2, <3>3 DEF IsRowOf
    <3> QED
      BY <3>4 DEF WellFormed
  <2>2. \A n \in o.primary : is_primary_key(rows, n)
    BY <1>3, KeyIsFound
  <2> QED
    BY <1>2, <2>1, <2>2
<1>4. {n \in o.columns : is_unique_column(rows, n)} \cup o.primary = UniqueAlone(o)
  <2>1. ASSUME NEW n \in o.columns, is_unique_column(rows, n) PROVE n \in UniqueAlone(o)
    <3>1. PICK i \in rows : i.unique /\ i.columns = <<n>>
      BY <2>1 DEF is_unique_column
    <3>2. PICK j \in o.indexes : IsRowOf(i, j)
      BY DEF RowsOf
    <3>3. j.kind # "plain" /\ IndexColumns(j.key) = <<n>>
      BY <1>1, <3>1, <3>2 DEF IsRowOf
    <3> QED
      BY <2>1, <3>3 DEF Legible, UniqueAlone
  <2>2. ASSUME NEW n \in o.primary PROVE n \in UniqueAlone(o)
    <3>1. o.primary = {n}
      BY DEF Legible
    <3> QED
      BY <1>2, <3>1 DEF UniqueAlone
  <2>3. ASSUME NEW n \in UniqueAlone(o), n \notin o.primary PROVE n \in o.columns /\ is_unique_column(rows, n)
    <3>1. n \in o.columns /\ o.primary # {n}
      BY <2>3 DEF UniqueAlone
    <3>2. PICK j \in o.indexes : j.kind # "plain" /\ j.key = <<n>>
      BY <2>3, <3>1 DEF UniqueAlone
    <3>3. IndexColumns(j.key) = <<n>>
      BY <1>2, <3>1, <3>2, OneColumnIndex
    <3>4. HasRow(j)
      BY <1>1, <3>3
    <3>5. PICK i \in rows : IsRowOf(i, j)
      BY <3>4 DEF RowsOf
    <3> QED
      BY <1>1, <3>1, <3>2, <3>3, <3>5 DEF IsRowOf, is_unique_column
  <2> QED
    BY <2>1, <2>2, <2>3
<1>5. (IF engine = "sqlite" THEN pk ELSE {n \in o.columns : is_primary_key(rows, n)}) = o.primary
  BY <1>3
<1>6. auto \cap o.columns = o.auto
  BY <1>2
<1> QED
  BY <1>4, <1>5, <1>6 DEF to_columns

\* The documented indexes of an object are the ones its rows make.
LEMMA IndexesAreExact ==
    ASSUME engine \in Engines, NEW o, WellFormed(o), Legible(o), NEW rows, RowsOf(rows, o)
    PROVE  {Index(i) : i \in rows} = TableImage(o).indexes
<1> DEFINE Image(j) == [name |-> j.name, unique |-> j.kind # "plain", columns |-> IndexColumns(j.key)]
           Named == {j \in o.indexes : IndexColumns(j.key) # <<>>}
<1>1. TableImage(o).indexes = {Image(j) : j \in Named}
  BY ImageIs
<1>2. \A j \in o.indexes : RawIndex(engine, j).columns = IndexColumns(j.key)
  BY LegibleIndex
<1>3. ASSUME NEW i, NEW j \in Named, IsRowOf(i, j) PROVE Index(i) = Image(j)
  BY <1>2, <1>3 DEF IsRowOf, Index
<1>4. /\ \A i \in rows : \E j \in Named : IsRowOf(i, j)
      /\ \A j \in Named : \E i \in rows : IsRowOf(i, j)
  BY <1>2 DEF RowsOf, HasRow
<1> HIDE DEF Image, Named
<1> QED
  BY <1>1, <1>3, <1>4

\* They are as many as its indexes at most.
LEMMA IndexesAreFinite ==
    ASSUME NEW o, IsFiniteSet(o.indexes), NEW rows, RowsOf(rows, o)
    PROVE  IsFiniteSet({Index(i) : i \in rows})
<1> DEFINE row(j) == [name |-> j.name, unique |-> j.kind # "plain", columns |-> RawIndex(engine, j).columns]
           made == {row(j) : j \in o.indexes}
           f == [j \in o.indexes |-> row(j)]
<1>1. ASSUME NEW i \in rows PROVE Index(i) \in made
  <2>1. PICK j \in o.indexes : IsRowOf(i, j)
    BY DEF RowsOf
  <2>2. Index(i) = row(j)
    BY <2>1 DEF IsRowOf, Index
  <2> HIDE DEF row
  <2> QED
    BY <2>2
<1>2. f \in [o.indexes -> made] /\ \A x \in made : \E j \in o.indexes : f[j] = x
  <2> HIDE DEF row
  <2> QED
    OBVIOUS
<1> HIDE DEF made, f
<1>3. f \in Surjection(o.indexes, made)
  BY <1>2 DEF Surjection
<1>4. IsFiniteSet(made)
  BY <1>3, FS_Surjection
<1>5. {Index(i) : i \in rows} \subseteq made
  BY <1>1
<1> QED
  BY <1>4, <1>5, FS_Subset

\* What was collected of a table that has not changed is what is read of it.
LEMMA TableRowsAreExact ==
    ASSUME AllWellFormed(Catalogs), IInv, RowsWereTrue, QuestionsAreSettled, pc = "done",
           NEW k \in Scope(engine), NEW o \in Seen(window, k), Seen(window, k) = {o},
           o.kind = "table"
    PROVE  /\ k \in raw.tables
           /\ raw.columns[k] = o.columns /\ raw.auto[k] = AutoRead(engine, o)
           /\ engine = "sqlite" => raw.pk[k] = o.primary
           /\ RowsOf(raw.indexes[k], o)
           /\ raw.foreign_keys[k] = KeysRead(o) /\ raw.info[k] = o.info
<1>1. engine \in AllEngines /\ k \in KeySet
  BY EnginesAssumption DEF IInv, Scope, InSchema
<1>2. ToSet(agenda) = {}
  BY DEF IInv, ToSet
<1>3. \A what \in Topics(engine, o) : Answered(engine, raw, {}, what, k, o)
  BY <1>2 DEF QuestionsAreSettled, Settled, Pending
<1>4. /\ {"tables", "columns", "foreign_keys"} \subseteq Topics(engine, o)
      /\ engine # "sqlite" => {"indexes", "info"} \subseteq Topics(engine, o)
      /\ engine = "sqlite" => "index_list" \in Topics(engine, o)
      /\ engine = "sqlserver" => "auto" \in Topics(engine, o)
  BY <1>1 DEF Topics, FirstAsked, AllEngines
<1>5. /\ k \in raw.tables
      /\ raw.columns[k] = o.columns
      /\ engine = "sqlite" => raw.pk[k] = o.primary
      /\ raw.foreign_keys[k] = KeysRead(o)
  <2>1. /\ Answered(engine, raw, {}, "tables", k, o) /\ Answered(engine, raw, {}, "columns", k, o)
        /\ Answered(engine, raw, {}, "foreign_keys", k, o)
    BY <1>3, <1>4
  <2> QED
    BY <2>1 DEF Answered
<1>6. raw.auto[k] = AutoRead(engine, o)
  <2>1. CASE engine = "sqlserver"
    <3>1. Answered(engine, raw, {}, "auto", k, o)
      BY <1>3, <1>4, <2>1
    <3> QED
      BY <3>1 DEF Answered
  <2>2. CASE engine # "sqlserver"
    <3>1. Answered(engine, raw, {}, "columns", k, o)
      BY <1>3, <1>4
    <3> QED
      BY <2>2, <3>1 DEF Answered
  <2> QED
    BY <2>1, <2>2
<1>7. raw.info[k] = o.info
  <2>1. CASE engine = "sqlite"
    <3>1. Answered(engine, raw, {}, "tables", k, o)
      BY <1>3, <1>4
    <3> QED
      BY <2>1, <3>1 DEF Answered
  <2>2. CASE engine # "sqlite"
    <3>1. Answered(engine, raw, {}, "info", k, o)
      BY <1>3, <1>4, <2>2
    <3> QED
      BY <3>1 DEF Answered
  <2> QED
    BY <2>1, <2>2
<1>8. RowsOf(raw.indexes[k], o)
  <2>1. CASE engine # "sqlite"
    <3>1. Answered(engine, raw, {}, "indexes", k, o)
      BY <1>3, <1>4, <2>1
    <3>2. raw.indexes[k] = RawIndexes(engine, o)
      BY <3>1 DEF Answered
    <3> QED
      BY <3>2, RowsOfIndexes
  <2>2. CASE engine = "sqlite"
    <3>1. Answered(engine, raw, {}, "index_list", k, o)
      BY <1>3, <1>4, <2>2
    <3>2. ASSUME NEW j \in o.indexes, HasRow(j) PROVE \E i \in raw.indexes[k] : IsRowOf(i, j)
      <4>1. RawIndex(engine, j) \in raw.indexes[k]
        BY <3>1, <3>2 DEF Answered, HasRow
      <4>2. IsRowOf(RawIndex(engine, j), j)
        BY RowNames DEF IsRowOf
      <4> QED
        BY <4>1, <4>2
    <3>3. ASSUME NEW i \in raw.indexes[k] PROVE \E j \in o.indexes : HasRow(j) /\ IsRowOf(i, j)
      <4>1. WasIndex(engine, window, k, i)
        <5>1. WasTrue(engine, window, "indexes", k, raw["indexes"][k])
          BY <1>1 DEF RowsWereTrue, Maps
        <5> QED
          BY <5>1 DEF WasTrue
      <4>2. PICK j \in o.indexes : /\ i.name = j.name /\ i.unique = (j.kind # "plain")
                                   /\ i.primary = (j.kind = "primary")
        BY <4>1 DEF WasIndex
      <4>3. PICK n \in InSchema(k[1]) : \E p \in Seen(window, n) : \E l \in p.indexes :
                i.name = l.name /\ i.columns = RawIndex(engine, l).columns
        BY <2>2, <4>1 DEF WasIndex
      <4>4. PICK c \in window : \E l \in c[n].indexes :
                i.name = l.name /\ i.columns = RawIndex(engine, l).columns
        BY <4>3 DEF Seen
      <4> PICK l \in c[n].indexes : i.name = l.name /\ i.columns = RawIndex(engine, l).columns
        BY <4>4
      <4>5. c[k] = o
        BY DEF Seen
      <4>6. OwnIndexNames(c)
        BY DEF AllWellFormed, IInv
      <4>7. "sqlite" \in Engines
        BY <2>2 DEF IInv
      <4>8. n \in KeySet /\ n[1] = k[1]
        BY DEF InSchema
      <4>9. l = j
        BY <1>1, <4>2, <4>5, <4>6, <4>7, <4>8, ZenonT(60) DEF OwnIndexNames
      <4> QED
        BY <4>1, <4>2, <4>9 DEF WasIndex, IsRowOf, HasRow
    <3> QED
      BY <3>2, <3>3 DEF RowsOf
  <2> QED
    BY <2>1, <2>2
<1> QED
  BY <1>5, <1>6, <1>7, <1>8

\* What was collected of a view that has not changed is what is read of it.
LEMMA ViewRowsAreExact ==
    ASSUME IInv, QuestionsAreSettled, pc = "done",
           NEW k \in Scope(engine), NEW o \in Seen(window, k), Seen(window, k) = {o},
           o.kind = "view"
    PROVE  /\ k \in raw.views
           /\ engine = "sqlite" => raw.view_columns[k] = o.columns
           /\ engine # "sqlite" => /\ raw.columns[k] = o.columns /\ raw.auto[k] = AutoRead(engine, o)
                                   /\ RowsOf(raw.indexes[k], o)
<1>1. engine \in AllEngines
  BY EnginesAssumption DEF IInv
<1>2. ToSet(agenda) = {}
  BY DEF IInv, ToSet
<1>3. \A what \in Topics(engine, o) : Answered(engine, raw, {}, what, k, o)
  BY <1>2 DEF QuestionsAreSettled, Settled, Pending
<1>4. /\ "views" \in Topics(engine, o)
      /\ engine # "sqlite" => {"columns", "indexes"} \subseteq Topics(engine, o)
      /\ engine = "sqlite" => "view_columns" \in Topics(engine, o)
      /\ engine = "sqlserver" => "auto" \in Topics(engine, o)
  BY <1>1 DEF Topics, FirstAsked, AllEngines
<1>5. k \in raw.views
  <2>1. Answered(engine, raw, {}, "views", k, o)
    BY <1>3, <1>4
  <2> QED
    BY <2>1 DEF Answered
<1>6. ASSUME engine = "sqlite" PROVE raw.view_columns[k] = o.columns
  <2>1. Answered(engine, raw, {}, "view_columns", k, o)
    BY <1>3, <1>4, <1>6
  <2> QED
    BY <2>1 DEF Answered
<1>7. ASSUME engine # "sqlite"
      PROVE  raw.columns[k] = o.columns /\ raw.auto[k] = AutoRead(engine, o) /\ RowsOf(raw.indexes[k], o)
  <2>1. Answered(engine, raw, {}, "columns", k, o) /\ Answered(engine, raw, {}, "indexes", k, o)
    BY <1>3, <1>4, <1>7
  <2>2. raw.columns[k] = o.columns /\ raw.indexes[k] = RawIndexes(engine, o)
    BY <2>1 DEF Answered
  <2>4. RowsOf(raw.indexes[k], o)
    BY <2>2, RowsOfIndexes
  <2>5. CASE engine = "sqlserver"
    <3>1. Answered(engine, raw, {}, "auto", k, o)
      BY <1>3, <1>4, <2>5
    <3> QED
      BY <2>2, <2>4, <3>1 DEF Answered
  <2>6. CASE engine # "sqlserver"
    BY <2>1, <2>2, <2>4, <2>6 DEF Answered
  <2> QED
    BY <2>5, <2>6
<1> QED
  BY <1>5, <1>6, <1>7

\* A name that has meant the same object all along is listed as this object.
LEMMA UntouchedAreListed ==
    ASSUME AllWellFormed(Catalogs), IInv, RowsWereTrue, QuestionsAreSettled, pc = "done",
           NEW k \in Scope(engine), NEW o \in Seen(window, k), Seen(window, k) = {o}
    PROVE  /\ k \in DOMAIN result.tables <=> o.kind = "table"
           /\ k \in DOMAIN result.views <=> o.kind = "view"
<1>1. DOMAIN result.tables = raw.tables /\ DOMAIN result.views = raw.views
  BY ResultIs DEF IInv
<1>2. /\ k \in raw.tables => o.kind = "table"
      /\ k \in raw.views => o.kind = "view"
  BY DEF RowsWereTrue
<1>3. /\ o.kind = "table" => k \in raw.tables
      /\ o.kind = "view" => k \in raw.views
  BY TableRowsAreExact, ViewRowsAreExact
<1> QED
  BY <1>1, <1>2, <1>3

\* DDL elsewhere does not disturb a description: a name that meant the same
\* object from the first query to the last is listed as this object, and
\* described as it is if nothing about it is misread.
THEOREM UntouchedObjectsAreAlwaysExact ==
    ASSUME AllWellFormed(Catalogs) PROVE Spec => []UntouchedObjectsAreExact
<1>1. IInv /\ RowsWereTrue /\ QuestionsAreSettled => UntouchedObjectsAreExact
  <2> DEFINE o(k) == (CHOOSE c \in window : TRUE)[k]
  <2> SUFFICES ASSUME IInv, RowsWereTrue, QuestionsAreSettled, pc = "done",
                      NEW k \in Scope(engine), Untouched(k)
               PROVE  /\ k \in DOMAIN result.tables <=> o(k).kind = "table"
                      /\ k \in DOMAIN result.views <=> o(k).kind = "view"
                      /\ Legible(o(k)) /\ o(k).kind = "table" => result.tables[k] = TableImage(o(k))
                      /\ Legible(o(k)) /\ o(k).kind = "view" => result.views[k] = ViewImage(o(k))
    BY DEF UntouchedObjectsAreExact
  <2> DEFINE b == o(k)
  <2>1. b \in Seen(window, k) /\ Seen(window, k) = {b}
    <3>1. PICK c \in window : c = (CHOOSE d \in window : TRUE)
      BY DEF IInv
    <3> QED
      BY <3>1 DEF Seen, Untouched
  <2> HIDE DEF b
  <2>2. k \in KeySet /\ WellFormed(b) /\ engine \in Engines
    BY <2>1 DEF IInv, Scope, InSchema, Seen, AllWellFormed
  <2>3. result = Assemble(engine, raw)
    BY DEF IInv
  <2>4. /\ k \in DOMAIN result.tables <=> b.kind = "table"
        /\ k \in DOMAIN result.views <=> b.kind = "view"
    BY <2>1, UntouchedAreListed
  <2>5. Legible(b) => AutoRead(engine, b) = b.auto /\ KeysRead(b) = b.foreign_keys
    <3> SUFFICES ASSUME Legible(b) PROVE AutoRead(engine, b) = b.auto /\ KeysRead(b) = b.foreign_keys
      OBVIOUS
    <3>1. AutoRead(engine, b) = b.auto
      BY DEF AutoRead, Legible
    <3>2. \A fk \in b.foreign_keys : RawForeignKey(fk) = fk
      BY <2>2, ForeignKeyAsIs DEF Legible
    <3> QED
      BY <3>1, <3>2 DEF KeysRead
  <2>6. ASSUME Legible(b), b.kind = "table" PROVE result.tables[k] = TableImage(b)
    <3>1. /\ k \in raw.tables
          /\ raw.columns[k] = b.columns /\ raw.auto[k] = b.auto
          /\ engine = "sqlite" => raw.pk[k] = b.primary
          /\ RowsOf(raw.indexes[k], b)
          /\ raw.foreign_keys[k] = b.foreign_keys /\ raw.info[k] = b.info
      BY <2>1, <2>5, <2>6, TableRowsAreExact
    <3>2. to_columns(engine, raw.columns[k], raw.pk[k], raw.auto[k], raw.indexes[k]) = TableImage(b).is
      <4>1. to_columns(engine, b.columns, raw.pk[k], raw.auto[k], raw.indexes[k]) =
                [columns |-> b.columns, primary |-> b.primary, unique |-> UniqueAlone(b), auto |-> b.auto]
        BY <2>2, <2>6, <3>1, FlagsAreExact
      <4> QED
        BY <3>1, <4>1 DEF TableImage
    <3>3. {Index(i) : i \in raw.indexes[k]} = TableImage(b).indexes
      BY <2>2, <2>6, <3>1, IndexesAreExact
    <3>4. result.tables[k] =
            [is |-> to_columns(engine, raw.columns[k], raw.pk[k], raw.auto[k], raw.indexes[k]),
             indexes |-> {Index(i) : i \in raw.indexes[k]},
             foreign_keys |-> raw.foreign_keys[k],
             info |-> raw.info[k]]
      BY <2>3, <3>1 DEF Assemble
    <3>5. TableImage(b) = [is |-> TableImage(b).is, indexes |-> TableImage(b).indexes,
                           foreign_keys |-> b.foreign_keys, info |-> b.info]
      BY DEF TableImage
    <3> QED
      BY <3>1, <3>2, <3>3, <3>4, <3>5
  <2>7. ASSUME Legible(b), b.kind = "view" PROVE result.views[k] = ViewImage(b)
    <3>1. /\ k \in raw.views
          /\ engine = "sqlite" => raw.view_columns[k] = b.columns
          /\ engine # "sqlite" => /\ raw.columns[k] = b.columns /\ raw.auto[k] = b.auto
                                  /\ RowsOf(raw.indexes[k], b)
      BY <2>1, <2>5, <2>7, ViewRowsAreExact
    <3>2. b.primary = {} /\ b.auto = {} /\ b.indexes = {}
      BY <2>7 DEF Legible
    <3>3. UniqueAlone(b) = {}
      BY <3>2 DEF UniqueAlone
    <3>4. result.views[k] =
            IF engine = "sqlite" THEN to_columns(engine, raw.view_columns[k], {}, {}, {})
            ELSE to_columns(engine, raw.columns[k], raw.pk[k], raw.auto[k], raw.indexes[k])
      BY <2>3, <3>1, ResultIs
    <3>5. ViewImage(b) = [columns |-> b.columns, primary |-> b.primary, unique |-> UniqueAlone(b), auto |-> b.auto]
      BY <3>2, <3>3 DEF ViewImage
    <3>6. CASE engine = "sqlite"
      <4>1. RowsOf({}, b)
        BY <3>2 DEF RowsOf
      <4>2. to_columns(engine, b.columns, {}, {}, {}) = ViewImage(b)
        BY <2>2, <2>7, <3>2, <3>5, <4>1, FlagsAreExact
      <4> QED
        BY <3>1, <3>4, <3>6, <4>2
    <3>7. CASE engine # "sqlite"
      <4>1. to_columns(engine, b.columns, raw.pk[k], raw.auto[k], raw.indexes[k]) = ViewImage(b)
        BY <2>2, <2>7, <3>1, <3>5, <3>7, FlagsAreExact
      <4> QED
        BY <3>1, <3>4, <3>7, <4>1
    <3> QED
      BY <3>1, <3>6, <3>7
  <2> QED
    BY <2>4, <2>6, <2>7 DEF b
<1> QED
  BY <1>1, QuestionsAreAlwaysSettled, RowsWereAlwaysTrue, InspectionInvariant, PTL

-----------------------------------------------------------------------------
(* The report on a database that nobody changes. *)

\* MySQL asks for the tables and views of the configured schema alone.
InScope ==
    engine = "mysql" =>
        /\ raw.tables \subseteq Scope(engine) /\ raw.views \subseteq Scope(engine)
        /\ \A q \in ToSet(agenda) : q.what \in {"tables", "views"} => q.of \subseteq Scope(engine)

\* A query lists what it asks of, and leads to no other list.
LEMMA ScopeIsKept ==
    ASSUME IInv, InScope, NEW what, Due(what), engine' = engine,
           \A q \in ToSet(agenda') : q \in ToSet(Tail(agenda)) \/ q.what \notin {"tables", "views"},
           raw'.tables \subseteq raw.tables \cup (IF what = "tables" THEN Asked ELSE {}),
           raw'.views \subseteq raw.views \cup (IF what = "views" THEN Asked ELSE {})
    PROVE  InScope'
<1>1. /\ Head(agenda).what = what /\ Head(agenda) \in ToSet(agenda)
      /\ ToSet(Tail(agenda)) \subseteq ToSet(agenda)
  BY NextAsked
<1> SUFFICES ASSUME engine = "mysql"
             PROVE  /\ raw'.tables \subseteq Scope(engine) /\ raw'.views \subseteq Scope(engine)
                    /\ \A q \in ToSet(agenda') : q.what \in {"tables", "views"} => q.of \subseteq Scope(engine)
  BY DEF InScope
<1>2. what \in {"tables", "views"} => Asked \subseteq Scope(engine)
  BY <1>1 DEF InScope, Asked
<1> QED
  BY <1>1, <1>2 DEF InScope

\* So does each query that only fills the maps.
LEMMA MapsAreOutOfScope ==
    ASSUME IInv, InScope, NEW what, Send(what, Tail(agenda)), NEW fields \in SUBSET Maps, Adds(fields)
    PROVE  InScope'
<1>1. Due(what) /\ agenda' = Tail(agenda) /\ engine' = engine
  BY DEF Send
<1>2. raw'["tables"] = raw["tables"] /\ raw'["views"] = raw["views"]
  BY DEF Adds, Fields, Maps
<1> QED
  BY <1>1, <1>2, ScopeIsKept

\* No table or view of another schema is ever listed.
THEOREM AlwaysInScope == Spec => []InScope
<1>1. Init => InScope
  <2> SUFFICES ASSUME Init PROVE InScope
    OBVIOUS
  <2>1. raw.tables = {} /\ raw.views = {} /\ ToSet(agenda) = {}
    BY DEF Init, NoRows, ToSet
  <2> QED
    BY <2>1 DEF InScope
<1>2. IInv /\ InScope /\ [Next]_vars => InScope'
  <2> SUFFICES ASSUME IInv, InScope, [Next]_vars PROVE InScope'
    OBVIOUS
  <2>1. CASE Migrate
    BY <2>1 DEF Migrate, collected, InScope
  <2>2. CASE Begin
    <3> SUFFICES ASSUME engine = "mysql" PROVE InScope'
      BY <2>2 DEF Begin, InScope
    <3>1. ToSet(agenda') = FirstQueries(engine)
      BY <2>2, AgendaIs, EnginesAssumption DEF Begin, IInv
    <3>2. \A q \in FirstQueries(engine) : q.of = Scope(engine)
      BY DEF FirstQueries, Ask
    <3>3. engine' = engine /\ raw' = raw
      BY <2>2 DEF Begin
    <3> QED
      BY <3>1, <3>2, <3>3 DEF InScope
  <2>3. CASE ListTables
    <3> DEFINE listed == {k \in Asked : Live(k).kind = "table"}
    <3>1. /\ Due("tables") /\ engine' = engine /\ Adds({"tables", "info"})
          /\ raw'.tables = raw.tables \cup listed
          /\ ToSet(agenda') = ToSet(Tail(agenda)) \cup Following(listed)
      BY <2>3, TablesAreListed
    <3>2. listed \subseteq Asked
      OBVIOUS
    <3> HIDE DEF listed
    <3>3. \A q \in Following(listed) : q.what \notin {"tables", "views"}
      BY DEF Following, AllAsked, Ask
    <3>4. raw'["views"] = raw["views"]
      BY <3>1 DEF Adds, Fields
    <3> QED
      BY <3>1, <3>2, <3>3, <3>4, ScopeIsKept
  <2>4. CASE ListViews
    <3> DEFINE listed == {k \in Asked : Live(k).kind = "view"}
               asked == IF engine = "sqlite" THEN AllAsked({"view_columns"}, listed) ELSE {}
    <3>1. /\ Due("views") /\ engine' = engine /\ Adds({"views"})
          /\ raw'.views = raw.views \cup listed
          /\ ToSet(agenda') = ToSet(Tail(agenda)) \cup asked
      BY <2>4, ViewsAreListed
    <3>2. listed \subseteq Asked
      OBVIOUS
    <3>3. \A q \in asked : q.what \notin {"tables", "views"}
      BY DEF AllAsked, Ask
    <3> HIDE DEF listed, asked
    <3>4. raw'["tables"] = raw["tables"]
      BY <3>1 DEF Adds, Fields
    <3> QED
      BY <3>1, <3>2, <3>3, <3>4, ScopeIsKept
  <2>5. CASE ReadColumns
    <3>1. Send("columns", Tail(agenda)) /\ Adds({"columns", "pk", "auto"})
      BY <2>5, RowsAreAdded DEF ReadColumns
    <3> QED
      BY <3>1, MapsAreOutOfScope DEF Maps
  <2>6. CASE ReadViewColumns
    <3>1. Send("view_columns", Tail(agenda)) /\ Adds({"view_columns"})
      BY <2>6, RowsAreAdded DEF ReadViewColumns
    <3> QED
      BY <3>1, MapsAreOutOfScope DEF Maps
  <2>7. CASE ReadIdentities
    <3>1. Send("auto", Tail(agenda)) /\ Adds({"auto"})
      BY <2>7, RowsAreAdded DEF ReadIdentities
    <3> QED
      BY <3>1, MapsAreOutOfScope DEF Maps
  <2>8. CASE ReadIndexes
    <3>1. Send("indexes", Tail(agenda)) /\ Adds({"indexes"})
      BY <2>8, RowsAreAdded DEF ReadIndexes
    <3> QED
      BY <3>1, MapsAreOutOfScope DEF Maps
  <2>9. CASE ListIndexes
    <3> DEFINE listed == UNION {Live(k).indexes : k \in Asked}
               asked == {AskInfo(Asked, i) : i \in listed}
    <3>1. /\ Due("index_list") /\ engine' = engine /\ raw' = raw
          /\ ToSet(agenda') = asked \cup ToSet(Tail(agenda))
      BY <2>9, IndexesAreListed
    <3>2. \A q \in asked : q.what \notin {"tables", "views"}
      BY DEF AskInfo
    <3> HIDE DEF asked
    <3> QED
      BY <3>1, <3>2, ScopeIsKept
  <2>10. CASE ReadIndexInfo
    <3>1. Send("index_info", Tail(agenda)) /\ Adds({"indexes"})
      BY <2>10, IndexIsRead DEF ReadIndexInfo
    <3> QED
      BY <3>1, MapsAreOutOfScope DEF Maps
  <2>11. CASE ReadForeignKeys
    <3>1. Send("foreign_keys", Tail(agenda)) /\ Adds({"foreign_keys"})
      BY <2>11, RowsAreAdded DEF ReadForeignKeys
    <3> QED
      BY <3>1, MapsAreOutOfScope DEF Maps
  <2>12. CASE ReadInfo
    <3>1. Send("info", Tail(agenda)) /\ Adds({"info"})
      BY <2>12, RowsAreAdded DEF ReadInfo
    <3> QED
      BY <3>1, MapsAreOutOfScope DEF Maps
  <2>13. CASE Return
    BY <2>13 DEF Return, InScope
  <2>14. CASE Fail
    <3>1. raw'.tables = {} /\ raw'.views = {} /\ ToSet(agenda') = {}
      BY <2>14 DEF Fail, NoRows, ToSet
    <3> QED
      BY <3>1 DEF InScope
  <2>15. CASE UNCHANGED vars
    BY <2>15 DEF vars, collected, InScope
  <2> QED
    BY <2>1, <2>2, <2>3, <2>4, <2>5, <2>6, <2>7, <2>8, <2>9, <2>10, <2>11, <2>12, <2>13,
       <2>14, <2>15 DEF Next
<1> QED
  BY <1>1, <1>2, InspectionInvariant, PTL DEF Spec

TablesOf(c) == {k \in Scope(engine) : c[k].kind = "table"}
ViewsOf(c) == {k \in Scope(engine) : c[k].kind = "view"}

\* Without DDL the result has the tables and views in scope, with their columns
\* and foreign keys, and says which tables have a primary key.
QuietResult ==
    /\ engine \in Engines /\ catalog \in Catalogs
    /\ DOMAIN result.tables = TablesOf(catalog) /\ DOMAIN result.views = ViewsOf(catalog)
    /\ \A k \in TablesOf(catalog) :
        LET t == result.tables[k]
        IN  /\ t.is.columns = catalog[k].columns /\ t.is.primary \subseteq t.is.columns
            /\ t.is.primary # {} <=> catalog[k].primary # {}
            /\ t.foreign_keys = KeysRead(catalog[k]) /\ IsFiniteSet(t.indexes)
    /\ \A k \in ViewsOf(catalog) :
        /\ result.views[k].columns = catalog[k].columns
        /\ result.views[k].primary \subseteq catalog[k].columns

\* That is read of objects left untouched, whatever else is misread of them.
LEMMA QuietResultIs ==
    ASSUME AllWellFormed(Catalogs), IInv, InScope, RowsWereTrue, QuestionsAreSettled,
           pc = "done", window = {catalog}
    PROVE  QuietResult
<1>1. engine \in Engines /\ catalog \in Catalogs /\ result = Assemble(engine, raw)
  BY DEF IInv
<1>2. ASSUME NEW k \in Scope(engine)
      PROVE  /\ k \in KeySet /\ WellFormed(catalog[k]) /\ IsFiniteSet(catalog[k].indexes)
             /\ catalog[k] \in Seen(window, k) /\ Seen(window, k) = {catalog[k]}
  <2>1. k \in KeySet
    BY DEF Scope, InSchema
  <2>2. WellFormed(catalog[k]) /\ IsFiniteSet(catalog[k].indexes)
    BY <1>1, <2>1, IndexesAssumption DEF AllWellFormed
  <2> QED
    BY <2>1, <2>2 DEF Seen
<1>3. DOMAIN result.tables = TablesOf(catalog) /\ DOMAIN result.views = ViewsOf(catalog)
  <2>1. ASSUME NEW k \in Scope(engine)
        PROVE  /\ k \in DOMAIN result.tables <=> catalog[k].kind = "table"
               /\ k \in DOMAIN result.views <=> catalog[k].kind = "view"
    BY <1>2, UntouchedAreListed
  <2>2. DOMAIN result.tables = raw.tables /\ DOMAIN result.views = raw.views
    BY <1>1, ResultIs
  <2>3. raw.tables \subseteq Scope(engine) /\ raw.views \subseteq Scope(engine)
    BY DEF IInv, InScope, Scope
  <2> QED
    BY <2>1, <2>2, <2>3 DEF TablesOf, ViewsOf
<1>5. ASSUME NEW k \in TablesOf(catalog)
      PROVE  LET t == result.tables[k]
             IN  /\ t.is.columns = catalog[k].columns /\ t.is.primary \subseteq t.is.columns
                 /\ t.is.primary # {} <=> catalog[k].primary # {}
                 /\ t.foreign_keys = KeysRead(catalog[k]) /\ IsFiniteSet(t.indexes)
  <2> DEFINE o == catalog[k]
             t == result.tables[k]
             rows == raw.indexes[k]
  <2>1. k \in Scope(engine) /\ o.kind = "table"
    BY DEF TablesOf
  <2>2. /\ WellFormed(o) /\ IsFiniteSet(o.indexes)
        /\ k \in raw.tables /\ raw.columns[k] = o.columns
        /\ engine = "sqlite" => raw.pk[k] = o.primary
        /\ RowsOf(rows, o) /\ raw.foreign_keys[k] = KeysRead(o)
    BY <1>2, <2>1, TableRowsAreExact
  <2>3. /\ t.is = to_columns(engine, raw.columns[k], raw.pk[k], raw.auto[k], rows)
        /\ t.indexes = {Index(i) : i \in rows} /\ t.foreign_keys = raw.foreign_keys[k]
    BY <1>1, <2>2, ResultIs
  <2> HIDE DEF o, t, rows
  <2>4. /\ t.is.columns = o.columns
        /\ t.is.primary = IF engine = "sqlite" THEN o.primary
                          ELSE {n \in o.columns : is_primary_key(rows, n)}
    <3>1. /\ t.is.columns = raw.columns[k]
          /\ t.is.primary = IF engine = "sqlite" THEN raw.pk[k]
                            ELSE {n \in raw.columns[k] : is_primary_key(rows, n)}
      BY <2>3 DEF to_columns
    <3> QED
      BY <2>2, <3>1
  <2>5. o.primary \subseteq o.columns
    BY <2>2 DEF WellFormed
  <2>6. t.is.primary # {} <=> o.primary # {}
    <3>1. CASE engine = "sqlite"
      BY <2>4, <3>1
    <3>2. CASE engine # "sqlite"
      <4>1. /\ \A n \in o.primary : is_primary_key(rows, n)
            /\ \A n \in o.columns : is_primary_key(rows, n) => o.primary # {}
        BY <1>1, <2>2, <3>2, KeyIsFound
      <4> QED
        BY <2>4, <2>5, <3>2, <4>1
    <3> QED
      BY <3>1, <3>2
  <2>7. IsFiniteSet(t.indexes)
    BY <2>2, <2>3, IndexesAreFinite
  <2>8. t.is.primary \subseteq t.is.columns
    BY <2>4, <2>5
  <2>9. t.foreign_keys = KeysRead(o)
    BY <2>2, <2>3
  <2> QED
    BY <2>4, <2>6, <2>7, <2>8, <2>9 DEF o, t
<1>6. ASSUME NEW k \in ViewsOf(catalog)
      PROVE  /\ result.views[k].columns = catalog[k].columns
             /\ result.views[k].primary \subseteq catalog[k].columns
  <2>1. k \in Scope(engine) /\ catalog[k].kind = "view"
    BY DEF ViewsOf
  <2>2. /\ k \in raw.views
        /\ engine = "sqlite" => raw.view_columns[k] = catalog[k].columns
        /\ engine # "sqlite" => raw.columns[k] = catalog[k].columns
    BY <1>2, <2>1, ViewRowsAreExact
  <2>3. result.views[k] =
            IF engine = "sqlite" THEN to_columns(engine, raw.view_columns[k], {}, {}, {})
            ELSE to_columns(engine, raw.columns[k], raw.pk[k], raw.auto[k], raw.indexes[k])
    BY <1>1, <2>2, ResultIs
  <2> DEFINE is == result.views[k]
  <2>4. /\ is.columns = catalog[k].columns
        /\ is.primary = IF engine = "sqlite" THEN {}
                        ELSE {n \in raw.columns[k] : is_primary_key(raw.indexes[k], n)}
    <3> HIDE DEF is
    <3>1. CASE engine = "sqlite"
      <4>1. is = to_columns(engine, raw.view_columns[k], {}, {}, {})
        BY <2>3, <3>1 DEF is
      <4>2. is.columns = raw.view_columns[k] /\ is.primary = {}
        BY <3>1, <4>1 DEF to_columns
      <4> QED
        BY <2>2, <3>1, <4>2
    <3>2. CASE engine # "sqlite"
      <4>1. is = to_columns(engine, raw.columns[k], raw.pk[k], raw.auto[k], raw.indexes[k])
        BY <2>3, <3>2 DEF is
      <4>2. /\ is.columns = raw.columns[k]
            /\ is.primary = {n \in raw.columns[k] : is_primary_key(raw.indexes[k], n)}
        BY <3>2, <4>1 DEF to_columns
      <4> QED
        BY <2>2, <3>2, <4>2
    <3> QED
      BY <3>1, <3>2
  <2> QED
    BY <2>2, <2>4
<1> QED
  BY <1>1, <1>3, <1>5, <1>6 DEF QuietResult

\* The columns of a table or view, in whatever order SetToSeq has them.
LEMMA ColumnsAre ==
    ASSUME NEW is, IsFiniteSet(is.columns), is.primary \subseteq is.columns
    PROVE  /\ IsList(Columns(is))
           /\ {Columns(is)[i].name : i \in DOMAIN Columns(is)} = is.columns
           /\ (\E i \in DOMAIN Columns(is) : Columns(is)[i].primary_key) <=> is.primary # {}
<1> DEFINE names == SetToSeq(is.columns)
<1>1. IsList(names) /\ ToSet(names) = is.columns
  BY ListOfSet
<1>2. Columns(is) = [i \in DOMAIN names |-> Column(is, names[i])]
  BY DEF Columns
<1> HIDE DEF names
<1>3. DOMAIN names = 1 .. Len(names) /\ Len(names) \in Nat
  BY <1>1, ListIs
<1>4. Columns(is) \in Seq({Column(is, c) : c \in is.columns})
  <2>1. \A i \in 1 .. Len(names) : Column(is, names[i]) \in {Column(is, c) : c \in is.columns}
    BY <1>1, <1>3 DEF ToSet
  <2> HIDE DEF Column
  <2> QED
    BY <1>2, <1>3, <2>1
<1>5. ASSUME NEW i \in DOMAIN names
      PROVE  Columns(is)[i].name = names[i] /\ (Columns(is)[i].primary_key <=> names[i] \in is.primary)
  <2>1. Columns(is)[i] = Column(is, names[i])
    BY <1>2
  <2>2. \A c : Column(is, c).name = c /\ Column(is, c).primary_key = (c \in is.primary)
    BY DEF Column
  <2> QED
    BY <2>1, <2>2
<1>6. DOMAIN Columns(is) = DOMAIN names
  BY <1>2
<1>7. is.columns = {names[i] : i \in DOMAIN names}
  BY <1>1 DEF ToSet
<1>8. {Columns(is)[i].name : i \in DOMAIN Columns(is)} = is.columns
  BY <1>5, <1>6, <1>7
<1>9. (\E i \in DOMAIN Columns(is) : Columns(is)[i].primary_key) <=> is.primary # {}
  <2>1. \A c \in is.primary : \E i \in DOMAIN names : names[i] = c
    BY <1>7
  <2>2. (\E i \in DOMAIN names : names[i] \in is.primary) <=> is.primary # {}
    BY <2>1
  <2> QED
    BY <1>5, <1>6, <2>2
<1> QED
  BY <1>4, <1>8, <1>9, ListIs

\* What the rules read of a table is what the catalog has of it.
Describes(t, o) ==
    /\ IsList(t.columns) /\ IsList(t.indexes) /\ IsList(t.foreign_keys)
    /\ t.without_rowid = FALSE /\ t.strict = FALSE
    /\ ColumnNames(t) = o.columns
    /\ HasPrimaryKey(t) <=> o.primary # {}
    /\ ToSet(t.foreign_keys) = KeysRead(o)

\* An inspected table is described by what the rules read of it.
LEMMA TableIsDescribed ==
    ASSUME QuietResult, NEW k \in TablesOf(catalog), NEW t,
           t = [schema |-> k[1], name |-> k[2], columns |-> Columns(result.tables[k].is),
                indexes |-> SetToSeq(result.tables[k].indexes),
                foreign_keys |-> SetToSeq(result.tables[k].foreign_keys),
                without_rowid |-> FALSE, strict |-> FALSE]
    PROVE  Describes(t, catalog[k]) /\ Id(t) = k
<1> DEFINE o == catalog[k]
           r == result.tables[k]
<1>1. k \in KeySet /\ o \in {catalog[n] : n \in KeySet}
  BY DEF TablesOf, Scope, InSchema
<1>2. /\ r.is.columns = o.columns /\ r.is.primary \subseteq r.is.columns
      /\ r.is.primary # {} <=> o.primary # {}
      /\ r.foreign_keys = KeysRead(o) /\ IsFiniteSet(r.indexes)
  BY DEF QuietResult
<1>3. IsFiniteSet(o.columns) /\ IsFiniteSet(o.foreign_keys)
  BY <1>1, CatalogsAreConsistent DEF QuietResult, Consistent
<1>4. Id(t) = k
  <2>1. k \in STRING \X STRING
    BY <1>1, KeysAssumption
  <2>2. t.schema = k[1] /\ t.name = k[2]
    OBVIOUS
  <2> QED
    BY <2>1, <2>2 DEF Id
<1>5. /\ t.columns = Columns(r.is) /\ t.indexes = SetToSeq(r.indexes)
      /\ t.foreign_keys = SetToSeq(r.foreign_keys) /\ t.without_rowid = FALSE /\ t.strict = FALSE
  OBVIOUS
<1> HIDE DEF o, r
<1>7. IsFiniteSet(KeysRead(o))
  <2> DEFINE keys == o.foreign_keys
             f == [fk \in keys |-> RawForeignKey(fk)]
  <2>1. KeysRead(o) = {RawForeignKey(fk) : fk \in keys}
    BY DEF KeysRead
  <2>2. f \in [keys -> KeysRead(o)] /\ \A x \in KeysRead(o) : \E fk \in keys : f[fk] = x
    <3> HIDE DEF keys
    <3> QED
      BY <2>1
  <2> HIDE DEF f
  <2>3. f \in Surjection(keys, KeysRead(o))
    BY <2>2 DEF Surjection
  <2> QED
    BY <1>3, <2>3, FS_Surjection
<1>8. /\ IsList(t.columns) /\ {t.columns[i].name : i \in DOMAIN t.columns} = o.columns
      /\ (\E i \in DOMAIN t.columns : t.columns[i].primary_key) <=> o.primary # {}
  BY <1>2, <1>3, <1>5, ColumnsAre
<1>9. IsList(t.indexes) /\ IsList(t.foreign_keys) /\ ToSet(t.foreign_keys) = KeysRead(o)
  BY <1>2, <1>5, <1>7, ListOfSet
<1> QED
  BY <1>4, <1>5, <1>8, <1>9 DEF Describes, ColumnNames, HasPrimaryKey, o

\* The Database the rules run over: each table in scope once, as it is.
IsInspected(d) ==
    /\ Proper(d) /\ d.engine = engine
    /\ \A i \in DOMAIN d.tables :
        Id(d.tables[i]) \in TablesOf(catalog) /\ Describes(d.tables[i], catalog[Id(d.tables[i])])
    /\ \A k \in TablesOf(catalog) : \E i \in DOMAIN d.tables : Id(d.tables[i]) = k

\* What is read of a foreign key: its columns, its table, and what it references,
\* or as many empty names.
LEMMA RawKeyIs ==
    ASSUME NEW o, WellFormed(o), NEW fk \in o.foreign_keys
    PROVE  /\ RawForeignKey(fk).columns = fk.columns /\ RawForeignKey(fk).table = fk.table
           /\ fk.referenced # Implicit => RawForeignKey(fk).referenced = fk.referenced
           /\ (fk.referenced # Implicit => \E S : fk.referenced \in Seq(S))
                => IsList(RawForeignKey(fk).referenced)
<1>1. /\ fk = [columns |-> fk.columns, table |-> fk.table, referenced |-> fk.referenced]
      /\ fk.columns \in Seq(o.columns)
  BY DEF WellFormed
<1> DEFINE a == fk.columns
           b == fk.table
           d == fk.referenced
           empty == [i \in DOMAIN a |-> ""]
<1>2. fk = [columns |-> a, table |-> b, referenced |-> d] /\ a \in Seq(o.columns)
  BY <1>1
<1>3. RawForeignKey(fk) = [fk EXCEPT !.referenced = IF d = Implicit THEN empty ELSE d]
  <2>1. RawForeignKey(fk) = [fk EXCEPT !.referenced = IF @ = Implicit THEN empty ELSE @]
    BY DEF RawForeignKey
  <2> HIDE DEF empty
  <2> QED
    BY <1>1, <2>1
<1>4. IsList(empty)
  <2>1. Len(a) \in Nat /\ DOMAIN a = 1 .. Len(a)
    BY <1>2
  <2> HIDE DEF a
  <2>2. empty \in Seq({""})
    BY <2>1
  <2> QED
    BY <2>2, ListIs
<1> HIDE DEF a, b, d, empty
<1>5. RawForeignKey(fk) = [columns |-> a, table |-> b, referenced |-> IF d = Implicit THEN empty ELSE d]
  BY <1>2, <1>3
<1>6. (\E S : d \in Seq(S)) => IsList(d)
  BY ListIs
<1> QED
  BY <1>4, <1>5, <1>6 DEF a, b, d

\* The inspection of a catalog nobody changes gives this Database.
LEMMA InspectedIs ==
    ASSUME AllWellFormed(Catalogs), QuietResult
    PROVE  IsInspected(Inspected)
<1> DEFINE tables == Ordered(DOMAIN result.tables)
           views == Ordered(DOMAIN result.views)
           table(k) == [schema |-> k[1], name |-> k[2], columns |-> Columns(result.tables[k].is),
                        indexes |-> SetToSeq(result.tables[k].indexes),
                        foreign_keys |-> SetToSeq(result.tables[k].foreign_keys),
                        without_rowid |-> FALSE, strict |-> FALSE]
           view(k) == [schema |-> k[1], name |-> k[2], columns |-> Columns(result.views[k])]
           d == Inspected
<1>1. /\ TablesOf(catalog) \in SUBSET KeySet /\ ViewsOf(catalog) \in SUBSET KeySet
      /\ DOMAIN result.tables = TablesOf(catalog) /\ DOMAIN result.views = ViewsOf(catalog)
  BY DEF QuietResult, TablesOf, ViewsOf, Scope, InSchema
<1>2. /\ tables \in Seq(KeySet) /\ ToSet(tables) = TablesOf(catalog) /\ NoRepeats(tables)
      /\ views \in Seq(KeySet) /\ ToSet(views) = ViewsOf(catalog)
  BY <1>1, OrderedIs
<1>3. /\ d.tables = [i \in DOMAIN tables |-> table(tables[i])]
      /\ d.views = [i \in DOMAIN views |-> view(views[i])]
      /\ d.engine = engine
  BY DEF Inspected
<1>4. ASSUME NEW k \in TablesOf(catalog)
      PROVE  Describes(table(k), catalog[k]) /\ Id(table(k)) = k
  <2> DEFINE t == table(k)
  <2>1. t = table(k)
    OBVIOUS
  <2> HIDE DEF t
  <2> QED
    BY <2>1, TableIsDescribed DEF t
<1>5. ASSUME NEW k \in ViewsOf(catalog) PROVE IsList(view(k).columns)
  <2> DEFINE is == result.views[k]
  <2>1. is.columns = catalog[k].columns /\ is.primary \subseteq is.columns /\ k \in KeySet
    BY <1>1, <1>5 DEF QuietResult
  <2>2. IsFiniteSet(catalog[k].columns)
    BY <2>1, CatalogsAreConsistent DEF QuietResult, Consistent
  <2> HIDE DEF is
  <2>4. IsList(Columns(is))
    BY <2>1, <2>2, ColumnsAre
  <2> QED
    BY <2>4 DEF is
<1> HIDE DEF tables, views, table, view, d
<1>6. /\ DOMAIN tables = 1 .. Len(tables) /\ Len(tables) \in Nat
      /\ DOMAIN views = 1 .. Len(views) /\ Len(views) \in Nat
      /\ \A i \in DOMAIN tables : tables[i] \in TablesOf(catalog)
      /\ \A i \in DOMAIN views : views[i] \in ViewsOf(catalog)
      /\ \A k \in TablesOf(catalog) : \E i \in DOMAIN tables : tables[i] = k
  BY <1>2 DEF ToSet
<1>7. /\ DOMAIN d.tables = DOMAIN tables
      /\ \A i \in DOMAIN tables : /\ d.tables[i] = table(tables[i])
                                  /\ Describes(d.tables[i], catalog[tables[i]])
                                  /\ Id(d.tables[i]) = tables[i]
  BY <1>3, <1>4, <1>6
<1>8. IsList(d.tables) /\ IsList(d.views)
  <2>1. \A i \in DOMAIN tables : table(tables[i]) \in ToSet(d.tables)
    BY <1>7 DEF ToSet
  <2>2. d.tables \in Seq(ToSet(d.tables))
    BY <1>3, <1>6, <2>1
  <2>3. \A i \in DOMAIN views : view(views[i]) \in ToSet(d.views)
    BY <1>3 DEF ToSet
  <2>4. d.views \in Seq(ToSet(d.views))
    BY <1>3, <1>6, <2>3
  <2> QED
    BY <2>2, <2>4 DEF IsList
<1>9. \A i \in DOMAIN d.views : IsList(d.views[i].columns)
  BY <1>3, <1>5, <1>6
<1>10. ASSUME NEW i \in DOMAIN d.tables, NEW n \in DOMAIN d.tables[i].foreign_keys
       PROVE  IsList(d.tables[i].foreign_keys[n].referenced)
  <2> DEFINE fk == d.tables[i].foreign_keys[n]
             k == tables[i]
  <2>1. k \in KeySet /\ k \in TablesOf(catalog) /\ Describes(d.tables[i], catalog[k])
    BY <1>1, <1>6, <1>7
  <2>2. fk \in KeysRead(catalog[k])
    BY <2>1 DEF Describes, ToSet
  <2>3. WellFormed(catalog[k]) /\ Consistent(catalog)
    BY <2>1, CatalogsAreConsistent DEF AllWellFormed, QuietResult
  <2> HIDE DEF fk, k
  <2>4. PICK g \in catalog[k].foreign_keys : fk = RawForeignKey(g)
    BY <2>2 DEF KeysRead
  <2>5. IsList(fk.referenced)
    BY <2>1, <2>3, <2>4, RawKeyIs DEF Consistent
  <2> QED
    BY <2>5 DEF fk
<1>11. \A i \in DOMAIN d.tables :
            /\ IsList(d.tables[i].columns) /\ IsList(d.tables[i].indexes)
            /\ IsList(d.tables[i].foreign_keys)
            /\ d.tables[i].without_rowid = FALSE /\ d.tables[i].strict = FALSE
  BY <1>7 DEF Describes
<1>12. DistinctIds(d)
  BY <1>2, <1>6, <1>7 DEF DistinctIds, NoRepeats
<1>13. Readable(d)
  BY <1>8, <1>9, <1>10, <1>11 DEF Readable
<1>14. Proper(d)
  BY <1>11, <1>12, <1>13 DEF Proper
<1> QED
  BY <1>3, <1>6, <1>7, <1>14 DEF IsInspected, d

\* A foreign key that stays in scope leads to a table there.
LEMMA TargetIsInScope ==
    ASSUME QuietResult, NEW k \in KeySet, NEW fk \in catalog[k].foreign_keys, fk.table \in Scope(engine)
    PROVE  fk.table \in TablesOf(catalog)
BY CatalogsAreConsistent DEF QuietResult, Consistent, TablesOf

\* What is reported by a rule is what it found.
LEMMA ReportedIs ==
    ASSUME IsInspected(Inspected)
    PROVE  /\ Reported("BrokenForeignKey") \subseteq ToSet(broken_foreign_keys(Inspected))
           /\ Reported("MissingPrimaryKey") = ToSet(missing_primary_keys(Inspected))
           /\ \A f \in ToSet(circular_references(Inspected)) : f \in Reported("CircularReference")
<1> DEFINE d == Inspected
<1>1. Proper(d)
  BY DEF IsInspected
<1>2. \A rule : Reported(rule) = {f \in DOMAIN validate(d).findings : f.rule = rule}
  BY DEF Reported, Report
<1> HIDE DEF d
<1>3. DOMAIN validate(d).findings = ToSet(Findings(d))
  BY <1>1, Reports
<1>4. Reported("BrokenForeignKey") \subseteq ToSet(broken_foreign_keys(d))
  BY <1>1, <1>2, <1>3, FindingsOfRules
<1>5. Reported("MissingPrimaryKey") \subseteq ToSet(missing_primary_keys(d))
  BY <1>1, <1>2, <1>3, FindingsOfRules
<1>6. /\ \A f \in ToSet(missing_primary_keys(d)) : f.rule = "MissingPrimaryKey"
      /\ \A f \in ToSet(circular_references(d)) : f.rule = "CircularReference"
  BY <1>1, RuleNames
<1>7. /\ ToSet(missing_primary_keys(d)) \subseteq ToSet(Findings(d))
      /\ ToSet(circular_references(d)) \subseteq ToSet(Findings(d))
  BY <1>1, AllFindings
<1> QED
  BY <1>2, <1>3, <1>4, <1>5, <1>6, <1>7 DEF d

\* A foreign key that is found broken is one that looks so.
LEMMA NothingIsBroken ==
    ASSUME AllWellFormed(Catalogs), QuietResult, IsInspected(Inspected),
           NEW f \in ToSet(broken_foreign_keys(Inspected))
    PROVE  \E g \in catalog[<<f.schema, f.table>>].foreign_keys :
                f.columns = g.columns /\ LooksBroken(g)
<1> DEFINE d == Inspected
<1>1. IsInspected(d) /\ Proper(d) /\ Readable(d)
  BY DEF IsInspected, Proper
<1>2. \A x : x \in ToSet(broken_foreign_keys(d)) <=>
        \E i \in DOMAIN d.tables : \E n \in DOMAIN d.tables[i].foreign_keys :
            /\ Broken(d, d.tables[i].foreign_keys[n])
            /\ x = Finding("BrokenForeignKey", "error", d.tables[i], d.tables[i].foreign_keys[n].columns)
  BY <1>1, BrokenForeignKeys
<1>3. f \in ToSet(broken_foreign_keys(d))
  OBVIOUS
<1> HIDE DEF d
<1>4. PICK i \in DOMAIN d.tables : \E n \in DOMAIN d.tables[i].foreign_keys :
        /\ Broken(d, d.tables[i].foreign_keys[n])
        /\ f = Finding("BrokenForeignKey", "error", d.tables[i], d.tables[i].foreign_keys[n].columns)
  BY <1>2, <1>3
<1>5. PICK n \in DOMAIN d.tables[i].foreign_keys :
        /\ Broken(d, d.tables[i].foreign_keys[n])
        /\ f = Finding("BrokenForeignKey", "error", d.tables[i], d.tables[i].foreign_keys[n].columns)
  BY <1>4
<1> DEFINE k == Id(d.tables[i])
           fk == d.tables[i].foreign_keys[n]
<1>6. <<f.schema, f.table>> = k /\ f.columns = fk.columns
  BY <1>5 DEF Id, Finding
<1>7. k \in TablesOf(catalog) /\ Describes(d.tables[i], catalog[k])
  BY <1>1 DEF IsInspected
<1>8. fk \in KeysRead(catalog[k]) /\ Broken(d, fk)
  BY <1>5, <1>7 DEF Describes, ToSet
<1> HIDE DEF fk, k
<1>9. PICK g \in catalog[k].foreign_keys : fk = RawForeignKey(g)
  BY <1>8 DEF KeysRead
<1>10. k \in KeySet /\ WellFormed(catalog[k]) /\ Consistent(catalog)
  BY <1>7, CatalogsAreConsistent DEF TablesOf, Scope, InSchema, AllWellFormed, QuietResult
<1>11. ASSUME ~LooksBroken(g) PROVE FALSE
  <2>1. g.referenced # Implicit /\ g.table \in Scope(engine)
    BY <1>11 DEF LooksBroken
  <2>2. fk.columns = g.columns /\ fk.table = g.table /\ fk.referenced = g.referenced
    BY <1>9, <1>10, <2>1, RawKeyIs
  <2>3. fk.table \in TablesOf(catalog)
    BY <1>10, <2>1, <2>2, TargetIsInScope
  <2>4. PICK m \in DOMAIN d.tables : Id(d.tables[m]) = fk.table
    BY <1>1, <2>3 DEF IsInspected
  <2>5. Describes(d.tables[m], catalog[fk.table])
    BY <1>1, <2>4 DEF IsInspected
  <2>6. fk.referenced \in Seq(catalog[fk.table].columns) /\ Len(fk.referenced) = Len(fk.columns)
    BY <1>10, <2>1, <2>2 DEF Consistent
  <2>7. ToSet(fk.referenced) \subseteq ColumnNames(d.tables[m])
    <3>1. ColumnNames(d.tables[m]) = catalog[fk.table].columns
      BY <2>5 DEF Describes
    <3>2. ToSet(fk.referenced) \subseteq catalog[fk.table].columns
      BY <2>6 DEF ToSet
    <3> QED
      BY <3>1, <3>2
  <2>8. d.tables[m] \in ToSet(d.tables)
    BY DEF ToSet
  <2>9. ~Broken(d, fk)
    BY <1>1, <2>4, <2>6, <2>7, <2>8, BrokenIs
  <2> QED
    BY <1>8, <2>9
<1>12. fk.columns = g.columns
  BY <1>9, <1>10, RawKeyIs
<1> QED
  BY <1>6, <1>9, <1>11, <1>12

\* The tables without a primary key are found to have none.
LEMMA KeylessAreFound ==
    ASSUME QuietResult, IsInspected(Inspected)
    PROVE  {<<f.schema, f.table>> : f \in ToSet(missing_primary_keys(Inspected))} =
                {k \in Scope(engine) : catalog[k].kind = "table" /\ catalog[k].primary = {}}
<1> DEFINE d == Inspected
           found == ToSet(missing_primary_keys(d))
           missing(i) == Finding("MissingPrimaryKey", "warning", d.tables[i], <<>>)
           keyless == {k \in TablesOf(catalog) : catalog[k].primary = {}}
<1>1. IsInspected(d) /\ Readable(d)
  BY DEF IsInspected, Proper
<1>2. \A x : x \in found <=> \E i \in DOMAIN d.tables : ~HasPrimaryKey(d.tables[i]) /\ x = missing(i)
  BY <1>1, MissingPrimaryKeys
<1>3. \A i \in DOMAIN d.tables : <<missing(i).schema, missing(i).table>> = Id(d.tables[i])
  BY FindingFields DEF Id
<1>4. keyless = {k \in Scope(engine) : catalog[k].kind = "table" /\ catalog[k].primary = {}}
  BY DEF TablesOf
<1> HIDE DEF d, found, missing
<1>5. \A i \in DOMAIN d.tables : /\ Id(d.tables[i]) \in TablesOf(catalog)
                                 /\ ~HasPrimaryKey(d.tables[i]) <=> catalog[Id(d.tables[i])].primary = {}
  BY <1>1 DEF IsInspected, Describes
<1>6. \A k \in TablesOf(catalog) : \E i \in DOMAIN d.tables : Id(d.tables[i]) = k
  BY <1>1 DEF IsInspected
<1>7. ASSUME NEW f \in found PROVE <<f.schema, f.table>> \in keyless
  <2>1. PICK i \in DOMAIN d.tables : ~HasPrimaryKey(d.tables[i]) /\ f = missing(i)
    BY <1>2
  <2> QED
    BY <1>3, <1>5, <2>1
<1>8. ASSUME NEW k \in keyless PROVE \E f \in found : <<f.schema, f.table>> = k
  <2>1. PICK i \in DOMAIN d.tables : Id(d.tables[i]) = k
    BY <1>6
  <2>2. missing(i) \in found
    BY <1>2, <1>5, <2>1
  <2> QED
    BY <1>3, <2>1, <2>2
<1> HIDE DEF keyless
<1>9. {<<f.schema, f.table>> : f \in found} = keyless
  BY <1>7, <1>8
<1> QED
  BY <1>4, <1>9 DEF d, found

\* Two tables that reference each other, or one that references itself, are on a circle.
LEMMA CirclesAreFound ==
    ASSUME AllWellFormed(Catalogs), QuietResult, IsInspected(Inspected),
           NEW k \in Scope(engine), NEW j \in Edge(k) \cap Scope(engine), k \in Edge(j)
    PROVE  \E f \in ToSet(circular_references(Inspected)) :
                (IF engine = "sqlserver" THEN k ELSE <<k[2]>>) \in f.tables
<1> DEFINE d == Inspected
           a == Adjacency(d)
<1>1. IsInspected(d) /\ Readable(d) /\ DistinctIds(d) /\ d.engine = engine
  BY DEF IsInspected, Proper
<1> HIDE DEF d
<1>2. /\ \E fk \in catalog[k].foreign_keys : fk.table = j
      /\ \E fk \in catalog[j].foreign_keys : fk.table = k
  BY DEF Edge
<1>3. k \in TablesOf(catalog) /\ j \in TablesOf(catalog)
  <2>1. k \in KeySet /\ j \in KeySet
    BY DEF Scope, InSchema
  <2> QED
    BY <1>2, <2>1, TargetIsInScope
<1>4. ASSUME NEW i \in DOMAIN d.tables, NEW n \in DOMAIN d.tables,
             \E fk \in catalog[Id(d.tables[i])].foreign_keys : fk.table = Id(d.tables[n])
      PROVE  n \in Successors(a, i)
  <2> DEFINE o == catalog[Id(d.tables[i])]
  <2>1. PICK fk \in o.foreign_keys : fk.table = Id(d.tables[n])
    BY <1>4
  <2>2. WellFormed(o) /\ ToSet(d.tables[i].foreign_keys) = KeysRead(o)
    <3>1. Id(d.tables[i]) \in KeySet
      BY <1>1 DEF IsInspected, TablesOf, Scope, InSchema
    <3> QED
      BY <1>1, <3>1 DEF IsInspected, Describes, AllWellFormed, QuietResult
  <2> HIDE DEF o
  <2>3. PICK m \in DOMAIN d.tables[i].foreign_keys : d.tables[i].foreign_keys[m] = RawForeignKey(fk)
    BY <2>2 DEF ToSet, KeysRead
  <2>4. RawForeignKey(fk).table = fk.table
    BY <2>2, RawKeyIs
  <2>5. Lookup(d.tables, d.tables[i].foreign_keys[m].table) = n
    BY <1>1, <2>1, <2>3, <2>4, LookupFinds
  <2> HIDE DEF a
  <2>6. \A x : x \in Successors(a, i) <=>
            /\ x \in DOMAIN d.tables
            /\ \E p \in DOMAIN d.tables[i].foreign_keys :
                Lookup(d.tables, d.tables[i].foreign_keys[p].table) = x
    BY <1>1, GraphOfTables DEF a
  <2> QED
    BY <2>5, <2>6
<1>5. PICK i \in DOMAIN d.tables : Id(d.tables[i]) = k
  BY <1>1, <1>3 DEF IsInspected
<1>6. PICK n \in DOMAIN d.tables : Id(d.tables[n]) = j
  BY <1>1, <1>3 DEF IsInspected
<1>7. n \in Successors(a, i) /\ i \in Successors(a, n)
  BY <1>2, <1>4, <1>5, <1>6
<1>8. LeadsTo(a, i, i) /\ i \in Component(a, i)
  <2>1. IsGraph(a) /\ Nodes(a) = DOMAIN d.tables
    BY <1>1, GraphOfTables
  <2> HIDE DEF a
  <2>2. Reaches(a, n, i) /\ Reaches(a, i, i)
    BY <1>7, Paths
  <2> QED
    BY <1>7, <2>1, <2>2 DEF LeadsTo, Component
<1> DEFINE f == Circle(d, Component(a, i))
<1>9. f \in ToSet(circular_references(d))
  BY <1>1, <1>8, CircularReferences
<1>10. NamedTable(d, i) \in f.tables
  BY <1>8 DEF Circle, Finding
<1>11. NamedTable(d, i) = IF engine = "sqlserver" THEN k ELSE <<k[2]>>
  BY <1>1, <1>5 DEF NamedTable, Id
<1> HIDE DEF f
<1> QED
  BY <1>9, <1>10, <1>11 DEF d

\* QuietReportIsTrue, whatever the catalogs: through the queries, the maps and
\* the join, and then through the rules.  Composite keys, INCLUDE columns,
\* expressions, implicit references and references to another schema are all
\* there; the hypothesis is what every server sees to.
THEOREM QuietReportsAreTrue == ASSUME AllWellFormed(Catalogs) PROVE Spec => []QuietReportIsTrue
<1>1. IInv /\ InScope /\ RowsWereTrue /\ QuestionsAreSettled => QuietReportIsTrue
  <2> SUFFICES ASSUME IInv, InScope, RowsWereTrue, QuestionsAreSettled, pc = "done", window = {catalog}
               PROVE  /\ \A f \in Reported("BrokenForeignKey") :
                            \E fk \in catalog[<<f.schema, f.table>>].foreign_keys :
                                f.columns = fk.columns /\ LooksBroken(fk)
                      /\ {<<f.schema, f.table>> : f \in Reported("MissingPrimaryKey")} =
                            {k \in Scope(engine) : catalog[k].kind = "table" /\ catalog[k].primary = {}}
                      /\ \A k \in Scope(engine) : (\E j \in Edge(k) \cap Scope(engine) : k \in Edge(j)) =>
                            \E f \in Reported("CircularReference") :
                                (IF engine = "sqlserver" THEN k ELSE <<k[2]>>) \in f.tables
    BY DEF QuietReportIsTrue
  <2>1. QuietResult
    BY QuietResultIs
  <2>2. IsInspected(Inspected)
    BY <2>1, InspectedIs
  <2>3. /\ Reported("BrokenForeignKey") \subseteq ToSet(broken_foreign_keys(Inspected))
        /\ Reported("MissingPrimaryKey") = ToSet(missing_primary_keys(Inspected))
        /\ \A f \in ToSet(circular_references(Inspected)) : f \in Reported("CircularReference")
    BY <2>2, ReportedIs
  <2>4. ASSUME NEW f \in Reported("BrokenForeignKey")
        PROVE  \E fk \in catalog[<<f.schema, f.table>>].foreign_keys :
                    f.columns = fk.columns /\ LooksBroken(fk)
    BY <2>1, <2>2, <2>3, NothingIsBroken
  <2>5. {<<f.schema, f.table>> : f \in Reported("MissingPrimaryKey")} =
            {k \in Scope(engine) : catalog[k].kind = "table" /\ catalog[k].primary = {}}
    BY <2>1, <2>2, <2>3, KeylessAreFound
  <2>6. ASSUME NEW k \in Scope(engine), \E j \in Edge(k) \cap Scope(engine) : k \in Edge(j)
        PROVE  \E f \in Reported("CircularReference") :
                    (IF engine = "sqlserver" THEN k ELSE <<k[2]>>) \in f.tables
    <3>1. PICK j \in Edge(k) \cap Scope(engine) : k \in Edge(j)
      BY <2>6
    <3>2. PICK f \in ToSet(circular_references(Inspected)) :
                (IF engine = "sqlserver" THEN k ELSE <<k[2]>>) \in f.tables
      BY <2>1, <2>2, <3>1, CirclesAreFound
    <3> QED
      BY <2>3, <3>2
  <2> QED
    BY <2>4, <2>5, <2>6
<1> QED
  BY <1>1, QuestionsAreAlwaysSettled, RowsWereAlwaysTrue, InspectionInvariant, AlwaysInScope, PTL

=============================================================================
