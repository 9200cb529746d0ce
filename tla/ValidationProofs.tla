--------------------------- MODULE ValidationProofs ---------------------------
(***************************************************************************)
(* Tarjan's algorithm, as the code has it, finds the strongly connected    *)
(* components of any graph; each rule pushes the findings it should, for   *)
(* any Database; and the report does not tell the order the tables, their  *)
(* columns and their keys are listed in.                                   *)
(***************************************************************************)
EXTENDS Validation, FiniteSetTheorems, WellFoundedInduction, TLAPS

-----------------------------------------------------------------------------
(* What holds along a list. *)

\* What holds at 0, and at each position when it holds at the one before it,
\* holds at all of them.
LEMMA FromTheStart ==
    ASSUME NEW n \in Nat, NEW Z, 0 \in Z, \A i \in 1 .. n : i - 1 \in Z => i \in Z
    PROVE  \A i \in 0 .. n : i \in Z
<1> DEFINE Bad == {i \in 0 .. n : i \notin Z}
<1> SUFFICES ASSUME Bad # {} PROVE FALSE
  OBVIOUS
<1>1. PICK first \in Bad : \A i \in Bad : first <= i
  <2>1. Bad \subseteq Nat
    OBVIOUS
  <2> HIDE DEF Bad
  <2>2. PICK x \in Bad : \A y \in Bad : ~(<<y, x>> \in OpToRel(<, Nat))
    BY <2>1, WFMin, NatLessThanWellFounded
  <2>3. OpToRel(<, Nat) = {p \in Nat \X Nat : p[1] < p[2]}
    BY DEF OpToRel
  <2>4. \A y \in Bad : ~(y < x)
    <3> SUFFICES ASSUME NEW y \in Bad, y < x PROVE FALSE
      OBVIOUS
    <3>1. <<y, x>> \in Nat \X Nat /\ <<y, x>>[1] < <<y, x>>[2]
      BY <2>1
    <3> QED
      BY <2>2, <2>3, <3>1
  <2> QED
    BY <2>1, <2>4
<1>2. first \in 1 .. n /\ first - 1 \in 0 .. n /\ first - 1 \notin Bad
  BY <1>1
<1> QED
  BY <1>1, <1>2

HasSolution(n, V, start, step) ==
    \E f \in [0 .. n -> V] : f[0] = start /\ \A i \in 1 .. n : f[i] = step[i][f[i - 1]]

\* A function may be given at 0, and elsewhere by its value one position before.
LEMMA DefinedFromTheStart ==
    ASSUME NEW n \in Nat, NEW V, NEW start \in V, NEW step \in [1 .. n -> [V -> V]]
    PROVE  HasSolution(n, V, start, step)
<1> DEFINE F == [0 .. n -> V]
           Right(f, k) == f[0] = start /\ \A i \in 1 .. k : f[i] = step[i][f[i - 1]]
           Z == {k \in 0 .. n : \E f \in F : Right(f, k)}
<1>1. 0 \in Z
  <2> DEFINE g == [i \in 0 .. n |-> start]
  <2>1. g \in F /\ Right(g, 0)
    OBVIOUS
  <2> HIDE DEF g, Right, F
  <2> QED
    BY <2>1
<1>2. ASSUME NEW i \in 1 .. n, i - 1 \in Z PROVE i \in Z
  <2>1. PICK f \in F : Right(f, i - 1)
    BY <1>2
  <2> DEFINE g == [f EXCEPT ![i] = step[i][f[i - 1]]]
  <2>2. g \in F /\ g[i] = step[i][f[i - 1]] /\ \A j \in 0 .. n : j # i => g[j] = f[j]
    OBVIOUS
  <2>3. Right(g, i)
    <3> HIDE DEF g
    <3>1. \A j \in 1 .. i : j = i \/ j \in 1 .. i - 1
      OBVIOUS
    <3>2. \A j \in 1 .. i : j - 1 \in 0 .. n /\ j - 1 # i
      OBVIOUS
    <3> QED
      BY <2>1, <2>2, <3>1, <3>2
  <2> HIDE DEF g, Right, F
  <2> QED
    BY <2>2, <2>3
<1>3. n \in Z
  <2> HIDE DEF Z
  <2>1. \A i \in 0 .. n : i \in Z
    BY <1>1, <1>2, FromTheStart
  <2> QED
    BY <2>1
<1> QED
  BY <1>3 DEF HasSolution

\* A concatenation has the members of both lists.
LEMMA Concatenated ==
    ASSUME NEW S, NEW s \in Seq(S), NEW t \in Seq(S)
    PROVE  s \o t \in Seq(S) /\ ToSet(s \o t) = ToSet(s) \cup ToSet(t)
<1>1. /\ s \o t \in Seq(S) /\ DOMAIN (s \o t) = 1 .. Len(s) + Len(t)
      /\ DOMAIN s = 1 .. Len(s) /\ Len(s) \in Nat /\ DOMAIN t = 1 .. Len(t) /\ Len(t) \in Nat
      /\ \A i \in 1 .. Len(s) : (s \o t)[i] = s[i]
      /\ \A i \in 1 .. Len(t) : (s \o t)[Len(s) + i] = t[i]
  OBVIOUS
<1>2. \A i \in 1 .. Len(s) + Len(t) : i \in 1 .. Len(s) \/ (i - Len(s) \in 1 .. Len(t) /\ i = Len(s) + (i - Len(s)))
  BY <1>1
<1>3. /\ \A i \in 1 .. Len(s) : i \in 1 .. Len(s) + Len(t)
      /\ \A i \in 1 .. Len(t) : Len(s) + i \in 1 .. Len(s) + Len(t)
  BY <1>1
<1> DEFINE u == s \o t
<1>4. ASSUME NEW x \in ToSet(u) PROVE x \in ToSet(s) \cup ToSet(t)
  <2>1. PICK i \in 1 .. Len(s) + Len(t) : x = u[i]
    BY <1>1 DEF ToSet
  <2> HIDE DEF u
  <2> QED
    BY <1>1, <1>2, <2>1 DEF ToSet, u
<1>5. ASSUME NEW x \in ToSet(s) \cup ToSet(t) PROVE x \in ToSet(u)
  <2>1. CASE x \in ToSet(s)
    <3>1. PICK i \in 1 .. Len(s) : x = s[i]
      BY <1>1, <2>1 DEF ToSet
    <3>2. i \in DOMAIN u /\ u[i] = x
      BY <1>1, <1>3, <3>1
    <3> HIDE DEF u
    <3> QED
      BY <3>2 DEF ToSet
  <2>2. CASE x \in ToSet(t)
    <3>1. PICK i \in 1 .. Len(t) : x = t[i]
      BY <1>1, <2>2 DEF ToSet
    <3>2. Len(s) + i \in DOMAIN u /\ u[Len(s) + i] = x
      BY <1>1, <1>3, <3>1
    <3> HIDE DEF u
    <3> QED
      BY <3>2 DEF ToSet
  <2> QED
    BY <2>1, <2>2
<1> HIDE DEF u
<1> QED
  BY <1>1, <1>4, <1>5 DEF u

\* FlattenSeq appends the lists one after the other.
LEMMA FlattenedInTurn ==
    ASSUME NEW S, NEW lists \in Seq(Seq(S))
    PROVE  \E f \in [0 .. Len(lists) -> Seq(S)] :
            /\ f[0] = <<>> /\ \A i \in 1 .. Len(lists) : f[i] = f[i - 1] \o lists[i]
            /\ FlattenSeq(lists) = f[Len(lists)]
<1> DEFINE n == Len(lists)
           flat == CHOOSE f : f = [i \in 1 .. n |-> IF i = 1 THEN lists[i] ELSE f[i - 1] \o lists[i]]
           step == [i \in 1 .. n |-> [s \in Seq(S) |-> s \o lists[i]]]
<1>1. n \in Nat /\ DOMAIN lists = 1 .. n /\ \A i \in 1 .. n : lists[i] \in Seq(S)
  OBVIOUS
<1>2. PICK f \in [0 .. n -> Seq(S)] : f[0] = <<>> /\ \A i \in 1 .. n : f[i] = step[i][f[i - 1]]
  <2> DEFINE V == Seq(S)
             start == <<>>
  <2>1. start \in V /\ step \in [1 .. n -> [V -> V]]
    <3>1. \A i \in 1 .. n : [s \in V |-> s \o lists[i]] \in [V -> V]
      BY <1>1
    <3> QED
      BY <3>1
  <2>2. n \in Nat
    BY <1>1
  <2> HIDE DEF n, step, V, start
  <2>3. HasSolution(n, V, start, step)
    BY <2>1, <2>2, DefinedFromTheStart
  <2> QED
    BY <2>3 DEF V, start, HasSolution
<1>3. \A i \in 1 .. n : f[i] = f[i - 1] \o lists[i]
  <2> SUFFICES ASSUME NEW i \in 1 .. n PROVE f[i] = f[i - 1] \o lists[i]
    OBVIOUS
  <2>1. i - 1 \in 0 .. n /\ f[i - 1] \in Seq(S)
    <3>1. i - 1 \in 0 .. n
      BY <1>1
    <3> HIDE DEF n
    <3> QED
      BY <3>1
  <2>2. f[i] = step[i][f[i - 1]]
    BY <1>2
  <2>3. \A s \in Seq(S) : step[i][s] = s \o lists[i]
    OBVIOUS
  <2> HIDE DEF step, n
  <2> QED
    BY <2>1, <2>2, <2>3
<1>4. CASE n = 0
  <2>1. FlattenSeq(lists) = lists /\ lists = <<>>
    BY <1>4 DEF FlattenSeq
  <2> QED
    BY <1>2, <1>3, <1>4, <2>1
<1>5. CASE n # 0
  <2> DEFINE g == [i \in 1 .. n |-> f[i]]
             Body(h) == [i \in 1 .. n |-> IF i = 1 THEN lists[i] ELSE h[i - 1] \o lists[i]]
  <2>1. g = Body(g)
    <3>1. \A i \in 1 .. n : g[i] = IF i = 1 THEN lists[i] ELSE g[i - 1] \o lists[i]
      <4> SUFFICES ASSUME NEW i \in 1 .. n
                   PROVE  g[i] = IF i = 1 THEN lists[i] ELSE g[i - 1] \o lists[i]
        OBVIOUS
      <4>1. g[i] = f[i - 1] \o lists[i] /\ lists[i] \in Seq(S)
        BY <1>1, <1>3
      <4>2. CASE i = 1
        <5>1. i - 1 = 0
          BY <4>2
        <5>2. <<>> \o lists[i] = lists[i]
          BY <4>1
        <5> HIDE DEF g
        <5> QED
          BY <1>2, <4>1, <4>2, <5>1, <5>2
      <4>3. CASE i # 1
        <5>1. i - 1 \in 1 .. n
          BY <1>1, <4>3
        <5>2. g[i - 1] = f[i - 1]
          BY <5>1
        <5> HIDE DEF g
        <5> QED
          BY <4>1, <4>3, <5>2
      <4> QED
        BY <4>2, <4>3
    <3>2. g = [i \in 1 .. n |-> g[i]]
      OBVIOUS
    <3> HIDE DEF g, n
    <3> QED
      BY <3>1, <3>2
  <2>2. flat = Body(flat)
    <3> HIDE DEF Body
    <3>1. flat = CHOOSE h : h = Body(h)
      BY DEF Body
    <3> HIDE DEF flat
    <3> QED
      BY <2>1, <3>1
  <2>3. FlattenSeq(lists) = flat[n]
    BY <1>5 DEF FlattenSeq
  <2> HIDE DEF n, flat, g
  <2>4. \A i \in 1 .. n : flat[i] = IF i = 1 THEN lists[i] ELSE flat[i - 1] \o lists[i]
    BY <2>2
  <2> DEFINE Z == {i \in 0 .. n : i # 0 => flat[i] = f[i]}
  <2>5. 0 \in Z
    BY <1>1
  <2>6. ASSUME NEW i \in 1 .. n, i - 1 \in Z PROVE i \in Z
    <3>1. CASE i = 1
      <4>1. i - 1 = 0 /\ <<>> \o lists[i] = lists[i]
        BY <1>1, <3>1
      <4>2. f[i] = lists[i]
        BY <1>2, <1>3, <4>1
      <4> QED
        BY <2>4, <3>1, <4>2
    <3>2. CASE i # 1
      <4>1. flat[i - 1] = f[i - 1] /\ i \in 0 .. n
        BY <1>1, <2>6, <3>2
      <4>2. flat[i] = flat[i - 1] \o lists[i] /\ f[i] = f[i - 1] \o lists[i]
        BY <1>3, <2>4, <3>2
      <4> QED
        BY <4>1, <4>2
    <3> QED
      BY <3>1, <3>2
  <2>7. n \in Z
    <3> HIDE DEF Z
    <3>1. \A i \in 0 .. n : i \in Z
      BY <1>1, <2>5, <2>6, FromTheStart
    <3> QED
      BY <1>1, <3>1
  <2> QED
    BY <1>2, <1>3, <1>5, <2>3, <2>7 DEF n
<1> QED
  BY <1>4, <1>5

\* FlattenSeq has the members of all lists.
LEMMA Flattened ==
    ASSUME NEW S, NEW lists \in Seq(Seq(S))
    PROVE  /\ FlattenSeq(lists) \in Seq(S)
           /\ ToSet(FlattenSeq(lists)) = UNION {ToSet(lists[i]) : i \in DOMAIN lists}
<1> DEFINE n == Len(lists)
<1>1. n \in Nat /\ DOMAIN lists = 1 .. n /\ \A i \in 1 .. n : lists[i] \in Seq(S)
  OBVIOUS
<1>2. PICK f \in [0 .. n -> Seq(S)] :
        /\ f[0] = <<>> /\ \A i \in 1 .. n : f[i] = f[i - 1] \o lists[i]
        /\ FlattenSeq(lists) = f[n]
  BY FlattenedInTurn
<1> HIDE DEF n
<1> DEFINE All(i) == UNION {ToSet(lists[j]) : j \in 1 .. i}
           Z == {i \in 0 .. n : ToSet(f[i]) = All(i)}
<1>3. 0 \in Z
  <2>1. ToSet(<<>>) = {} /\ All(0) = {}
    BY DEF ToSet
  <2> QED
    BY <1>1, <1>2, <2>1
<1>4. ASSUME NEW i \in 1 .. n, i - 1 \in Z PROVE i \in Z
  <2>1. All(i) = All(i - 1) \cup ToSet(lists[i])
    <3>1. \A j : j \in 1 .. i <=> j = i \/ j \in 1 .. i - 1
      BY <1>1
    <3> QED
      BY <3>1
  <2>2. f[i - 1] \in Seq(S) /\ f[i] = f[i - 1] \o lists[i] /\ lists[i] \in Seq(S)
    <3>1. i - 1 \in 0 .. n
      BY <1>1
    <3> QED
      BY <1>1, <1>2, <3>1
  <2>3. ToSet(f[i]) = ToSet(f[i - 1]) \cup ToSet(lists[i])
    BY <2>2, Concatenated
  <2> HIDE DEF All
  <2>4. i \in 0 .. n /\ ToSet(f[i - 1]) = All(i - 1)
    BY <1>1, <1>4
  <2> QED
    BY <2>1, <2>3, <2>4
<1>5. n \in Z
  <2> HIDE DEF Z
  <2>1. \A i \in 0 .. n : i \in Z
    BY <1>1, <1>3, <1>4, FromTheStart
  <2> QED
    BY <1>1, <2>1
<1> QED
  BY <1>1, <1>2, <1>5

-----------------------------------------------------------------------------
(* The same things in another order. *)

IsList(q) == q \in Seq(ToSet(q))

\* h takes the positions of p to those of q, each to one of its own.
Reorders(h, p, q) ==
    /\ h \in [DOMAIN p -> DOMAIN q]
    /\ \A i, j \in DOMAIN p : h[i] = h[j] => i = j
    /\ \A k \in DOMAIN q : \E i \in DOMAIN p : h[i] = k

\* p has what q has, as often.
Alike(p, q) == \E h : Reorders(h, p, q) /\ \A i \in DOMAIN p : q[h[i]] = p[i]

\* A list is a sequence of what it has.
LEMMA ListIs ==
    ASSUME NEW q
    PROVE  /\ (\E S : q \in Seq(S)) => IsList(q)
           /\ IsList(q) => /\ Len(q) \in Nat /\ DOMAIN q = 1 .. Len(q)
                           /\ \A i \in DOMAIN q : q[i] \in ToSet(q)
                           /\ \A S : ToSet(q) \subseteq S => q \in Seq(S)
<1>1. ASSUME NEW S, q \in Seq(S) PROVE IsList(q)
  <2>1. Len(q) \in Nat /\ DOMAIN q = 1 .. Len(q) /\ q = [i \in 1 .. Len(q) |-> q[i]]
    BY <1>1
  <2>2. \A i \in 1 .. Len(q) : q[i] \in ToSet(q)
    BY <2>1 DEF ToSet
  <2> QED
    BY <2>1, <2>2 DEF IsList
<1>2. ASSUME IsList(q)
      PROVE  /\ Len(q) \in Nat /\ DOMAIN q = 1 .. Len(q)
             /\ \A i \in DOMAIN q : q[i] \in ToSet(q)
             /\ \A S : ToSet(q) \subseteq S => q \in Seq(S)
  <2>1. Len(q) \in Nat /\ DOMAIN q = 1 .. Len(q) /\ q = [i \in 1 .. Len(q) |-> q[i]]
    BY <1>2 DEF IsList
  <2>2. \A i \in 1 .. Len(q) : q[i] \in ToSet(q)
    BY <2>1 DEF ToSet
  <2>3. ASSUME NEW S, ToSet(q) \subseteq S PROVE q \in Seq(S)
    BY <2>1, <2>2, <2>3
  <2> QED
    BY <2>1, <2>2, <2>3
<1> QED
  BY <1>1, <1>2

\* Everything is like itself.
LEMMA AlikeItself == ASSUME NEW p PROVE Alike(p, p)
<1> DEFINE h == [i \in DOMAIN p |-> i]
<1>1. Reorders(h, p, p) /\ \A i \in DOMAIN p : p[h[i]] = p[i]
  BY DEF Reorders
<1> QED
  BY <1>1 DEF Alike

\* An order can be undone.
LEMMA ReordersBack ==
    ASSUME NEW p, NEW q, NEW h, Reorders(h, p, q)
    PROVE  \E g : Reorders(g, q, p) /\ \A k \in DOMAIN q : h[g[k]] = k
<1> DEFINE g == [k \in DOMAIN q |-> CHOOSE i \in DOMAIN p : h[i] = k]
<1>1. \A k \in DOMAIN q : g[k] \in DOMAIN p /\ h[g[k]] = k
  BY DEF Reorders
<1>2. g \in [DOMAIN q -> DOMAIN p]
  BY <1>1
<1> HIDE DEF g
<1>3. \A k, m \in DOMAIN q : g[k] = g[m] => k = m
  BY <1>1
<1>4. \A i \in DOMAIN p : h[i] \in DOMAIN q /\ g[h[i]] = i
  BY <1>1 DEF Reorders
<1> QED
  BY <1>1, <1>2, <1>3, <1>4 DEF Reorders

\* Likeness goes both ways.
LEMMA AlikeBack == ASSUME NEW p, NEW q, Alike(p, q) PROVE Alike(q, p)
<1>1. PICK h : Reorders(h, p, q) /\ \A i \in DOMAIN p : q[h[i]] = p[i]
  BY DEF Alike
<1>2. PICK g : Reorders(g, q, p) /\ \A k \in DOMAIN q : h[g[k]] = k
  BY <1>1, ReordersBack
<1>3. \A k \in DOMAIN q : g[k] \in DOMAIN p
  BY <1>2 DEF Reorders
<1>4. \A k \in DOMAIN q : p[g[k]] = q[k]
  BY <1>1, <1>2, <1>3
<1> QED
  BY <1>2, <1>4 DEF Alike

\* Likeness carries on.
LEMMA AlikeFurther == ASSUME NEW p, NEW q, NEW r, Alike(p, q), Alike(q, r) PROVE Alike(p, r)
<1>1. PICK h : Reorders(h, p, q) /\ \A i \in DOMAIN p : q[h[i]] = p[i]
  BY DEF Alike
<1>2. PICK g : Reorders(g, q, r) /\ \A i \in DOMAIN q : r[g[i]] = q[i]
  BY DEF Alike
<1> DEFINE f == [i \in DOMAIN p |-> g[h[i]]]
<1>3. \A i \in DOMAIN p : f[i] = g[h[i]] /\ h[i] \in DOMAIN q
  BY <1>1 DEF Reorders
<1>4. f \in [DOMAIN p -> DOMAIN r]
  BY <1>2, <1>3 DEF Reorders
<1> HIDE DEF f
<1>5. \A i, j \in DOMAIN p : f[i] = f[j] => i = j
  BY <1>1, <1>2, <1>3 DEF Reorders
<1>6. \A k \in DOMAIN r : \E i \in DOMAIN p : f[i] = k
  <2>1. ASSUME NEW k \in DOMAIN r PROVE \E i \in DOMAIN p : f[i] = k
    <3>1. PICK m \in DOMAIN q : g[m] = k
      BY <1>2 DEF Reorders
    <3>2. PICK i \in DOMAIN p : h[i] = m
      BY <1>1 DEF Reorders
    <3> QED
      BY <1>3, <3>1, <3>2
  <2> QED
    BY <2>1
<1>7. \A i \in DOMAIN p : r[f[i]] = p[i]
  BY <1>1, <1>2, <1>3
<1>8. Reorders(f, p, r)
  BY <1>4, <1>5, <1>6 DEF Reorders
<1> QED
  BY <1>7, <1>8 DEF Alike

\* What is alike has the same members,
LEMMA AlikeMembers == ASSUME NEW p, NEW q, Alike(p, q) PROVE ToSet(p) = ToSet(q)
<1>1. PICK h : Reorders(h, p, q) /\ \A i \in DOMAIN p : q[h[i]] = p[i]
  BY DEF Alike
<1>2. \A i \in DOMAIN p : h[i] \in DOMAIN q
  BY <1>1 DEF Reorders
<1>3. ToSet(p) \subseteq ToSet(q)
  BY <1>1, <1>2 DEF ToSet
<1>4. \A k \in DOMAIN q : \E i \in DOMAIN p : p[i] = q[k]
  BY <1>1 DEF Reorders
<1>5. ToSet(q) \subseteq ToSet(p)
  BY <1>4 DEF ToSet
<1> QED
  BY <1>3, <1>5

\* as often.
LEMMA AlikeCount ==
    ASSUME NEW p, NEW q, Alike(p, q), IsFiniteSet(DOMAIN p), NEW K
    PROVE  Cardinality({i \in DOMAIN p : p[i] \in K}) = Cardinality({i \in DOMAIN q : q[i] \in K})
<1> DEFINE P == {i \in DOMAIN p : p[i] \in K}
           Q == {i \in DOMAIN q : q[i] \in K}
<1>1. PICK h : Reorders(h, p, q) /\ \A i \in DOMAIN p : q[h[i]] = p[i]
  BY DEF Alike
<1>2. IsFiniteSet(P)
  BY FS_Subset
<1> DEFINE f == [i \in P |-> h[i]]
<1>3. f \in [P -> Q]
  BY <1>1 DEF Reorders
<1>4. \A i, j \in P : f[i] = f[j] => i = j
  BY <1>1 DEF Reorders
<1>5. \A k \in Q : \E i \in P : f[i] = k
  BY <1>1 DEF Reorders
<1>6. ExistsBijection(P, Q)
  <2> HIDE DEF f, P, Q
  <2>1. IsInjective(f)
    BY <1>3, <1>4 DEF IsInjective
  <2>2. f \in Bijection(P, Q)
    BY <1>3, <1>5, <2>1 DEF Bijection, Injection, Surjection
  <2> QED
    BY <2>2 DEF ExistsBijection
<1> HIDE DEF P, Q
<1>7. Cardinality(P) = Cardinality(Q)
  BY <1>2, <1>6, FS_Bijection
<1> QED
  BY <1>7 DEF P, Q

\* The places of a concatenation.
LEMMA Places ==
    ASSUME NEW p, NEW q, IsList(p), IsList(q)
    PROVE  /\ IsList(p \o q) /\ ToSet(p \o q) = ToSet(p) \cup ToSet(q)
           /\ Len(p) \in Nat /\ Len(q) \in Nat /\ Len(p \o q) = Len(p) + Len(q)
           /\ DOMAIN p = 1 .. Len(p) /\ DOMAIN q = 1 .. Len(q)
           /\ DOMAIN (p \o q) = 1 .. Len(p) + Len(q)
           /\ \A i \in 1 .. Len(p) : (p \o q)[i] = p[i] /\ i \in 1 .. Len(p) + Len(q)
           /\ \A i \in 1 .. Len(q) : (p \o q)[Len(p) + i] = q[i] /\ Len(p) + i \in 1 .. Len(p) + Len(q)
           /\ \A i \in 1 .. Len(p) + Len(q) : i \in 1 .. Len(p) \/ i - Len(p) \in 1 .. Len(q)
           /\ \A i \in 1 .. Len(p) + Len(q) : Len(p) + (i - Len(p)) = i
<1> DEFINE S == ToSet(p) \cup ToSet(q)
<1>1. p \in Seq(S) /\ q \in Seq(S)
  BY ListIs
<1> HIDE DEF S
<1>2. p \o q \in Seq(S) /\ ToSet(p \o q) = ToSet(p) \cup ToSet(q)
  BY <1>1, Concatenated
<1>3. IsList(p \o q)
  BY <1>2, ListIs
<1>4. /\ Len(p) \in Nat /\ Len(q) \in Nat /\ Len(p \o q) = Len(p) + Len(q)
      /\ DOMAIN p = 1 .. Len(p) /\ DOMAIN q = 1 .. Len(q)
      /\ DOMAIN (p \o q) = 1 .. Len(p) + Len(q)
  BY <1>1
<1>5. /\ \A i \in 1 .. Len(p) : (p \o q)[i] = p[i]
      /\ \A i \in 1 .. Len(q) : (p \o q)[Len(p) + i] = q[i]
  BY <1>1
<1>6. /\ \A i \in 1 .. Len(p) : i \in 1 .. Len(p) + Len(q)
      /\ \A i \in 1 .. Len(q) : Len(p) + i \in 1 .. Len(p) + Len(q)
      /\ \A i \in 1 .. Len(p) + Len(q) : i \in 1 .. Len(p) \/ i - Len(p) \in 1 .. Len(q)
      /\ \A i \in 1 .. Len(p) + Len(q) : Len(p) + (i - Len(p)) = i
  BY <1>4
<1> QED
  BY <1>2, <1>3, <1>4, <1>5, <1>6

\* Concatenations of lists that are alike are alike.
LEMMA AlikeConcatenated ==
    ASSUME NEW p, NEW q, NEW r, NEW s, IsList(p), IsList(q), IsList(r), IsList(s),
           Alike(p, r), Alike(q, s)
    PROVE  Alike(p \o q, r \o s)
<1>1. /\ Len(p) \in Nat /\ Len(q) \in Nat
      /\ DOMAIN p = 1 .. Len(p) /\ DOMAIN q = 1 .. Len(q)
      /\ DOMAIN (p \o q) = 1 .. Len(p) + Len(q)
      /\ \A i \in 1 .. Len(p) : (p \o q)[i] = p[i] /\ i \in 1 .. Len(p) + Len(q)
      /\ \A i \in 1 .. Len(q) : (p \o q)[Len(p) + i] = q[i] /\ Len(p) + i \in 1 .. Len(p) + Len(q)
      /\ \A i \in 1 .. Len(p) + Len(q) : i \in 1 .. Len(p) \/ i - Len(p) \in 1 .. Len(q)
      /\ \A i \in 1 .. Len(p) + Len(q) : Len(p) + (i - Len(p)) = i
  BY Places
<1>2. /\ Len(r) \in Nat /\ Len(s) \in Nat
      /\ DOMAIN r = 1 .. Len(r) /\ DOMAIN s = 1 .. Len(s)
      /\ DOMAIN (r \o s) = 1 .. Len(r) + Len(s)
      /\ \A i \in 1 .. Len(r) : (r \o s)[i] = r[i] /\ i \in 1 .. Len(r) + Len(s)
      /\ \A i \in 1 .. Len(s) : (r \o s)[Len(r) + i] = s[i] /\ Len(r) + i \in 1 .. Len(r) + Len(s)
      /\ \A i \in 1 .. Len(r) + Len(s) : i \in 1 .. Len(r) \/ i - Len(r) \in 1 .. Len(s)
      /\ \A i \in 1 .. Len(r) + Len(s) : Len(r) + (i - Len(r)) = i
  BY Places
<1>3. PICK g : Reorders(g, p, r) /\ \A i \in DOMAIN p : r[g[i]] = p[i]
  BY DEF Alike
<1>4. PICK h : Reorders(h, q, s) /\ \A i \in DOMAIN q : s[h[i]] = q[i]
  BY DEF Alike
<1> DEFINE f == [i \in 1 .. Len(p) + Len(q) |->
                    IF i \in 1 .. Len(p) THEN g[i] ELSE Len(r) + h[i - Len(p)]]
<1>5. \A i \in 1 .. Len(p) : f[i] = g[i] /\ g[i] \in 1 .. Len(r)
  BY <1>1, <1>2, <1>3 DEF Reorders
<1>6. \A i \in 1 .. Len(q) : Len(p) + i \notin 1 .. Len(p) /\ Len(p) + i - Len(p) = i
  BY <1>1
<1>7. \A i \in 1 .. Len(q) : f[Len(p) + i] = Len(r) + h[i] /\ h[i] \in 1 .. Len(s)
  <2>1. \A i \in 1 .. Len(q) : h[i] \in 1 .. Len(s)
    BY <1>1, <1>2, <1>4 DEF Reorders
  <2>2. \A i \in 1 .. Len(q) : f[Len(p) + i] = Len(r) + h[Len(p) + i - Len(p)]
    BY <1>1, <1>6
  <2> QED
    BY <1>6, <2>1, <2>2
<1>8. \A i \in 1 .. Len(p) + Len(q) : i \in 1 .. Len(p) \/ \E j \in 1 .. Len(q) : i = Len(p) + j
  BY <1>1
<1>9. \A i \in 1 .. Len(r) + Len(s) : i \in 1 .. Len(r) \/ \E j \in 1 .. Len(s) : i = Len(r) + j
  BY <1>2
<1>10. f = [i \in 1 .. Len(p) + Len(q) |-> f[i]]
  OBVIOUS
<1> HIDE DEF f
<1>11. \A i \in 1 .. Len(p) + Len(q) : f[i] \in 1 .. Len(r) + Len(s)
  <2>1. \A i \in 1 .. Len(p) : f[i] \in 1 .. Len(r) + Len(s)
    BY <1>2, <1>5
  <2>2. \A i \in 1 .. Len(q) : f[Len(p) + i] \in 1 .. Len(r) + Len(s)
    BY <1>2, <1>7
  <2> QED
    BY <1>8, <2>1, <2>2
<1>12. f \in [1 .. Len(p) + Len(q) -> 1 .. Len(r) + Len(s)]
  BY <1>10, <1>11
<1>13. ASSUME NEW i \in 1 .. Len(p) + Len(q), NEW j \in 1 .. Len(p) + Len(q), f[i] = f[j]
       PROVE  i = j
  <2>1. CASE i \in 1 .. Len(p) /\ j \in 1 .. Len(p)
    BY <1>1, <1>3, <1>5, <1>13, <2>1 DEF Reorders
  <2>2. ASSUME NEW k \in 1 .. Len(q), i \in 1 .. Len(p), j = Len(p) + k PROVE FALSE
    <3>1. f[i] \in 1 .. Len(r) /\ f[j] = Len(r) + h[k] /\ h[k] \in 1 .. Len(s)
      BY <1>5, <1>7, <2>2
    <3> QED
      BY <1>2, <1>13, <3>1
  <2>3. ASSUME NEW k \in 1 .. Len(q), j \in 1 .. Len(p), i = Len(p) + k PROVE FALSE
    <3>1. f[j] \in 1 .. Len(r) /\ f[i] = Len(r) + h[k] /\ h[k] \in 1 .. Len(s)
      BY <1>5, <1>7, <2>3
    <3> QED
      BY <1>2, <1>13, <3>1
  <2>4. ASSUME NEW k \in 1 .. Len(q), NEW m \in 1 .. Len(q), i = Len(p) + k, j = Len(p) + m
        PROVE  i = j
    <3>1. f[i] = Len(r) + h[k] /\ f[j] = Len(r) + h[m] /\ h[k] \in 1 .. Len(s) /\ h[m] \in 1 .. Len(s)
      BY <1>7, <2>4
    <3>2. h[k] \in Int /\ h[m] \in Int /\ Len(r) \in Int
      BY <1>2, <3>1
    <3>3. h[k] = h[m]
      <4>1. Len(r) + h[k] = Len(r) + h[m]
        BY <1>13, <3>1
      <4>2. \A x, y, z \in Int : z + x = z + y => x = y
        OBVIOUS
      <4> QED
        BY <3>2, <4>1, <4>2
    <3>4. k = m
      BY <1>1, <1>4, <3>3 DEF Reorders
    <3> QED
      BY <2>4, <3>4
  <2> QED
    BY <1>8, <2>1, <2>2, <2>3, <2>4
<1>14. ASSUME NEW k \in 1 .. Len(r) + Len(s) PROVE \E i \in 1 .. Len(p) + Len(q) : f[i] = k
  <2>1. CASE k \in 1 .. Len(r)
    <3>1. PICK i \in 1 .. Len(p) : g[i] = k
      BY <1>1, <1>2, <1>3, <2>1 DEF Reorders
    <3> QED
      BY <1>1, <1>5, <3>1
  <2>2. ASSUME NEW m \in 1 .. Len(s), k = Len(r) + m PROVE \E i \in 1 .. Len(p) + Len(q) : f[i] = k
    <3>1. PICK i \in 1 .. Len(q) : h[i] = m
      BY <1>1, <1>2, <1>4 DEF Reorders
    <3> QED
      BY <1>1, <1>7, <2>2, <3>1
  <2> QED
    BY <1>9, <2>1, <2>2
<1>15. ASSUME NEW i \in 1 .. Len(p) + Len(q) PROVE (r \o s)[f[i]] = (p \o q)[i]
  <2>1. CASE i \in 1 .. Len(p)
    <3>1. f[i] = g[i] /\ g[i] \in 1 .. Len(r) /\ r[g[i]] = p[i]
      BY <1>1, <1>3, <1>5, <2>1
    <3> QED
      BY <1>1, <1>2, <2>1, <3>1
  <2>2. ASSUME NEW k \in 1 .. Len(q), i = Len(p) + k PROVE (r \o s)[f[i]] = (p \o q)[i]
    <3>1. f[i] = Len(r) + h[k] /\ h[k] \in 1 .. Len(s) /\ s[h[k]] = q[k]
      BY <1>1, <1>4, <1>7, <2>2
    <3> QED
      BY <1>1, <1>2, <2>2, <3>1
  <2> QED
    BY <1>8, <2>1, <2>2
<1>16. Reorders(f, p \o q, r \o s)
  BY <1>1, <1>2, <1>12, <1>13, <1>14 DEF Reorders
<1> QED
  <2>1. \A i \in DOMAIN (p \o q) : (r \o s)[f[i]] = (p \o q)[i]
    BY <1>1, <1>15
  <2> QED
    BY <1>16, <2>1 DEF Alike

Lists(F) == IsList(F) /\ \A i \in DOMAIN F : IsList(F[i])

\* What the first n lists have, each at its list and its place in it.
EntriesTo(F, n) == {e \in (1 .. n) \X Nat : e[2] \in DOMAIN F[e[1]]}
Entry(F, n) == [e \in EntriesTo(F, n) |-> F[e[1]][e[2]]]

\* The entries of one more list come after the others.
LEMMA OneMoreList ==
    ASSUME NEW F, NEW i \in Nat \ {0}, NEW p, IsList(p), IsList(F[i]), Alike(Entry(F, i - 1), p)
    PROVE  Alike(Entry(F, i), p \o F[i])
<1> DEFINE q == F[i]
           E == EntriesTo(F, i)
           D == EntriesTo(F, i - 1)
<1>1. /\ Len(p) \in Nat /\ Len(q) \in Nat
      /\ DOMAIN p = 1 .. Len(p) /\ DOMAIN q = 1 .. Len(q)
      /\ DOMAIN (p \o q) = 1 .. Len(p) + Len(q)
      /\ \A j \in 1 .. Len(p) : (p \o q)[j] = p[j] /\ j \in 1 .. Len(p) + Len(q)
      /\ \A j \in 1 .. Len(q) : (p \o q)[Len(p) + j] = q[j] /\ Len(p) + j \in 1 .. Len(p) + Len(q)
  BY Places
<1>2. PICK h : Reorders(h, Entry(F, i - 1), p) /\ \A e \in D : p[h[e]] = Entry(F, i - 1)[e]
  BY DEF Alike, Entry
<1>3. DOMAIN Entry(F, i) = E /\ DOMAIN Entry(F, i - 1) = D
  BY DEF Entry
<1>4. /\ \A e \in E : e[1] = i \/ e \in D
      /\ \A e \in D : e \in E /\ e[1] # i
      /\ \A e \in E : e[1] = i => e[2] \in DOMAIN q /\ e = <<i, e[2]>>
      /\ \A j \in DOMAIN q : <<i, j>> \in E
  <2>1. ASSUME NEW e \in E, e[1] # i PROVE e \in D
    <3>1. e[1] \in 1 .. i - 1
      BY <2>1 DEF EntriesTo
    <3> QED
      BY <3>1 DEF EntriesTo
  <2>2. ASSUME NEW e \in D PROVE e \in E /\ e[1] # i
    <3>1. e[1] \in 1 .. i /\ e[1] # i
      BY DEF EntriesTo
    <3> QED
      BY <3>1 DEF EntriesTo
  <2>3. ASSUME NEW j \in DOMAIN q PROVE <<i, j>> \in E
    <3>1. i \in 1 .. i /\ j \in Nat
      BY <1>1
    <3> QED
      BY <3>1 DEF EntriesTo
  <2>4. \A e \in E : e[1] = i => e[2] \in DOMAIN q /\ e = <<i, e[2]>>
    BY DEF EntriesTo
  <2> QED
    BY <2>1, <2>2, <2>3, <2>4
<1> DEFINE f == [e \in E |-> IF e[1] = i THEN Len(p) + e[2] ELSE h[e]]
<1>5. f = [e \in E |-> f[e]]
  OBVIOUS
<1>6. /\ \A e \in D : f[e] = h[e]
      /\ \A j \in DOMAIN q : f[<<i, j>>] = Len(p) + j
  <2>1. \A e \in E : f[e] = IF e[1] = i THEN Len(p) + e[2] ELSE h[e]
    OBVIOUS
  <2> HIDE DEF f, E, D
  <2> QED
    BY <1>4, <2>1
<1> HIDE DEF f, E, D, q
<1>7. \A e \in D : h[e] \in 1 .. Len(p)
  BY <1>1, <1>2, <1>3 DEF Reorders
<1>8. \A e \in E : e \in D \/ \E j \in DOMAIN q : e = <<i, j>>
  BY <1>4
<1>9. f \in [E -> 1 .. Len(p) + Len(q)]
  <2>1. \A e \in E : f[e] \in 1 .. Len(p) + Len(q)
    BY <1>1, <1>6, <1>7, <1>8
  <2> QED
    BY <1>5, <2>1
<1>10. ASSUME NEW d \in E, NEW e \in E, f[d] = f[e] PROVE d = e
  <2>1. CASE d \in D /\ e \in D
    BY <1>2, <1>3, <1>6, <1>10, <2>1 DEF Reorders
  <2>2. ASSUME NEW j \in DOMAIN q, d \in D, e = <<i, j>> PROVE FALSE
    <3>1. f[d] \in 1 .. Len(p) /\ f[e] = Len(p) + j
      BY <1>6, <1>7, <2>2
    <3> QED
      BY <1>1, <1>10, <3>1
  <2>3. ASSUME NEW j \in DOMAIN q, e \in D, d = <<i, j>> PROVE FALSE
    <3>1. f[e] \in 1 .. Len(p) /\ f[d] = Len(p) + j
      BY <1>6, <1>7, <2>3
    <3> QED
      BY <1>1, <1>10, <3>1
  <2>4. ASSUME NEW j \in DOMAIN q, NEW k \in DOMAIN q, d = <<i, j>>, e = <<i, k>> PROVE d = e
    <3>1. Len(p) + j = Len(p) + k
      BY <1>6, <1>10, <2>4
    <3>2. j = k
      BY <1>1, <3>1
    <3> QED
      BY <2>4, <3>2
  <2> QED
    BY <1>8, <2>1, <2>2, <2>3, <2>4
<1>11. ASSUME NEW k \in 1 .. Len(p) + Len(q) PROVE \E e \in E : f[e] = k
  <2>1. CASE k \in 1 .. Len(p)
    <3>1. PICK e \in D : h[e] = k
      BY <1>1, <1>2, <1>3, <2>1 DEF Reorders
    <3> QED
      BY <1>4, <1>6, <3>1
  <2>2. CASE k \notin 1 .. Len(p)
    <3>1. k - Len(p) \in DOMAIN q /\ Len(p) + (k - Len(p)) = k
      BY <1>1, <2>2
    <3>2. <<i, k - Len(p)>> \in E /\ f[<<i, k - Len(p)>>] = Len(p) + (k - Len(p))
      BY <1>4, <1>6, <3>1
    <3> QED
      BY <3>1, <3>2
  <2> QED
    BY <2>1, <2>2
<1>12. ASSUME NEW e \in E PROVE (p \o q)[f[e]] = Entry(F, i)[e]
  <2>1. Entry(F, i)[e] = F[e[1]][e[2]]
    BY DEF Entry, E
  <2>2. CASE e \in D
    <3>1. Entry(F, i - 1)[e] = F[e[1]][e[2]]
      BY <2>2 DEF Entry, D
    <3>2. f[e] \in 1 .. Len(p) /\ p[f[e]] = F[e[1]][e[2]]
      BY <1>2, <1>6, <1>7, <2>2, <3>1
    <3> QED
      BY <1>1, <2>1, <3>2
  <2>3. ASSUME NEW j \in DOMAIN q, e = <<i, j>> PROVE (p \o q)[f[e]] = Entry(F, i)[e]
    <3>1. Entry(F, i)[e] = q[j]
      BY <2>1, <2>3 DEF q
    <3>2. f[e] = Len(p) + j
      BY <1>6, <2>3
    <3> QED
      BY <1>1, <3>1, <3>2
  <2> QED
    BY <1>8, <2>2, <2>3
<1>13. Reorders(f, Entry(F, i), p \o q)
  BY <1>1, <1>3, <1>9, <1>10, <1>11 DEF Reorders
<1>14. Alike(Entry(F, i), p \o q)
  BY <1>3, <1>12, <1>13 DEF Alike
<1> QED
  BY <1>14 DEF q

\* What FlattenSeq makes of lists: each entry of each of them at a place of its own.
LEMMA FlattenedList ==
    ASSUME NEW F, Lists(F)
    PROVE  /\ IsList(FlattenSeq(F))
           /\ ToSet(FlattenSeq(F)) = UNION {ToSet(F[i]) : i \in DOMAIN F}
           /\ Alike(Entry(F, Len(F)), FlattenSeq(F))
<1> DEFINE n == Len(F)
           S == UNION {ToSet(F[i]) : i \in DOMAIN F}
<1>1. n \in Nat /\ DOMAIN F = 1 .. n
  BY ListIs DEF Lists
<1>2. \A i \in DOMAIN F : F[i] \in Seq(S)
  <2>1. ASSUME NEW i \in DOMAIN F PROVE F[i] \in Seq(S)
    <3>1. IsList(F[i]) /\ ToSet(F[i]) \subseteq S
      BY DEF Lists
    <3> HIDE DEF S
    <3> QED
      BY <3>1, ListIs
  <2> QED
    BY <2>1
<1> HIDE DEF S
<1>3. F \in Seq(Seq(S))
  <2>1. ToSet(F) \subseteq Seq(S)
    BY <1>2 DEF ToSet
  <2> QED
    BY <2>1, ListIs DEF Lists
<1>4. FlattenSeq(F) \in Seq(S) /\ ToSet(FlattenSeq(F)) = S
  BY <1>3, Flattened DEF S
<1>5. PICK f \in [0 .. n -> Seq(S)] :
        /\ f[0] = <<>> /\ \A i \in 1 .. n : f[i] = f[i - 1] \o F[i]
        /\ FlattenSeq(F) = f[n]
  BY <1>3, FlattenedInTurn
<1> HIDE DEF n
<1> DEFINE Z == {i \in 0 .. n : Alike(Entry(F, i), f[i])}
<1>6. 0 \in Z
  <2>1. EntriesTo(F, 0) = {}
    BY DEF EntriesTo
  <2>2. DOMAIN Entry(F, 0) = {} /\ DOMAIN <<>> = {}
    BY <2>1 DEF Entry
  <2>3. Reorders(<<>>, Entry(F, 0), <<>>)
    BY <2>2 DEF Reorders
  <2>4. Alike(Entry(F, 0), f[0])
    BY <1>5, <2>2, <2>3 DEF Alike
  <2> QED
    BY <1>1, <2>4
<1>7. ASSUME NEW i \in 1 .. n, i - 1 \in Z PROVE i \in Z
  <2>1. i \in Nat \ {0} /\ i \in 0 .. n /\ i - 1 \in 0 .. n /\ Alike(Entry(F, i - 1), f[i - 1])
    BY <1>1, <1>7
  <2>2. IsList(f[i - 1])
    BY <1>5, <2>1, ListIs
  <2>3. IsList(F[i])
    BY <1>1 DEF Lists
  <2>4. Alike(Entry(F, i), f[i - 1] \o F[i])
    BY <2>1, <2>2, <2>3, OneMoreList
  <2> QED
    BY <1>5, <2>1, <2>4
<1>8. n \in Z
  <2> HIDE DEF Z
  <2>1. \A i \in 0 .. n : i \in Z
    BY <1>1, <1>6, <1>7, FromTheStart
  <2> QED
    BY <1>1, <2>1
<1> QED
  BY <1>4, <1>5, <1>8, ListIs DEF n, S

\* Lists that are alike, in another order, are alike when they are flattened.
LEMMA AlikeFlattened ==
    ASSUME NEW F, NEW G, Lists(F), Lists(G), NEW h, Reorders(h, F, G),
           \A i \in DOMAIN F : Alike(F[i], G[h[i]])
    PROVE  Alike(FlattenSeq(F), FlattenSeq(G))
<1> DEFINE p == Entry(F, Len(F))
           q == Entry(G, Len(G))
           P == EntriesTo(F, Len(F))
           Q == EntriesTo(G, Len(G))
           g == [i \in DOMAIN F |-> CHOOSE m :
                    Reorders(m, F[i], G[h[i]]) /\ \A j \in DOMAIN F[i] : G[h[i]][m[j]] = F[i][j]]
           f == [e \in P |-> <<h[e[1]], g[e[1]][e[2]]>>]
<1>1. DOMAIN F = 1 .. Len(F) /\ DOMAIN G = 1 .. Len(G) /\ DOMAIN p = P /\ DOMAIN q = Q
  BY ListIs DEF Lists, Entry
<1>2. \A i \in DOMAIN F : h[i] \in DOMAIN G
  BY DEF Reorders
<1>3. /\ \A i \in DOMAIN F : DOMAIN F[i] \subseteq Nat
      /\ \A i \in DOMAIN G : DOMAIN G[i] \subseteq Nat
  <2>1. ASSUME NEW i \in DOMAIN F PROVE DOMAIN F[i] \subseteq Nat
    BY ListIs DEF Lists
  <2>2. ASSUME NEW i \in DOMAIN G PROVE DOMAIN G[i] \subseteq Nat
    BY ListIs DEF Lists
  <2> QED
    BY <2>1, <2>2
<1>4. /\ \A e \in P : e[1] \in DOMAIN F /\ e[2] \in DOMAIN F[e[1]] /\ e = <<e[1], e[2]>>
      /\ \A i \in DOMAIN F : \A j \in DOMAIN F[i] : <<i, j>> \in P
  BY <1>1, <1>3 DEF EntriesTo
<1>5. /\ \A e \in Q : e[1] \in DOMAIN G /\ e[2] \in DOMAIN G[e[1]] /\ e = <<e[1], e[2]>>
      /\ \A i \in DOMAIN G : \A j \in DOMAIN G[i] : <<i, j>> \in Q
  BY <1>1, <1>3 DEF EntriesTo
<1>6. /\ \A e \in P : p[e] = F[e[1]][e[2]]
      /\ \A e \in Q : q[e] = G[e[1]][e[2]]
  BY DEF Entry
<1> HIDE DEF p, q, P, Q
<1>7. ASSUME NEW i \in DOMAIN F
      PROVE  Reorders(g[i], F[i], G[h[i]]) /\ \A j \in DOMAIN F[i] : G[h[i]][g[i][j]] = F[i][j]
  BY DEF Alike
<1> HIDE DEF g
<1>8. ASSUME NEW i \in DOMAIN F
      PROVE  /\ \A j \in DOMAIN F[i] : g[i][j] \in DOMAIN G[h[i]]
             /\ \A j, k \in DOMAIN F[i] : g[i][j] = g[i][k] => j = k
             /\ \A k \in DOMAIN G[h[i]] : \E j \in DOMAIN F[i] : g[i][j] = k
  BY <1>7 DEF Reorders
<1>9. \A e \in P : f[e] = <<h[e[1]], g[e[1]][e[2]]>>
  OBVIOUS
<1>10. f = [e \in P |-> f[e]]
  OBVIOUS
<1> HIDE DEF f
<1>11. f \in [P -> Q]
  <2>1. \A e \in P : f[e] \in Q
    BY <1>2, <1>4, <1>5, <1>8, <1>9
  <2> QED
    BY <1>10, <2>1
<1>12. ASSUME NEW d \in P, NEW e \in P, f[d] = f[e] PROVE d = e
  <2>1. h[d[1]] = h[e[1]] /\ g[d[1]][d[2]] = g[e[1]][e[2]]
    BY <1>9, <1>12
  <2>2. d[1] = e[1]
    BY <1>4, <2>1 DEF Reorders
  <2>3. d[2] = e[2]
    BY <1>4, <1>8, <2>1, <2>2
  <2> QED
    BY <1>4, <2>2, <2>3
<1>13. ASSUME NEW k \in Q PROVE \E e \in P : f[e] = k
  <2>1. PICK i \in DOMAIN F : h[i] = k[1]
    BY <1>5 DEF Reorders
  <2>2. PICK j \in DOMAIN F[i] : g[i][j] = k[2]
    BY <1>5, <1>8, <2>1
  <2>3. <<i, j>> \in P
    BY <1>4
  <2>4. f[<<i, j>>] = <<k[1], k[2]>>
    BY <1>9, <2>1, <2>2, <2>3
  <2> QED
    BY <1>5, <2>3, <2>4
<1>14. \A e \in P : q[f[e]] = p[e]
  <2>1. ASSUME NEW e \in P PROVE q[f[e]] = p[e]
    <3>1. f[e] \in Q /\ f[e] = <<h[e[1]], g[e[1]][e[2]]>>
      BY <1>9, <1>11
    <3>2. q[f[e]] = G[h[e[1]]][g[e[1]][e[2]]]
      BY <1>6, <3>1
    <3>3. G[h[e[1]]][g[e[1]][e[2]]] = F[e[1]][e[2]]
      BY <1>4, <1>7
    <3> QED
      BY <1>6, <3>2, <3>3
  <2> QED
    BY <2>1
<1>15. Reorders(f, p, q)
  BY <1>1, <1>11, <1>12, <1>13 DEF Reorders
<1>16. Alike(p, q)
  BY <1>1, <1>14, <1>15 DEF Alike
<1>17. Alike(p, FlattenSeq(F)) /\ Alike(q, FlattenSeq(G))
  BY FlattenedList DEF p, q
<1>18. Alike(FlattenSeq(F), q)
  BY <1>16, <1>17, AlikeBack, AlikeFurther
<1> QED
  BY <1>17, <1>18, AlikeFurther

-----------------------------------------------------------------------------
(* The recursive definitions, unfolded. *)

\* The neighbors of a node are visited one after the other.
LEMMA VisitedInTurn ==
    ASSUME NEW adjacency, NEW node, NEW before, NEW call, Len(adjacency[node]) \in Nat
    PROVE  \E visited :
            /\ tarjan_strongconnect(node, adjacency, before, call)
                    = Leave(visited[Len(adjacency[node])], node)
            /\ visited[0] = Enter(before, node)
            /\ \A i \in 1 .. Len(adjacency[node]) :
                    visited[i] = Visit(visited[i - 1], node, adjacency[node][i], call)
<1> DEFINE neighbors == adjacency[node]
           n == Len(neighbors)
           Value(f, i) == IF i = 0 THEN Enter(before, node) ELSE Visit(f[i - 1], node, neighbors[i], call)
           Defines(f, k) == f = [i \in 0 .. k |-> Value(f, i)]
           visited == CHOOSE f : Defines(f, n)
           Z == {k \in 0 .. n : \E f : Defines(f, k)}
<1>1. 0 \in Z
  <2> DEFINE f == [i \in 0 .. 0 |-> Enter(before, node)]
  <2>1. \A i \in 0 .. 0 : Value(f, i) = Enter(before, node)
    OBVIOUS
  <2> HIDE DEF Value
  <2>2. Defines(f, 0)
    BY <2>1
  <2> QED
    BY <2>2
<1>2. ASSUME NEW k \in 1 .. n, k - 1 \in Z PROVE k \in Z
  <2>1. PICK f : Defines(f, k - 1)
    BY <1>2
  <2> DEFINE g == [i \in 0 .. k |-> IF i = k THEN Value(f, k) ELSE f[i]]
  <2>2. \A i \in 0 .. k - 1 : i \in 0 .. k /\ i # k /\ f[i] = Value(f, i)
    BY <2>1
  <2>3. \A i \in 0 .. k : i # 0 => i - 1 \in 0 .. k - 1
    OBVIOUS
  <2>4. \A i \in 0 .. k : i = 0 \/ f[i - 1] = g[i - 1]
    BY <2>2, <2>3
  <2>5. \A i \in 0 .. k : Value(f, i) = Value(g, i)
    BY <2>4
  <2>6. \A i \in 0 .. k : i = k \/ i \in 0 .. k - 1
    OBVIOUS
  <2>7. \A i \in 0 .. k : g[i] = Value(f, i)
    <3> HIDE DEF Value
    <3> QED
      BY <2>2, <2>6
  <2>8. g = [i \in 0 .. k |-> g[i]]
    OBVIOUS
  <2> HIDE DEF g, Value
  <2>9. Defines(g, k)
    BY <2>5, <2>7, <2>8
  <2> QED
    BY <2>9
<1>3. n \in Z
  <2> HIDE DEF Z, n
  <2>1. n \in Nat
    BY DEF n
  <2>2. \A k \in 0 .. n : k \in Z
    BY <1>1, <1>2, <2>1, FromTheStart
  <2> QED
    BY <2>1, <2>2
<1>4. Defines(visited, n)
  <2> HIDE DEF Defines
  <2> QED
    BY <1>3
<1>5. tarjan_strongconnect(node, adjacency, before, call) = Leave(visited[n], node)
  BY DEF tarjan_strongconnect
<1> HIDE DEF visited
<1>6. \A i \in 0 .. n : visited[i] = Value(visited, i)
  <2>1. visited = [i \in 0 .. n |-> Value(visited, i)]
    BY <1>4
  <2> HIDE DEF Value, n
  <2> QED
    BY <2>1
<1>7. 0 \in 0 .. n /\ \A i \in 1 .. n : i \in 0 .. n /\ i # 0
  OBVIOUS
<1>8. visited[0] = Enter(before, node) /\ \A i \in 1 .. n : visited[i] = Visit(visited[i - 1], node, neighbors[i], call)
  BY <1>6, <1>7
<1> QED
  BY <1>5, <1>8

\* Each depth of calls is made of the one below.
LEMMA CallsInTurn ==
    ASSUME NEW adjacency, Len(adjacency) \in Nat
    PROVE  \E calls :
            /\ Calls(adjacency) = calls[Len(adjacency)]
            /\ calls[0] = Unchanged(Len(adjacency))
            /\ \A i \in 1 .. Len(adjacency) :
                    calls[i] = Unrolled(adjacency, calls[i - 1])
<1> DEFINE n == Len(adjacency)
           Value(f, i) == IF i = 0 THEN Unchanged(n) ELSE Unrolled(adjacency, f[i - 1])
           Defines(f, k) == f = [i \in 0 .. k |-> Value(f, i)]
           calls == CHOOSE f : Defines(f, n)
           Z == {k \in 0 .. n : \E f : Defines(f, k)}
<1>1. 0 \in Z
  <2> DEFINE f == [i \in 0 .. 0 |-> Unchanged(n)]
  <2>1. \A i \in 0 .. 0 : Value(f, i) = Unchanged(n)
    OBVIOUS
  <2> HIDE DEF Value
  <2>2. Defines(f, 0)
    BY <2>1
  <2> QED
    BY <2>2
<1>2. ASSUME NEW k \in 1 .. n, k - 1 \in Z PROVE k \in Z
  <2>1. PICK f : Defines(f, k - 1)
    BY <1>2
  <2> DEFINE g == [i \in 0 .. k |-> IF i = k THEN Value(f, k) ELSE f[i]]
  <2>2. \A i \in 0 .. k - 1 : i \in 0 .. k /\ i # k /\ f[i] = Value(f, i)
    BY <2>1
  <2>3. \A i \in 0 .. k : i # 0 => i - 1 \in 0 .. k - 1
    OBVIOUS
  <2>4. \A i \in 0 .. k : i = 0 \/ f[i - 1] = g[i - 1]
    BY <2>2, <2>3
  <2>5. \A i \in 0 .. k : Value(f, i) = Value(g, i)
    BY <2>4
  <2>6. \A i \in 0 .. k : i = k \/ i \in 0 .. k - 1
    OBVIOUS
  <2>7. \A i \in 0 .. k : g[i] = Value(f, i)
    <3> HIDE DEF Value
    <3> QED
      BY <2>2, <2>6
  <2>8. g = [i \in 0 .. k |-> g[i]]
    OBVIOUS
  <2> HIDE DEF g, Value
  <2>9. Defines(g, k)
    BY <2>5, <2>7, <2>8
  <2> QED
    BY <2>9
<1>3. n \in Z
  <2> HIDE DEF Z, n
  <2>1. n \in Nat
    BY DEF n
  <2>2. \A k \in 0 .. n : k \in Z
    BY <1>1, <1>2, <2>1, FromTheStart
  <2> QED
    BY <2>1, <2>2
<1>4. Defines(calls, n)
  <2> HIDE DEF Defines
  <2> QED
    BY <1>3
<1>5. Calls(adjacency) = calls[n]
  BY DEF Calls
<1> HIDE DEF calls
<1>6. \A i \in 0 .. n : calls[i] = Value(calls, i)
  <2>1. calls = [i \in 0 .. n |-> Value(calls, i)]
    BY <1>4
  <2> HIDE DEF Value, n
  <2> QED
    BY <2>1
<1>7. 0 \in 0 .. n /\ \A i \in 1 .. n : i \in 0 .. n /\ i # 0
  OBVIOUS
<1>8. calls[0] = Unchanged(n) /\ \A i \in 1 .. n : calls[i] = Unrolled(adjacency, calls[i - 1])
  BY <1>6, <1>7
<1> QED
  BY <1>5, <1>8

\* The nodes are started from one after the other.
LEMMA StartedInTurn ==
    ASSUME NEW adjacency, Len(adjacency) \in Nat, adjacency # <<>>
    PROVE  \E visited :
            /\ tarjan_scc(adjacency) = visited[Len(adjacency)].components
            /\ visited[0] = NotVisited(Len(adjacency))
            /\ \A i \in 1 .. Len(adjacency) :
                    visited[i] = Start(visited[i - 1], i, Calls(adjacency))
<1> DEFINE n == Len(adjacency)
           Value(f, i) == IF i = 0 THEN NotVisited(n) ELSE Start(f[i - 1], i, Calls(adjacency))
           Defines(f, k) == f = [i \in 0 .. k |-> Value(f, i)]
           visited == CHOOSE f : Defines(f, n)
           Z == {k \in 0 .. n : \E f : Defines(f, k)}
<1>1. 0 \in Z
  <2> DEFINE f == [i \in 0 .. 0 |-> NotVisited(n)]
  <2>1. \A i \in 0 .. 0 : Value(f, i) = NotVisited(n)
    OBVIOUS
  <2> HIDE DEF Value
  <2>2. Defines(f, 0)
    BY <2>1
  <2> QED
    BY <2>2
<1>2. ASSUME NEW k \in 1 .. n, k - 1 \in Z PROVE k \in Z
  <2>1. PICK f : Defines(f, k - 1)
    BY <1>2
  <2> DEFINE g == [i \in 0 .. k |-> IF i = k THEN Value(f, k) ELSE f[i]]
  <2>2. \A i \in 0 .. k - 1 : i \in 0 .. k /\ i # k /\ f[i] = Value(f, i)
    BY <2>1
  <2>3. \A i \in 0 .. k : i # 0 => i - 1 \in 0 .. k - 1
    OBVIOUS
  <2>4. \A i \in 0 .. k : i = 0 \/ f[i - 1] = g[i - 1]
    BY <2>2, <2>3
  <2>5. \A i \in 0 .. k : Value(f, i) = Value(g, i)
    BY <2>4
  <2>6. \A i \in 0 .. k : i = k \/ i \in 0 .. k - 1
    OBVIOUS
  <2>7. \A i \in 0 .. k : g[i] = Value(f, i)
    <3> HIDE DEF Value
    <3> QED
      BY <2>2, <2>6
  <2>8. g = [i \in 0 .. k |-> g[i]]
    OBVIOUS
  <2> HIDE DEF g, Value
  <2>9. Defines(g, k)
    BY <2>5, <2>7, <2>8
  <2> QED
    BY <2>9
<1>3. n \in Z
  <2> HIDE DEF Z, n
  <2>1. n \in Nat
    BY DEF n
  <2>2. \A k \in 0 .. n : k \in Z
    BY <1>1, <1>2, <2>1, FromTheStart
  <2> QED
    BY <2>1, <2>2
<1>4. Defines(visited, n)
  <2> HIDE DEF Defines
  <2> QED
    BY <1>3
<1>5. tarjan_scc(adjacency) = visited[n].components
  BY DEF tarjan_scc
<1> HIDE DEF visited
<1>6. \A i \in 0 .. n : visited[i] = Value(visited, i)
  <2>1. visited = [i \in 0 .. n |-> Value(visited, i)]
    BY <1>4
  <2> HIDE DEF Value, n
  <2> QED
    BY <2>1
<1>7. 0 \in 0 .. n /\ \A i \in 1 .. n : i \in 0 .. n /\ i # 0
  OBVIOUS
<1>8. visited[0] = NotVisited(n) /\ \A i \in 1 .. n : visited[i] = Start(visited[i - 1], i, Calls(adjacency))
  BY <1>6, <1>7
<1> QED
  BY <1>5, <1>8

-----------------------------------------------------------------------------
(* Graphs. *)

Nodes(a) == 1 .. Len(a)
IsGraph(a) == a \in Seq(Seq(Nodes(a)))
Successors(a, x) == ToSet(a[x])
Closed(a, S) == \A x \in S : Successors(a, x) \subseteq S

\* A path of any length leads from x to y.
Reaches(a, x, y) == \A S \in SUBSET Nodes(a) : x \in S /\ Closed(a, S) => y \in S

Component(a, x) == {y \in Nodes(a) : Reaches(a, x, y) /\ Reaches(a, y, x)}

\* Paths are closed under composition, and an edge is one.
LEMMA Paths ==
    ASSUME NEW a
    PROVE  /\ \A x : Reaches(a, x, x)
           /\ \A x, y, z : Reaches(a, x, y) /\ Reaches(a, y, z) => Reaches(a, x, z)
           /\ \A x, y : y \in Successors(a, x) => Reaches(a, x, y)
BY DEF Reaches, Closed

\* The successors of a node are nodes.
LEMMA SuccessorsAreNodes ==
    ASSUME NEW a, IsGraph(a), NEW x \in Nodes(a)
    PROVE  /\ Len(a) \in Nat /\ Len(a[x]) \in Nat /\ a[x] \in Seq(Nodes(a))
           /\ \A i \in 1 .. Len(a[x]) : a[x][i] \in Nodes(a) /\ a[x][i] \in Successors(a, x)
           /\ \A y \in Successors(a, x) : y \in Nodes(a) /\ \E i \in 1 .. Len(a[x]) : a[x][i] = y
<1>1. Len(a) \in Nat /\ a[x] \in Seq(Nodes(a))
  BY DEF IsGraph, Nodes
<1>2. DOMAIN a[x] = 1 .. Len(a[x]) /\ Len(a[x]) \in Nat /\ \A i \in 1 .. Len(a[x]) : a[x][i] \in Nodes(a)
  BY <1>1
<1> QED
  BY <1>1, <1>2 DEF Successors, ToSet

-----------------------------------------------------------------------------
(* The state of the algorithm. *)

SeenNodes(a, s) == {x \in Nodes(a) : s.indices[x] # 0}
Held(s) == ToSet(s.stack)
Done(a, s) == SeenNodes(a, s) \ Held(s)

\* Nodes are numbered as they are entered, and the stack has them in this order.
InOrder(a, s) ==
    /\ s \in TarjanStates(Len(a))
    /\ s.index # 0 /\ \A x \in Nodes(a) : s.indices[x] < s.index
    /\ Held(s) \subseteq SeenNodes(a, s)
    /\ \A i, j \in 1 .. Len(s.stack) : i < j => s.indices[s.stack[i]] < s.indices[s.stack[j]]

\* Open are the nodes whose calls have not returned.  Each node on the stack
\* leads to an open one below it, and each open one leads to all above it.
Connected(a, open, s) ==
    /\ open \subseteq Held(s)
    /\ \A x \in SeenNodes(a, s) : x \in open \/ Successors(a, x) \subseteq SeenNodes(a, s)
    /\ Closed(a, Done(a, s))
    /\ \A x \in Held(s) : \E g \in open : s.indices[g] <= s.indices[x] /\ Reaches(a, x, g)
    /\ \A g \in open, x \in Held(s) : s.indices[g] <= s.indices[x] => Reaches(a, g, x)

NoRepeats(list) == \A i, j \in 1 .. Len(list) : list[i] = list[j] => i = j

\* The components found so far are those of the nodes done.
Partitioned(a, done, components) ==
    /\ \A c \in 1 .. Len(components) :
        /\ NoRepeats(components[c]) /\ ToSet(components[c]) \subseteq done
        /\ \E x \in done : ToSet(components[c]) = Component(a, x)
    /\ \A x \in done : \E c \in 1 .. Len(components) : x \in ToSet(components[c])
    /\ \A c, e \in 1 .. Len(components) :
        c # e => ToSet(components[c]) \cap ToSet(components[e]) = {}

TarjanInv(a, open, s) ==
    InOrder(a, s) /\ Connected(a, open, s) /\ Partitioned(a, Done(a, s), s.components)

\* What a call leaves as it was: what was entered before it, and the stack below.
Grown(a, s, t) ==
    /\ s.index <= t.index
    /\ \A x \in Nodes(a) : s.indices[x] # 0 =>
            t.indices[x] = s.indices[x] /\ t.lowlinks[x] = s.lowlinks[x]
    /\ \A x \in Nodes(a) : s.indices[x] = 0 /\ t.indices[x] # 0 => s.index <= t.indices[x]
    /\ Len(s.stack) <= Len(t.stack)
    /\ \A i \in 1 .. Len(s.stack) : t.stack[i] = s.stack[i]
    /\ \A i \in 1 .. Len(t.stack) : i > Len(s.stack) => s.indices[t.stack[i]] = 0

\* No node a call left on the stack leads to one below with an index less than `low`.
LowEnough(a, low, first, s, t) ==
    \A i \in 1 .. Len(t.stack) : i >= first =>
        \A z \in Successors(a, t.stack[i]) : z \in Held(s) => low <= t.indices[z]

Comes(a, v, low, t) == \E y \in Held(t) : t.indices[y] = low /\ Reaches(a, v, y)

\* A call for v in state s returns in state t.
Returns(a, open, v, s, t) ==
    /\ TarjanInv(a, open, t) /\ Grown(a, s, t)
    /\ t.indices[v] # 0
    /\ t.lowlinks[v] <= t.indices[v]
    /\ \/ v \notin Held(t) /\ t.lowlinks[v] = t.indices[v]
       \/ Comes(a, v, t.lowlinks[v], t)
    /\ LowEnough(a, t.lowlinks[v], Len(s.stack) + 1, s, t)

\* It has visited the first i neighbors of v, and is in state t.
Visiting(a, open, v, s, t, i) ==
    /\ TarjanInv(a, open \cup {v}, t) /\ Grown(a, s, t)
    /\ Len(s.stack) + 1 <= Len(t.stack) /\ t.stack[Len(s.stack) + 1] = v
    /\ t.indices[v] = s.index
    /\ t.lowlinks[v] <= t.indices[v]
    /\ Comes(a, v, t.lowlinks[v], t)
    /\ LowEnough(a, t.lowlinks[v], Len(s.stack) + 2, s, t)
    /\ \A j \in 1 .. i : /\ t.indices[a[v][j]] # 0
                         /\ a[v][j] \in Held(t) => t.lowlinks[v] <= t.indices[a[v][j]]

\* The fields of a state.
LEMMA StateFields ==
    ASSUME NEW a, Len(a) \in Nat, NEW s \in TarjanStates(Len(a))
    PROVE  /\ s.index \in Nat /\ s.stack \in Seq(Nodes(a)) /\ Len(s.stack) \in Nat
           /\ s.indices \in [Nodes(a) -> Nat] /\ s.lowlinks \in [Nodes(a) -> Nat]
           /\ s.components \in Seq(Seq(Nodes(a)))
           /\ \A i \in 1 .. Len(s.stack) : s.stack[i] \in Nodes(a) /\ s.stack[i] \in Held(s)
           /\ \A x \in Held(s) : x \in Nodes(a) /\ \E i \in 1 .. Len(s.stack) : s.stack[i] = x
           /\ \A x \in Nodes(a) : s.indices[x] \in Nat /\ s.lowlinks[x] \in Nat
<1>1. /\ s.index \in Nat /\ s.stack \in Seq(Nodes(a))
      /\ s.indices \in [Nodes(a) -> Nat] /\ s.lowlinks \in [Nodes(a) -> Nat]
      /\ s.components \in Seq(Seq(Nodes(a)))
  BY DEF TarjanStates, Nodes
<1>2. DOMAIN s.stack = 1 .. Len(s.stack) /\ Len(s.stack) \in Nat
      /\ \A i \in 1 .. Len(s.stack) : s.stack[i] \in Nodes(a)
  BY <1>1
<1> QED
  BY <1>1, <1>2 DEF Held, ToSet

\* What entering a node changes, and what lowering its lowlink does.
AsEntered(a, s, v, t) ==
    /\ t \in TarjanStates(Len(a))
    /\ t.index = s.index + 1 /\ t.stack = Append(s.stack, v)
    /\ t.indices = [s.indices EXCEPT ![v] = s.index]
    /\ t.lowlinks = [s.lowlinks EXCEPT ![v] = s.index]
    /\ t.components = s.components

AsLowered(a, s, v, low, t) ==
    /\ t \in TarjanStates(Len(a))
    /\ t.index = s.index /\ t.stack = s.stack /\ t.indices = s.indices
    /\ t.lowlinks = [s.lowlinks EXCEPT ![v] = Lesser(s.lowlinks[v], low)]
    /\ t.components = s.components

\* Entering a node changes that.
LEMMA EnterFields ==
    ASSUME NEW a, Len(a) \in Nat, NEW s \in TarjanStates(Len(a)), NEW v \in Nodes(a)
    PROVE  AsEntered(a, s, v, Enter(s, v))
<1> DEFINE indices == [s.indices EXCEPT ![v] = s.index]
           lowlinks == [s.lowlinks EXCEPT ![v] = s.index]
           stack == Append(s.stack, v)
           index == s.index + 1
           t == [s EXCEPT !.indices = indices, !.lowlinks = lowlinks, !.index = index, !.stack = stack]
<1>1. index \in Nat /\ stack \in Seq(1 .. Len(a)) /\ indices \in [1 .. Len(a) -> Nat]
      /\ lowlinks \in [1 .. Len(a) -> Nat]
  BY StateFields DEF Nodes
<1>2. Enter(s, v) = t
  BY DEF Enter
<1> HIDE DEF index, stack, indices, lowlinks
<1>3. t \in TarjanStates(Len(a))
  BY <1>1 DEF TarjanStates
<1>4. /\ t.index = index /\ t.stack = stack /\ t.indices = indices
      /\ t.lowlinks = lowlinks /\ t.components = s.components
  BY <1>1 DEF TarjanStates
<1> HIDE DEF t
<1> QED
  BY <1>2, <1>3, <1>4 DEF index, stack, indices, lowlinks, AsEntered

\* Lowering a lowlink changes this.
LEMMA LowerFields ==
    ASSUME NEW a, Len(a) \in Nat, NEW s \in TarjanStates(Len(a)), NEW v \in Nodes(a), NEW low \in Nat
    PROVE  AsLowered(a, s, v, low, Lower(s, v, low))
BY DEF Lower, TarjanStates, Nodes, Lesser, AsLowered

-----------------------------------------------------------------------------
(* The steps of a call. *)

\* The invariant does not depend on the lowlinks.
LEMMA LowlinksAreFree ==
    ASSUME NEW a, NEW open, NEW s, NEW t \in TarjanStates(Len(a)), TarjanInv(a, open, s),
           t.index = s.index, t.stack = s.stack, t.indices = s.indices, t.components = s.components
    PROVE  TarjanInv(a, open, t) /\ Held(t) = Held(s)
<1>1. Held(t) = Held(s) /\ SeenNodes(a, t) = SeenNodes(a, s)
  BY DEF Held, SeenNodes
<1>2. Done(a, t) = Done(a, s)
  BY <1>1 DEF Done
<1>3. InOrder(a, t)
  BY <1>1 DEF InOrder, TarjanInv
<1>4. Connected(a, open, t)
  BY <1>1, <1>2 DEF Connected, TarjanInv
<1> QED
  BY <1>1, <1>2, <1>3, <1>4 DEF TarjanInv

\* A node is on the stack or not.
LEMMA HeldIsOnStack ==
    ASSUME NEW a, Len(a) \in Nat, NEW s \in TarjanStates(Len(a)), NEW x
    PROVE  OnStack(s, x) <=> x \in Held(s)
BY DEF OnStack, Held, ToSet

\* A call enters its node.
LEMMA Entered ==
    ASSUME NEW a, IsGraph(a), NEW open, NEW s, TarjanInv(a, open, s),
           NEW v \in Nodes(a), s.indices[v] = 0, \A g \in open : Reaches(a, g, v)
    PROVE  Visiting(a, open, v, s, Enter(s, v), 0)
<1> DEFINE t == Enter(s, v)
           m == Len(s.stack)
<1>1. Len(a) \in Nat
  BY DEF IsGraph
<1>2. s \in TarjanStates(Len(a)) /\ InOrder(a, s) /\ Connected(a, open, s)
      /\ Partitioned(a, Done(a, s), s.components)
  BY DEF TarjanInv, InOrder
<1>3. /\ s.index \in Nat /\ s.index # 0 /\ s.stack \in Seq(Nodes(a)) /\ m \in Nat
      /\ s.indices \in [Nodes(a) -> Nat] /\ s.lowlinks \in [Nodes(a) -> Nat]
      /\ \A i \in 1 .. m : s.stack[i] \in Nodes(a) /\ s.stack[i] \in Held(s)
      /\ \A x \in Held(s) : x \in Nodes(a) /\ \E i \in 1 .. m : s.stack[i] = x
      /\ \A x \in Nodes(a) : s.indices[x] \in Nat
  BY <1>1, <1>2, StateFields DEF InOrder
<1>4. /\ t \in TarjanStates(Len(a)) /\ t.index = s.index + 1 /\ t.stack = Append(s.stack, v)
      /\ t.indices = [s.indices EXCEPT ![v] = s.index]
      /\ t.lowlinks = [s.lowlinks EXCEPT ![v] = s.index] /\ t.components = s.components
  <2>1. AsEntered(a, s, v, Enter(s, v))
    BY <1>1, <1>2, EnterFields
  <2> QED
    BY <2>1 DEF AsEntered
<1> HIDE DEF t
<1>5. /\ Len(t.stack) = m + 1 /\ t.stack[m + 1] = v
      /\ \A i \in 1 .. m : t.stack[i] = s.stack[i]
  BY <1>3, <1>4
<1>6. /\ t.indices[v] = s.index /\ t.lowlinks[v] = s.index
      /\ \A x \in Nodes(a) : x # v => t.indices[x] = s.indices[x] /\ t.lowlinks[x] = s.lowlinks[x]
  BY <1>3, <1>4
<1>7. \A i \in 1 .. m + 1 : i = m + 1 \/ i \in 1 .. m
  BY <1>3
<1>8. Held(t) = Held(s) \cup {v}
  <2>1. /\ \A x \in Held(t) : \E i \in 1 .. Len(t.stack) : t.stack[i] = x
        /\ \A i \in 1 .. Len(t.stack) : t.stack[i] \in Held(t)
    <3>1. t \in TarjanStates(Len(a))
      BY <1>4
    <3> QED
      BY <1>1, <3>1, StateFields
  <2>2. m + 1 \in 1 .. m + 1 /\ \A i \in 1 .. m : i \in 1 .. m + 1
    BY <1>3
  <2> HIDE DEF m
  <2>3. v \in Held(t)
    BY <1>5, <2>1, <2>2
  <2>4. ASSUME NEW x \in Held(s) PROVE x \in Held(t)
    <3>1. PICK i \in 1 .. m : s.stack[i] = x
      BY <1>3
    <3> QED
      BY <1>5, <2>1, <2>2, <3>1
  <2>5. ASSUME NEW x \in Held(t) PROVE x \in Held(s) \cup {v}
    <3>1. PICK i \in 1 .. m + 1 : t.stack[i] = x
      BY <1>5, <2>1
    <3> QED
      BY <1>3, <1>5, <1>7, <3>1
  <2> QED
    BY <2>3, <2>4, <2>5
<1>9. v \notin Held(s) /\ v \notin open
  BY <1>2 DEF InOrder, SeenNodes, Connected
<1>10. SeenNodes(a, t) = SeenNodes(a, s) \cup {v} /\ Done(a, t) = Done(a, s)
  <2>1. SeenNodes(a, t) = SeenNodes(a, s) \cup {v}
    BY <1>3, <1>6 DEF SeenNodes
  <2>2. v \notin SeenNodes(a, s)
    BY DEF SeenNodes
  <2> QED
    BY <1>8, <2>1, <2>2 DEF Done
<1>11. InOrder(a, t)
  <2>1. \A x \in Nodes(a) : t.indices[x] < t.index
    BY <1>2, <1>3, <1>4, <1>6 DEF InOrder
  <2>2. Held(t) \subseteq SeenNodes(a, t)
    BY <1>2, <1>8, <1>10 DEF InOrder
  <2>3. ASSUME NEW i \in 1 .. m + 1, NEW j \in 1 .. m + 1, i < j
        PROVE  t.indices[t.stack[i]] < t.indices[t.stack[j]]
    <3>1. i \in 1 .. m /\ s.stack[i] \in Nodes(a) /\ s.stack[i] # v
      BY <1>3, <1>9, <2>3
    <3>2. CASE j = m + 1
      <4>1. t.indices[t.stack[i]] = s.indices[s.stack[i]] /\ s.indices[s.stack[i]] < s.index
        BY <1>2, <1>5, <1>6, <3>1 DEF InOrder
      <4> QED
        BY <1>5, <1>6, <3>2, <4>1
    <3>3. CASE j \in 1 .. m
      <4>1. s.stack[j] \in Nodes(a) /\ s.stack[j] # v
        BY <1>3, <1>9, <3>3
      <4>2. t.stack[i] = s.stack[i] /\ t.stack[j] = s.stack[j]
        BY <1>5, <3>1, <3>3
      <4>3. s.indices[s.stack[i]] < s.indices[s.stack[j]]
        BY <1>2, <2>3, <3>1, <3>3 DEF InOrder
      <4> QED
        BY <1>6, <3>1, <4>1, <4>2, <4>3
    <3> QED
      BY <1>7, <3>2, <3>3
  <2>4. t.index # 0
    BY <1>3, <1>4
  <2> QED
    BY <1>4, <1>5, <2>1, <2>2, <2>3, <2>4 DEF InOrder
<1>12. Connected(a, open \cup {v}, t)
  <2>1. open \cup {v} \subseteq Held(t)
    BY <1>2, <1>8 DEF Connected
  <2>2. \A x \in SeenNodes(a, t) : x \in open \cup {v} \/ Successors(a, x) \subseteq SeenNodes(a, t)
    BY <1>2, <1>10 DEF Connected
  <2>3. Closed(a, Done(a, t))
    BY <1>2, <1>10 DEF Connected
  <2>4. ASSUME NEW x \in Held(t)
        PROVE  \E g \in open \cup {v} : t.indices[g] <= t.indices[x] /\ Reaches(a, x, g)
    <3>1. CASE x = v
      BY <1>3, <1>6, <3>1, Paths, SMTT(30)
    <3>2. CASE x \in Held(s)
      <4>1. PICK g \in open : s.indices[g] <= s.indices[x] /\ Reaches(a, x, g)
        BY <1>2, <3>2 DEF Connected
      <4>2. g \in Nodes(a) /\ g # v /\ x \in Nodes(a) /\ x # v
        BY <1>2, <1>3, <1>9, <3>2 DEF Connected
      <4> QED
        BY <1>6, <4>1, <4>2
    <3> QED
      BY <1>8, <3>1, <3>2
  <2>5. ASSUME NEW g \in open \cup {v}, NEW x \in Held(t), t.indices[g] <= t.indices[x]
        PROVE  Reaches(a, g, x)
    <3>1. CASE x = v
      BY <3>1, Paths
    <3>2. CASE x \in Held(s)
      <4>1. x \in Nodes(a) /\ x # v /\ t.indices[x] = s.indices[x] /\ s.indices[x] < s.index
        BY <1>2, <1>3, <1>6, <1>9, <3>2 DEF InOrder
      <4>2. g # v
        BY <1>3, <1>6, <2>5, <4>1
      <4>3. g \in open /\ g \in Nodes(a) /\ t.indices[g] = s.indices[g]
        BY <1>2, <1>3, <1>6, <4>2 DEF Connected
      <4> QED
        BY <1>2, <2>5, <3>2, <4>1, <4>3 DEF Connected
    <3> QED
      BY <1>8, <3>1, <3>2
  <2> QED
    BY <2>1, <2>2, <2>3, <2>4, <2>5 DEF Connected
<1>13. TarjanInv(a, open \cup {v}, t)
  BY <1>2, <1>4, <1>10, <1>11, <1>12 DEF TarjanInv
<1>14. Grown(a, s, t)
  <2>1. \A i \in 1 .. Len(t.stack) : i > m => s.indices[t.stack[i]] = 0
    <3>1. ASSUME NEW i \in 1 .. Len(t.stack), i > m PROVE s.indices[t.stack[i]] = 0
      <4>1. i = m + 1
        BY <1>3, <1>5, <3>1
      <4> QED
        BY <1>5, <4>1
    <3> QED
      BY <3>1
  <2>2. \A x \in Nodes(a) : s.indices[x] = 0 /\ t.indices[x] # 0 => s.index <= t.indices[x]
    BY <1>3, <1>6
  <2>3. s.index <= t.index /\ m <= Len(t.stack)
    BY <1>3, <1>4, <1>5
  <2> QED
    BY <1>5, <1>6, <2>1, <2>2, <2>3 DEF Grown
<1>15. Comes(a, v, t.lowlinks[v], t)
  BY <1>6, <1>8, Paths DEF Comes
<1>16. LowEnough(a, t.lowlinks[v], m + 2, s, t)
  <2>1. ~ \E i \in 1 .. Len(t.stack) : i >= m + 2
    BY <1>3, <1>5
  <2> QED
    BY <2>1 DEF LowEnough
<1>17. t.lowlinks[v] <= t.indices[v] /\ m + 1 <= Len(t.stack)
  BY <1>3, <1>5, <1>6
<1>18. \A j \in 1 .. 0 : FALSE
  OBVIOUS
<1>19. Visiting(a, open, v, s, t, 0)
  BY <1>5, <1>6, <1>13, <1>14, <1>15, <1>16, <1>17, <1>18 DEF Visiting
<1> QED
  BY <1>19 DEF t

\* What was on the stack still is, and what is and was entered was on it.
LEMMA HeldThen ==
    ASSUME NEW a, Len(a) \in Nat, NEW s \in TarjanStates(Len(a)), NEW t \in TarjanStates(Len(a)),
           Grown(a, s, t)
    PROVE  /\ Held(s) \subseteq Held(t)
           /\ \A x \in Held(t) : s.indices[x] # 0 => x \in Held(s)
           /\ \A i \in 1 .. Len(t.stack) : i <= Len(s.stack) \/ s.indices[t.stack[i]] = 0
<1>1. /\ Len(s.stack) \in Nat /\ Len(t.stack) \in Nat
      /\ \A i \in 1 .. Len(s.stack) : s.stack[i] \in Held(s)
      /\ \A x \in Held(s) : \E i \in 1 .. Len(s.stack) : s.stack[i] = x
      /\ \A i \in 1 .. Len(t.stack) : t.stack[i] \in Held(t)
      /\ \A x \in Held(t) : \E i \in 1 .. Len(t.stack) : t.stack[i] = x
  <2>1. /\ Len(s.stack) \in Nat
        /\ \A i \in 1 .. Len(s.stack) : s.stack[i] \in Held(s)
        /\ \A x \in Held(s) : \E i \in 1 .. Len(s.stack) : s.stack[i] = x
    BY StateFields
  <2>2. /\ Len(t.stack) \in Nat
        /\ \A i \in 1 .. Len(t.stack) : t.stack[i] \in Held(t)
        /\ \A x \in Held(t) : \E i \in 1 .. Len(t.stack) : t.stack[i] = x
    BY StateFields
  <2> QED
    BY <2>1, <2>2
<1>2. ASSUME NEW x \in Held(s) PROVE x \in Held(t)
  <2>1. PICK i \in 1 .. Len(s.stack) : s.stack[i] = x
    BY <1>1
  <2>2. i \in 1 .. Len(t.stack) /\ t.stack[i] = x
    BY <1>1, <2>1 DEF Grown
  <2> QED
    BY <1>1, <2>2
<1>3. ASSUME NEW x \in Held(t), s.indices[x] # 0 PROVE x \in Held(s)
  <2>1. PICK i \in 1 .. Len(t.stack) : t.stack[i] = x
    BY <1>1
  <2>2. ~ (i > Len(s.stack))
    BY <1>3, <2>1 DEF Grown
  <2>3. i \in 1 .. Len(s.stack)
    BY <1>1, <2>2
  <2>4. s.stack[i] = x
    BY <2>1, <2>3 DEF Grown
  <2> QED
    BY <1>1, <2>3, <2>4
<1>4. ASSUME NEW i \in 1 .. Len(t.stack) PROVE i <= Len(s.stack) \/ s.indices[t.stack[i]] = 0
  <2>1. i <= Len(s.stack) \/ i > Len(s.stack)
    BY <1>1
  <2> QED
    BY <2>1 DEF Grown
<1> QED
  BY <1>2, <1>3, <1>4

\* A call within a call grows what the outer one has grown.
LEMMA GrownTwice ==
    ASSUME NEW a, Len(a) \in Nat, NEW s \in TarjanStates(Len(a)), NEW t \in TarjanStates(Len(a)),
           NEW u \in TarjanStates(Len(a)), Grown(a, s, t), Grown(a, t, u)
    PROVE  Grown(a, s, u)
<1>1. s.index \in Nat /\ Len(s.stack) \in Nat /\ \A x \in Nodes(a) : s.indices[x] \in Nat
  BY StateFields
<1>2. t.index \in Nat /\ Len(t.stack) \in Nat /\ \A x \in Nodes(a) : t.indices[x] \in Nat
  BY StateFields
<1>3. /\ u.index \in Nat /\ Len(u.stack) \in Nat /\ \A x \in Nodes(a) : u.indices[x] \in Nat
      /\ \A i \in 1 .. Len(u.stack) : u.stack[i] \in Nodes(a)
  BY StateFields
<1>4. s.index <= u.index /\ Len(s.stack) <= Len(u.stack)
  BY <1>1, <1>2, <1>3 DEF Grown
<1>5. \A x \in Nodes(a) : s.indices[x] # 0 => u.indices[x] = s.indices[x] /\ u.lowlinks[x] = s.lowlinks[x]
  BY DEF Grown
<1>6. ASSUME NEW x \in Nodes(a), s.indices[x] = 0, u.indices[x] # 0 PROVE s.index <= u.indices[x]
  <2>1. CASE t.indices[x] = 0
    <3>1. t.index <= u.indices[x] /\ s.index <= t.index
      BY <1>6, <2>1 DEF Grown
    <3> QED
      BY <1>1, <1>2, <1>3, <3>1
  <2>2. CASE t.indices[x] # 0
    BY <1>6, <2>2 DEF Grown
  <2> QED
    BY <2>1, <2>2
<1>7. ASSUME NEW i \in 1 .. Len(s.stack) PROVE u.stack[i] = s.stack[i]
  <2>1. i \in 1 .. Len(t.stack)
    BY <1>1, <1>2 DEF Grown
  <2> QED
    BY <2>1 DEF Grown
<1>8. ASSUME NEW i \in 1 .. Len(u.stack), i > Len(s.stack) PROVE s.indices[u.stack[i]] = 0
  <2>1. CASE i <= Len(t.stack)
    <3>1. i \in 1 .. Len(t.stack)
      BY <1>2, <1>3, <2>1
    <3>2. u.stack[i] = t.stack[i]
      BY <3>1 DEF Grown
    <3> QED
      BY <1>8, <3>1, <3>2 DEF Grown
  <2>2. CASE i > Len(t.stack)
    <3>1. t.indices[u.stack[i]] = 0 /\ u.stack[i] \in Nodes(a)
      BY <1>3, <2>2 DEF Grown
    <3> QED
      BY <3>1 DEF Grown
  <2> QED
    BY <1>2, <1>3, <2>1, <2>2
<1> QED
  BY <1>4, <1>5, <1>6, <1>7, <1>8 DEF Grown

\* Lowering the lowlink of a node entered since is a growth, too.
LEMMA GrownLower ==
    ASSUME NEW a, Len(a) \in Nat, NEW s \in TarjanStates(Len(a)), NEW t \in TarjanStates(Len(a)),
           NEW v \in Nodes(a), s.indices[v] = 0, NEW low \in Nat, NEW u, AsLowered(a, t, v, low, u),
           Grown(a, s, t)
    PROVE  Grown(a, s, u)
<1>1. \A x \in Nodes(a) : x # v => u.lowlinks[x] = t.lowlinks[x]
  BY StateFields DEF AsLowered
<1>2. u.index = t.index /\ u.stack = t.stack /\ u.indices = t.indices
  BY DEF AsLowered
<1> QED
  BY <1>1, <1>2 DEF Grown

\* The lesser of two numbers.
LEMMA LesserOfTwo ==
    ASSUME NEW x \in Nat, NEW y \in Nat
    PROVE  /\ Lesser(x, y) \in Nat /\ Lesser(x, y) <= x /\ Lesser(x, y) <= y
           /\ Lesser(x, y) = x \/ (Lesser(x, y) = y /\ y < x)
BY DEF Lesser

\* What a call that visits neighbors knows.
Knows(a, open, v, s, t) ==
    /\ Len(a) \in Nat /\ s \in TarjanStates(Len(a)) /\ t \in TarjanStates(Len(a))
    /\ InOrder(a, t) /\ Connected(a, open \cup {v}, t) /\ Grown(a, s, t)
    /\ t.lowlinks[v] \in Nat /\ t.indices[v] \in Nat
    /\ v \in Held(t) /\ t.indices[v] = s.index /\ s.index # 0
    /\ Held(s) \subseteq Nodes(a) /\ Held(t) \subseteq Nodes(a)
    /\ \A x \in Held(s) : s.indices[x] \in Nat /\ s.indices[x] # 0 /\ s.indices[x] < s.index
                          /\ t.indices[x] = s.indices[x]

\* It knows this whatever the number of neighbors.
LEMMA VisitingFacts ==
    ASSUME NEW a, IsGraph(a), NEW open, NEW s, TarjanInv(a, open, s), NEW v \in Nodes(a),
           s.indices[v] = 0, NEW t, NEW i, Visiting(a, open, v, s, t, i)
    PROVE  Knows(a, open, v, s, t)
<1>1. /\ Len(a) \in Nat /\ s \in TarjanStates(Len(a)) /\ t \in TarjanStates(Len(a))
      /\ InOrder(a, t) /\ Connected(a, open \cup {v}, t) /\ Grown(a, s, t) /\ InOrder(a, s)
  BY DEF IsGraph, Visiting, TarjanInv, InOrder
<1>2. /\ t.lowlinks[v] \in Nat /\ t.indices[v] \in Nat /\ Held(t) \subseteq Nodes(a)
  BY <1>1, StateFields
<1>3. /\ Held(s) \subseteq Nodes(a) /\ \A x \in Nodes(a) : s.indices[x] \in Nat
  BY <1>1, StateFields
<1>4. v \in Held(t) /\ t.indices[v] = s.index /\ s.index # 0
  BY <1>1 DEF Connected, Visiting, InOrder
<1>5. \A x \in Held(s) : s.indices[x] # 0 /\ s.indices[x] < s.index
  BY <1>1, <1>3 DEF InOrder, SeenNodes
<1>6. \A x \in Held(s) : t.indices[x] = s.indices[x]
  BY <1>1, <1>3, <1>5 DEF Grown
<1> QED
  BY <1>1, <1>2, <1>3, <1>4, <1>5, <1>6 DEF Knows

\* A neighbor that is on the stack lowers the lowlink to its index.
LEMMA VisitsHeld ==
    ASSUME NEW a, IsGraph(a), NEW open, NEW s, TarjanInv(a, open, s), NEW v \in Nodes(a),
           s.indices[v] = 0, NEW t, NEW i \in 1 .. Len(a[v]), Visiting(a, open, v, s, t, i - 1),
           a[v][i] \in Held(t), NEW u, AsLowered(a, t, v, t.indices[a[v][i]], u)
    PROVE  Visiting(a, open, v, s, u, i)
<1> DEFINE w == a[v][i]
<1>1. /\ Len(a) \in Nat /\ s \in TarjanStates(Len(a)) /\ t \in TarjanStates(Len(a))
      /\ InOrder(a, t) /\ Connected(a, open \cup {v}, t) /\ Grown(a, s, t)
      /\ t.lowlinks[v] \in Nat /\ t.indices[v] \in Nat
      /\ \A x \in Held(s) : x \in Nodes(a) /\ t.indices[x] \in Nat
      /\ \A x \in Held(t) : x \in Nodes(a) /\ t.indices[x] \in Nat /\ t.indices[x] # 0
  <2>1. /\ Len(a) \in Nat /\ s \in TarjanStates(Len(a)) /\ t \in TarjanStates(Len(a))
        /\ InOrder(a, t) /\ Connected(a, open \cup {v}, t) /\ Grown(a, s, t)
        /\ t.lowlinks[v] \in Nat /\ t.indices[v] \in Nat
        /\ Held(s) \subseteq Nodes(a) /\ Held(t) \subseteq Nodes(a)
    <3>1. Knows(a, open, v, s, t)
      BY VisitingFacts
    <3> QED
      BY <3>1 DEF Knows
  <2>2. \A x \in Nodes(a) : t.indices[x] \in Nat
    BY <2>1, StateFields
  <2> QED
    BY <2>1, <2>2 DEF InOrder, SeenNodes
<1>2. w \in Held(t) /\ w \in Nodes(a) /\ t.indices[w] \in Nat /\ w \in Successors(a, v)
  BY <1>1, SuccessorsAreNodes
<1> DEFINE low == t.indices[w]
<1>3. /\ u \in TarjanStates(Len(a)) /\ u.index = t.index /\ u.stack = t.stack
      /\ u.indices = t.indices /\ u.components = t.components
      /\ u.lowlinks[v] = Lesser(t.lowlinks[v], low)
  BY <1>1, StateFields DEF AsLowered
<1>4. /\ u.lowlinks[v] \in Nat /\ u.lowlinks[v] <= t.lowlinks[v] /\ u.lowlinks[v] <= t.indices[w]
      /\ u.lowlinks[v] = t.lowlinks[v] \/ u.lowlinks[v] = t.indices[w]
  BY <1>1, <1>2, <1>3, LesserOfTwo, ZenonT(60)
<1> HIDE DEF w, low
<1>5. TarjanInv(a, open \cup {v}, u) /\ Held(u) = Held(t)
  BY <1>3, LowlinksAreFree, SMTT(30) DEF Visiting
<1>6. Grown(a, s, u)
  BY <1>1, <1>2, GrownLower DEF w
<1>7. u.lowlinks[v] <= u.indices[v]
  BY <1>1, <1>3, <1>4 DEF Visiting
<1>8. Comes(a, v, u.lowlinks[v], u)
  BY <1>2, <1>3, <1>4, <1>5, Paths DEF Comes, Visiting
<1>9. LowEnough(a, u.lowlinks[v], Len(s.stack) + 2, s, u)
  <2>1. ASSUME NEW k \in 1 .. Len(t.stack), k >= Len(s.stack) + 2,
               NEW z \in Successors(a, t.stack[k]), z \in Held(s)
        PROVE  u.lowlinks[v] <= t.indices[z]
    <3>1. t.lowlinks[v] <= t.indices[z]
      BY <2>1 DEF Visiting, LowEnough
    <3> QED
      BY <1>1, <1>4, <2>1, <3>1
  <2> QED
    BY <1>3, <2>1 DEF LowEnough
<1>10. ASSUME NEW j \in 1 .. i
       PROVE  u.indices[a[v][j]] # 0 /\ (a[v][j] \in Held(u) => u.lowlinks[v] <= u.indices[a[v][j]])
  <2>1. CASE j = i
    BY <1>1, <1>2, <1>3, <1>4, <2>1 DEF w
  <2>2. CASE j # i
    <3>1. j \in 1 .. i - 1
      BY <2>2
    <3>2. t.indices[a[v][j]] # 0 /\ (a[v][j] \in Held(t) => t.lowlinks[v] <= t.indices[a[v][j]])
      BY <3>1 DEF Visiting
    <3> QED
      BY <1>1, <1>3, <1>4, <1>5, <3>2
  <2> QED
    BY <2>1, <2>2
<1> QED
  BY <1>3, <1>5, <1>6, <1>7, <1>8, <1>9, <1>10 DEF Visiting

\* A neighbor that has been entered and left the stack changes nothing.
LEMMA VisitsDone ==
    ASSUME NEW a, IsGraph(a), NEW open, NEW s, NEW v \in Nodes(a), NEW t,
           NEW i \in 1 .. Len(a[v]), Visiting(a, open, v, s, t, i - 1),
           t.indices[a[v][i]] # 0, a[v][i] \notin Held(t)
    PROVE  Visiting(a, open, v, s, t, i)
<1>1. \A j \in 1 .. i : j = i \/ j \in 1 .. i - 1
  OBVIOUS
<1> QED
  BY <1>1 DEF Visiting

\* The call for a neighbor entered by it lowers the lowlink to the neighbor's.
LEMMA VisitsEntered ==
    ASSUME NEW a, IsGraph(a), NEW open, NEW s, TarjanInv(a, open, s), NEW v \in Nodes(a),
           s.indices[v] = 0, NEW t, NEW i \in 1 .. Len(a[v]), Visiting(a, open, v, s, t, i - 1),
           t.indices[a[v][i]] = 0, NEW r, Returns(a, open \cup {v}, a[v][i], t, r),
           NEW u, AsLowered(a, r, v, r.lowlinks[a[v][i]], u)
    PROVE  Visiting(a, open, v, s, u, i)
<1> DEFINE w == a[v][i]
<1>1. /\ Len(a) \in Nat /\ s \in TarjanStates(Len(a)) /\ t \in TarjanStates(Len(a))
      /\ InOrder(a, t) /\ Connected(a, open \cup {v}, t) /\ Grown(a, s, t)
      /\ t.lowlinks[v] \in Nat /\ t.indices[v] \in Nat /\ t.indices[v] # 0
      /\ \A x \in Held(s) : x \in Nodes(a) /\ t.indices[x] \in Nat /\ t.indices[x] # 0
      /\ \A x \in Held(t) : x \in Nodes(a) /\ t.indices[x] \in Nat /\ t.indices[x] # 0
  <2>1. /\ Len(a) \in Nat /\ s \in TarjanStates(Len(a)) /\ t \in TarjanStates(Len(a))
        /\ InOrder(a, t) /\ Connected(a, open \cup {v}, t) /\ Grown(a, s, t)
        /\ t.lowlinks[v] \in Nat /\ t.indices[v] \in Nat
        /\ Held(s) \subseteq Nodes(a) /\ Held(t) \subseteq Nodes(a) /\ v \in Held(t)
    <3>1. Knows(a, open, v, s, t)
      BY VisitingFacts
    <3> QED
      BY <3>1 DEF Knows
  <2>2. \A x \in Nodes(a) : t.indices[x] \in Nat
    BY <2>1, StateFields
  <2>3. Held(s) \subseteq Held(t)
    BY <2>1, HeldThen
  <2> QED
    BY <2>1, <2>2, <2>3 DEF InOrder, SeenNodes
<1>2. w \in Nodes(a) /\ w \in Successors(a, v) /\ t.indices[w] = 0
  BY SuccessorsAreNodes
<1>3. /\ TarjanInv(a, open \cup {v}, r) /\ Grown(a, t, r) /\ r.indices[w] # 0
      /\ r.lowlinks[w] <= r.indices[w]
      /\ (w \notin Held(r) /\ r.lowlinks[w] = r.indices[w]) \/ Comes(a, w, r.lowlinks[w], r)
      /\ LowEnough(a, r.lowlinks[w], Len(t.stack) + 1, t, r)
  BY DEF Returns
<1> HIDE DEF w
<1>4. /\ r \in TarjanStates(Len(a)) /\ Held(r) \subseteq SeenNodes(a, r)
      /\ Held(r) \subseteq Nodes(a)
      /\ \A x \in Nodes(a) : r.indices[x] \in Nat /\ r.lowlinks[x] \in Nat
      /\ Len(t.stack) \in Nat /\ Len(s.stack) \in Nat /\ Len(r.stack) \in Nat
      /\ t.index \in Nat
  <2>1. r \in TarjanStates(Len(a)) /\ Held(r) \subseteq SeenNodes(a, r)
    BY <1>3 DEF TarjanInv, InOrder
  <2>2. Held(r) \subseteq Nodes(a) /\ \A x \in Nodes(a) : r.indices[x] \in Nat /\ r.lowlinks[x] \in Nat
    BY <1>1, <2>1, StateFields
  <2>3. Len(t.stack) \in Nat /\ t.index \in Nat
    BY <1>1, StateFields
  <2>4. Len(s.stack) \in Nat
    BY <1>1, StateFields
  <2>5. Len(r.stack) \in Nat
    BY <1>1, <2>1, StateFields
  <2> QED
    BY <2>1, <2>2, <2>3, <2>4, <2>5
<1>5. /\ \A x \in Nodes(a) : t.indices[x] # 0 =>
            r.indices[x] = t.indices[x] /\ r.lowlinks[x] = t.lowlinks[x]
      /\ t.index <= r.indices[w]
  BY <1>2, <1>3 DEF Grown
<1>6. /\ u \in TarjanStates(Len(a)) /\ u.index = r.index /\ u.stack = r.stack
      /\ u.indices = r.indices /\ u.components = r.components
      /\ u.lowlinks[v] = Lesser(t.lowlinks[v], r.lowlinks[w])
  <2>1. u.lowlinks[v] = Lesser(r.lowlinks[v], r.lowlinks[w])
    BY <1>1, <1>4, StateFields, SMTT(30) DEF AsLowered, w
  <2> QED
    BY <1>1, <1>5, <2>1 DEF AsLowered
<1>7. /\ u.lowlinks[v] \in Nat /\ u.lowlinks[v] <= t.lowlinks[v] /\ u.lowlinks[v] <= r.lowlinks[w]
      /\ u.lowlinks[v] = t.lowlinks[v] \/ (u.lowlinks[v] = r.lowlinks[w] /\ r.lowlinks[w] < t.lowlinks[v])
  <2>1. r.lowlinks[w] \in Nat
    BY <1>2, <1>4
  <2>2. t.lowlinks[v] \in Nat
    BY <1>1
  <2> QED
    BY <1>6, <2>1, <2>2, LesserOfTwo
<1>8. TarjanInv(a, open \cup {v}, u) /\ Held(u) = Held(r)
  BY <1>3, <1>6, LowlinksAreFree
<1>9. /\ Held(t) \subseteq Held(r)
      /\ \A x \in Held(r) : t.indices[x] # 0 => x \in Held(t)
  BY <1>1, <1>3, <1>4, HeldThen
<1>10. Held(s) \subseteq Held(t)
  BY <1>1, HeldThen
<1>11. Grown(a, s, u)
  <2>1. Grown(a, s, r)
    BY <1>1, <1>3, <1>4, GrownTwice
  <2> QED
    BY <1>1, <1>2, <1>4, <2>1, GrownLower DEF w
<1>12. Len(s.stack) + 1 <= Len(u.stack) /\ u.stack[Len(s.stack) + 1] = v
  <2>1. Len(s.stack) + 1 \in 1 .. Len(t.stack) /\ t.stack[Len(s.stack) + 1] = v
    BY <1>4 DEF Visiting
  <2>2. Len(t.stack) <= Len(r.stack) /\ r.stack[Len(s.stack) + 1] = t.stack[Len(s.stack) + 1]
    BY <1>3, <2>1 DEF Grown
  <2> QED
    BY <1>4, <1>6, <2>1, <2>2
<1>13. u.indices[v] = s.index /\ u.indices[v] = t.indices[v]
  BY <1>1, <1>5, <1>6 DEF Visiting
<1>14. u.lowlinks[v] <= u.indices[v]
  <2>1. t.lowlinks[v] <= t.indices[v]
    BY DEF Visiting
  <2> QED
    BY <1>1, <1>7, <1>13, <2>1
<1>15. Comes(a, v, u.lowlinks[v], u)
  <2>1. CASE u.lowlinks[v] = t.lowlinks[v]
    <3>1. PICK y \in Held(t) : t.indices[y] = t.lowlinks[v] /\ Reaches(a, v, y)
      BY DEF Visiting, Comes
    <3>2. u.indices[y] = t.indices[y]
      BY <1>1, <1>5, <1>6
    <3> QED
      BY <1>8, <1>9, <2>1, <3>1, <3>2 DEF Comes
  <2>2. CASE u.lowlinks[v] = r.lowlinks[w] /\ r.lowlinks[w] < t.lowlinks[v]
    <3>1. Comes(a, w, r.lowlinks[w], r)
      <4>1. SUFFICES ASSUME r.lowlinks[w] = r.indices[w] PROVE FALSE
        BY <1>3
      <4>2. t.lowlinks[v] <= t.indices[v] /\ t.indices[v] < t.index
        BY <1>1 DEF Visiting, InOrder
      <4> QED
        BY <1>1, <1>2, <1>4, <1>5, <2>2, <4>1, <4>2
    <3>2. PICK y \in Held(r) : r.indices[y] = r.lowlinks[w] /\ Reaches(a, w, y)
      BY <3>1 DEF Comes
    <3>3. Reaches(a, v, y)
      BY <1>2, <3>2, Paths
    <3> QED
      BY <1>6, <1>8, <2>2, <3>2, <3>3 DEF Comes
  <2> QED
    BY <1>7, <2>1, <2>2
<1>16. LowEnough(a, u.lowlinks[v], Len(s.stack) + 2, s, u)
  <2>1. ASSUME NEW k \in 1 .. Len(r.stack), k >= Len(s.stack) + 2,
               NEW z \in Successors(a, r.stack[k]), z \in Held(s)
        PROVE  u.lowlinks[v] <= r.indices[z]
    <3>1. z \in Held(t) /\ r.indices[z] = t.indices[z] /\ t.indices[z] \in Nat
      BY <1>1, <1>5, <1>10, <2>1
    <3>2. CASE k <= Len(t.stack)
      <4>1. k \in 1 .. Len(t.stack)
        BY <1>4, <3>2
      <4>2. r.stack[k] = t.stack[k]
        BY <1>3, <4>1 DEF Grown
      <4>3. t.lowlinks[v] <= t.indices[z]
        BY <2>1, <4>1, <4>2 DEF Visiting, LowEnough
      <4> QED
        BY <1>1, <1>7, <3>1, <4>3
    <3>3. CASE k > Len(t.stack)
      <4>1. k >= Len(t.stack) + 1
        BY <1>4, <3>3
      <4>2. r.lowlinks[w] <= r.indices[z]
        BY <1>3, <2>1, <3>1, <4>1 DEF LowEnough
      <4>3. r.lowlinks[w] \in Nat
        BY <1>2, <1>4
      <4> QED
        BY <1>7, <3>1, <4>2, <4>3
    <3> QED
      BY <1>4, <3>2, <3>3
  <2> QED
    BY <1>6, <2>1 DEF LowEnough
<1>17. ASSUME NEW j \in 1 .. i
       PROVE  u.indices[a[v][j]] # 0 /\ (a[v][j] \in Held(u) => u.lowlinks[v] <= u.indices[a[v][j]])
  <2>1. CASE j = i
    <3>1. a[v][j] = w
      BY <2>1 DEF w
    <3> QED
      BY <1>2, <1>3, <1>4, <1>6, <1>7, <3>1
  <2>2. CASE j # i
    <3>1. j \in 1 .. i - 1 /\ j \in 1 .. Len(a[v])
      BY <2>2, SuccessorsAreNodes
    <3>2. t.indices[a[v][j]] # 0 /\ (a[v][j] \in Held(t) => t.lowlinks[v] <= t.indices[a[v][j]])
      BY <3>1 DEF Visiting
    <3>3. a[v][j] \in Nodes(a)
      BY <3>1, SuccessorsAreNodes
    <3>4. u.indices[a[v][j]] = t.indices[a[v][j]]
      BY <1>5, <1>6, <3>2, <3>3
    <3>5. a[v][j] \in Held(u) => a[v][j] \in Held(t)
      BY <1>8, <1>9, <3>2
    <3> QED
      BY <1>1, <1>7, <3>2, <3>4, <3>5
  <2> QED
    BY <2>1, <2>2
<1> QED
  BY <1>8, <1>11, <1>12, <1>13, <1>14, <1>15, <1>16, <1>17 DEF Visiting

\* When all neighbors have been visited, every successor has been entered.
LEMMA AllVisited ==
    ASSUME NEW a, IsGraph(a), NEW open, NEW s, NEW v \in Nodes(a), NEW t,
           Visiting(a, open, v, s, t, Len(a[v]))
    PROVE  /\ \A z \in Successors(a, v) :
                /\ z \in Nodes(a) /\ t.indices[z] # 0
                /\ z \in Held(t) => t.lowlinks[v] <= t.indices[z]
           /\ \A x \in SeenNodes(a, t) : x \in open \/ Successors(a, x) \subseteq SeenNodes(a, t)
<1>1. ASSUME NEW z \in Successors(a, v)
      PROVE  z \in Nodes(a) /\ t.indices[z] # 0 /\ (z \in Held(t) => t.lowlinks[v] <= t.indices[z])
  <2>1. PICK j \in 1 .. Len(a[v]) : a[v][j] = z
    BY SuccessorsAreNodes
  <2>2. z \in Nodes(a)
    BY SuccessorsAreNodes
  <2> QED
    BY <2>1, <2>2 DEF Visiting
<1>2. ASSUME NEW x \in SeenNodes(a, t), x \notin open PROVE Successors(a, x) \subseteq SeenNodes(a, t)
  <2>1. CASE x = v
    BY <1>1, <2>1 DEF SeenNodes
  <2>2. CASE x # v
    BY <1>2, <2>2 DEF Visiting, TarjanInv, Connected
  <2> QED
    BY <2>1, <2>2
<1> QED
  BY <1>1, <1>2

\* A node that leads to one entered before it stays on the stack.
LEMMA LeavesHeld ==
    ASSUME NEW a, IsGraph(a), NEW open, NEW s, TarjanInv(a, open, s), NEW v \in Nodes(a),
           s.indices[v] = 0, NEW t, Visiting(a, open, v, s, t, Len(a[v])),
           t.lowlinks[v] # t.indices[v]
    PROVE  Returns(a, open, v, s, t)
<1>1. Knows(a, open, v, s, t)
  BY VisitingFacts
<1>2. /\ Len(a) \in Nat /\ s \in TarjanStates(Len(a)) /\ t \in TarjanStates(Len(a))
      /\ InOrder(a, t) /\ Connected(a, open \cup {v}, t) /\ Grown(a, s, t)
      /\ t.lowlinks[v] \in Nat /\ t.indices[v] \in Nat /\ t.indices[v] # 0
      /\ Held(s) \subseteq Nodes(a) /\ Held(t) \subseteq Nodes(a)
  BY <1>1 DEF Knows
<1>3. /\ \A x \in Nodes(a) : t.indices[x] \in Nat
      /\ Len(t.stack) \in Nat
  BY <1>2, StateFields
<1>4. Len(s.stack) \in Nat
  BY <1>2, StateFields
<1>5. t.lowlinks[v] <= t.indices[v] /\ Comes(a, v, t.lowlinks[v], t)
  BY DEF Visiting
<1>6. \E g \in open : t.indices[g] <= t.indices[v] /\ Reaches(a, v, g)
  <2>1. PICK y \in Held(t) : t.indices[y] = t.lowlinks[v] /\ Reaches(a, v, y)
    BY <1>5 DEF Comes
  <2>2. PICK g \in open \cup {v} : t.indices[g] <= t.indices[y] /\ Reaches(a, y, g)
    BY <1>2 DEF Connected
  <2>3. g \in Nodes(a)
    BY <1>2 DEF Connected
  <2>4. g # v /\ t.indices[g] <= t.indices[v]
    BY <1>2, <1>3, <1>5, <2>1, <2>2, <2>3
  <2>5. Reaches(a, v, g)
    BY <2>1, <2>2, Paths
  <2> QED
    BY <2>2, <2>4, <2>5
<1>7. ASSUME NEW x \in Held(t)
      PROVE  \E g \in open : t.indices[g] <= t.indices[x] /\ Reaches(a, x, g)
  <2>1. PICK h \in open \cup {v} : t.indices[h] <= t.indices[x] /\ Reaches(a, x, h)
    BY <1>2 DEF Connected
  <2>2. CASE h \in open
    BY <2>1, <2>2
  <2>3. CASE h = v
    <3>1. PICK g \in open : t.indices[g] <= t.indices[v] /\ Reaches(a, v, g)
      BY <1>6
    <3>2. g \in Nodes(a) /\ x \in Nodes(a)
      BY <1>2 DEF Connected
    <3>3. t.indices[g] <= t.indices[x]
      BY <1>2, <1>3, <2>1, <2>3, <3>1, <3>2
    <3>4. Reaches(a, x, g)
      BY <2>1, <2>3, <3>1, Paths
    <3> QED
      BY <3>3, <3>4
  <2> QED
    BY <2>2, <2>3
<1>8. Connected(a, open, t)
  <2>1. open \subseteq Held(t) /\ Closed(a, Done(a, t))
    BY <1>2 DEF Connected
  <2>2. \A x \in SeenNodes(a, t) : x \in open \/ Successors(a, x) \subseteq SeenNodes(a, t)
    BY AllVisited
  <2>3. \A g \in open, x \in Held(t) : t.indices[g] <= t.indices[x] => Reaches(a, g, x)
    BY <1>2 DEF Connected
  <2> QED
    BY <1>7, <2>1, <2>2, <2>3 DEF Connected
<1>9. TarjanInv(a, open, t)
  BY <1>8 DEF Visiting, TarjanInv
<1>10. LowEnough(a, t.lowlinks[v], Len(s.stack) + 1, s, t)
  <2>1. ASSUME NEW k \in 1 .. Len(t.stack), k >= Len(s.stack) + 1,
               NEW z \in Successors(a, t.stack[k]), z \in Held(s)
        PROVE  t.lowlinks[v] <= t.indices[z]
    <3>1. CASE k = Len(s.stack) + 1
      <4>1. t.stack[k] = v
        BY <3>1 DEF Visiting
      <4>2. z \in Held(t)
        BY <1>2, <2>1, HeldThen
      <4> QED
        BY <2>1, <4>1, <4>2, AllVisited
    <3>2. CASE k >= Len(s.stack) + 2
      BY <2>1, <3>2 DEF Visiting, LowEnough
    <3> QED
      BY <1>3, <1>4, <2>1, <3>1, <3>2
  <2> QED
    BY <2>1 DEF LowEnough
<1> QED
  BY <1>2, <1>5, <1>9, <1>10 DEF Returns

\* What leaving the first node of a component changes.
AsLeft(a, s, v, t, u) ==
    LET popped == SubSeq(t.stack, Len(s.stack) + 1, Len(t.stack))
    IN  /\ u \in TarjanStates(Len(a))
        /\ u.index = t.index /\ u.indices = t.indices /\ u.lowlinks = t.lowlinks
        /\ Len(u.stack) = Len(s.stack)
        /\ \A i \in 1 .. Len(s.stack) : u.stack[i] = t.stack[i]
        /\ u.components = Append(t.components, popped)
        /\ popped \in Seq(Nodes(a)) /\ NoRepeats(popped)
        /\ ToSet(popped) = {t.stack[i] : i \in Len(s.stack) + 1 .. Len(t.stack)}

\* The end of a sequence.
LEMMA EndOfSequence ==
    ASSUME NEW S, NEW q \in Seq(S), NEW m \in Nat, m <= Len(q)
    PROVE  LET end == SubSeq(q, m + 1, Len(q))
           IN  /\ end \in Seq(S) /\ Len(end) = Len(q) - m
               /\ \A i \in 1 .. Len(end) : end[i] = q[m + i] /\ m + i \in m + 1 .. Len(q)
               /\ ToSet(end) = {q[i] : i \in m + 1 .. Len(q)}
<1> DEFINE end == SubSeq(q, m + 1, Len(q))
<1>1. Len(q) \in Nat /\ \A i \in 1 .. Len(q) : q[i] \in S
  OBVIOUS
<1>2. end = [i \in 1 .. Len(q) - m |-> q[m + 1 + i - 1]]
  BY <1>1
<1> HIDE DEF end
<1>3. Len(q) - m \in Nat
  BY <1>1
<1>4. \A i \in 1 .. Len(q) - m : end[i] = q[m + i] /\ m + i \in m + 1 .. Len(q) /\ q[m + i] \in S
  BY <1>1, <1>2
<1>5. DOMAIN end = 1 .. Len(q) - m
  BY <1>2
<1>6. end \in Seq(S)
  BY <1>2, <1>3, <1>4, <1>5, <1>1
<1>7. Len(end) = Len(q) - m
  BY <1>3, <1>5, <1>6
<1>8. \A i \in m + 1 .. Len(q) : i - m \in 1 .. Len(q) - m /\ m + (i - m) = i
  BY <1>1
<1>9. ToSet(end) = {q[i] : i \in m + 1 .. Len(q)}
  <2>1. ASSUME NEW x \in ToSet(end) PROVE x \in {q[i] : i \in m + 1 .. Len(q)}
    BY <1>4, <1>5 DEF ToSet
  <2>2. ASSUME NEW i \in m + 1 .. Len(q) PROVE q[i] \in ToSet(end)
    <3>1. i - m \in DOMAIN end /\ end[i - m] = q[m + (i - m)]
      BY <1>4, <1>5, <1>8
    <3> QED
      BY <1>8, <3>1 DEF ToSet
  <2> QED
    BY <2>1, <2>2
<1> QED
  BY <1>4, <1>6, <1>7, <1>9 DEF end

\* Leaving the first node of a component changes that.
LEMMA LeaveFields ==
    ASSUME NEW a, IsGraph(a), NEW open, NEW s, TarjanInv(a, open, s), NEW v \in Nodes(a),
           s.indices[v] = 0, NEW t, Visiting(a, open, v, s, t, Len(a[v])),
           t.lowlinks[v] = t.indices[v]
    PROVE  AsLeft(a, s, v, t, Leave(t, v))
<1> DEFINE m == Len(s.stack)
           n == Len(t.stack)
           popped == SubSeq(t.stack, m + 1, n)
           bottom == CHOOSE i \in DOMAIN t.stack : t.stack[i] = v
<1>1. /\ Len(a) \in Nat /\ s \in TarjanStates(Len(a)) /\ t \in TarjanStates(Len(a))
      /\ InOrder(a, t)
  <2>1. Knows(a, open, v, s, t)
    BY VisitingFacts
  <2> QED
    BY <2>1 DEF Knows
<1>2. /\ n \in Nat /\ t.stack \in Seq(Nodes(a)) /\ t.components \in Seq(Seq(Nodes(a)))
      /\ \A i \in 1 .. n : t.stack[i] \in Nodes(a)
      /\ \A x \in Nodes(a) : t.indices[x] \in Nat
  BY <1>1, StateFields
<1>3. m \in Nat
  BY <1>1, StateFields
<1>4. m + 1 <= n /\ t.stack[m + 1] = v
  BY DEF Visiting
<1>5. \A i, j \in 1 .. n : t.stack[i] = t.stack[j] => i = j
  <2>1. ASSUME NEW i \in 1 .. n, NEW j \in 1 .. n, t.stack[i] = t.stack[j], i # j PROVE FALSE
    <3>1. i < j \/ j < i
      BY <1>2, <2>1
    <3>2. t.indices[t.stack[i]] < t.indices[t.stack[j]] \/ t.indices[t.stack[j]] < t.indices[t.stack[i]]
      BY <1>1, <3>1 DEF InOrder
    <3> QED
      BY <1>2, <2>1, <3>2
  <2> QED
    BY <2>1
<1>6. bottom = m + 1
  <2>1. DOMAIN t.stack = 1 .. n /\ m + 1 \in 1 .. n
    BY <1>2, <1>3, <1>4
  <2> HIDE DEF m, n
  <2>2. bottom \in DOMAIN t.stack /\ t.stack[bottom] = v
    BY <1>4, <2>1
  <2> HIDE DEF bottom
  <2> QED
    BY <1>4, <1>5, <2>1, <2>2
<1>7. /\ popped \in Seq(Nodes(a)) /\ Len(popped) = n - m
      /\ \A i \in 1 .. Len(popped) : popped[i] = t.stack[m + i] /\ m + i \in m + 1 .. n
      /\ ToSet(popped) = {t.stack[i] : i \in m + 1 .. n}
  <2>1. m <= n
    BY <1>2, <1>3, <1>4
  <2> HIDE DEF m
  <2> QED
    BY <1>2, <1>3, <2>1, EndOfSequence
<1>8. NoRepeats(popped)
  <2>1. ASSUME NEW i \in 1 .. Len(popped), NEW j \in 1 .. Len(popped), popped[i] = popped[j] PROVE i = j
    <3> HIDE DEF popped
    <3>1. t.stack[m + i] = t.stack[m + j] /\ m + i \in 1 .. n /\ m + j \in 1 .. n
      BY <1>3, <1>7, <2>1
    <3>2. m + i = m + j
      BY <1>5, <3>1
    <3>3. i \in Nat /\ j \in Nat
      BY <1>7, <1>2, <1>3
    <3> HIDE DEF m
    <3> QED
      BY <1>3, <3>2, <3>3
  <2> QED
    BY <2>1 DEF NoRepeats
<1>9. /\ SubSeq(t.stack, 1, m) \in Seq(Nodes(a)) /\ Len(SubSeq(t.stack, 1, m)) = m
      /\ \A i \in 1 .. m : SubSeq(t.stack, 1, m)[i] = t.stack[i]
  BY <1>2, <1>3, <1>4
<1> DEFINE below == SubSeq(t.stack, 1, m)
           components == Append(t.components, popped)
           u == [t EXCEPT !.stack = below, !.components = components]
<1>10. Leave(t, v) = u
  <2> HIDE DEF m, n
  <2>2. Leave(t, v) = [t EXCEPT !.stack = SubSeq(t.stack, 1, bottom - 1),
                !.components = Append(t.components, SubSeq(t.stack, bottom, Len(t.stack)))]
    BY DEF Leave
  <2> HIDE DEF bottom
  <2>3. bottom - 1 = m
    BY <1>3, <1>6
  <2>4. SubSeq(t.stack, 1, bottom - 1) = below
    BY <2>3
  <2>5. Append(t.components, SubSeq(t.stack, bottom, Len(t.stack))) = components
    BY <1>6 DEF n
  <2> HIDE DEF below, components
  <2> QED
    BY <2>2, <2>4, <2>5
<1>11. components \in Seq(Seq(Nodes(a)))
  <2> HIDE DEF popped
  <2> QED
    BY <1>2, <1>7
<1> HIDE DEF below, components, popped, bottom
<1>12. below \in Seq(1 .. Len(a)) /\ components \in Seq(Seq(1 .. Len(a)))
  BY <1>9, <1>11 DEF below, Nodes
<1>13. u \in TarjanStates(Len(a))
  BY <1>1, <1>12 DEF TarjanStates
<1>14. u.stack = below /\ u.components = components /\ u.index = t.index /\ u.indices = t.indices
       /\ u.lowlinks = t.lowlinks
  BY <1>1 DEF TarjanStates
<1> HIDE DEF u
<1> QED
  BY <1>7, <1>8, <1>9, <1>10, <1>13, <1>14 DEF AsLeft, below, components, popped

\* One more component, of nodes that were not done before.
LEMMA OneMoreComponent ==
    ASSUME NEW a, NEW S, NEW done, NEW components \in Seq(Seq(S)), Partitioned(a, done, components),
           NEW popped \in Seq(S), NoRepeats(popped), ToSet(popped) \cap done = {},
           NEW v \in ToSet(popped), ToSet(popped) = Component(a, v)
    PROVE  Partitioned(a, done \cup ToSet(popped), Append(components, popped))
<1> DEFINE n == Len(components)
           more == Append(components, popped)
<1>1. /\ n \in Nat /\ Len(more) = n + 1 /\ more[n + 1] = popped
      /\ \A i \in 1 .. n : more[i] = components[i] /\ i \in 1 .. n + 1
      /\ \A i \in 1 .. n + 1 : i = n + 1 \/ i \in 1 .. n
      /\ n + 1 \in 1 .. n + 1
  OBVIOUS
<1> HIDE DEF more
<1>2. \A c \in 1 .. n : ToSet(components[c]) \subseteq done
  BY DEF Partitioned
<1> HIDE DEF n
<1>3. ASSUME NEW c \in 1 .. n + 1
      PROVE  /\ NoRepeats(more[c]) /\ ToSet(more[c]) \subseteq done \cup ToSet(popped)
             /\ \E x \in done \cup ToSet(popped) : ToSet(more[c]) = Component(a, x)
  <2>1. CASE c = n + 1
    BY <1>1, <2>1
  <2>2. CASE c \in 1 .. n
    BY <1>1, <2>2 DEF Partitioned, n
  <2> QED
    BY <1>1, <2>1, <2>2
<1>4. ASSUME NEW x \in done \cup ToSet(popped)
      PROVE  \E c \in 1 .. n + 1 : x \in ToSet(more[c])
  <2>1. CASE x \in ToSet(popped)
    BY <1>1, <2>1
  <2>2. CASE x \in done
    <3>1. PICK c \in 1 .. n : x \in ToSet(components[c])
      BY <2>2 DEF Partitioned, n
    <3> QED
      BY <1>1, <3>1
  <2> QED
    BY <2>1, <2>2
<1>5. ASSUME NEW c \in 1 .. n + 1, NEW e \in 1 .. n + 1, c # e
      PROVE  ToSet(more[c]) \cap ToSet(more[e]) = {}
  <2>1. CASE c \in 1 .. n /\ e \in 1 .. n
    BY <1>1, <1>5, <2>1 DEF Partitioned, n
  <2>2. CASE c = n + 1 /\ e \in 1 .. n
    BY <1>1, <1>2, <2>2
  <2>3. CASE e = n + 1 /\ c \in 1 .. n
    BY <1>1, <1>2, <2>3
  <2> QED
    BY <1>1, <1>5, <2>1, <2>2, <2>3
<1>6. Partitioned(a, done \cup ToSet(popped), more)
  BY <1>1, <1>3, <1>4, <1>5 DEF Partitioned
<1> QED
  BY <1>6 DEF more

\* The first node of a component leaves the stack with the whole component.
LEMMA LeavesFirst ==
    ASSUME NEW a, IsGraph(a), NEW open, NEW s, TarjanInv(a, open, s), NEW v \in Nodes(a),
           s.indices[v] = 0, \A g \in open : Reaches(a, g, v),
           NEW t, Visiting(a, open, v, s, t, Len(a[v])), t.lowlinks[v] = t.indices[v],
           NEW u, AsLeft(a, s, v, t, u)
    PROVE  Returns(a, open, v, s, u)
<1> DEFINE m == Len(s.stack)
           n == Len(t.stack)
           popped == SubSeq(t.stack, m + 1, n)
           P == ToSet(popped)
<1>1. Knows(a, open, v, s, t)
  BY VisitingFacts
<1>2. /\ Len(a) \in Nat /\ s \in TarjanStates(Len(a)) /\ t \in TarjanStates(Len(a))
      /\ InOrder(a, t) /\ Connected(a, open \cup {v}, t) /\ Grown(a, s, t)
      /\ t.lowlinks[v] \in Nat /\ t.indices[v] \in Nat /\ t.indices[v] # 0 /\ t.indices[v] = s.index
      /\ Held(s) \subseteq Nodes(a) /\ Held(t) \subseteq Nodes(a)
      /\ \A x \in Held(s) : s.indices[x] \in Nat /\ s.indices[x] # 0 /\ s.indices[x] < s.index
                            /\ t.indices[x] = s.indices[x]
  BY <1>1 DEF Knows
<1>3. /\ n \in Nat /\ t.components \in Seq(Seq(Nodes(a)))
      /\ \A i \in 1 .. n : t.stack[i] \in Nodes(a) /\ t.stack[i] \in Held(t)
      /\ \A x \in Held(t) : \E i \in 1 .. n : t.stack[i] = x
      /\ \A x \in Nodes(a) : t.indices[x] \in Nat
  BY <1>2, StateFields
<1>4. /\ m \in Nat
      /\ \A i \in 1 .. m : s.stack[i] \in Held(s)
      /\ \A x \in Held(s) : \E i \in 1 .. m : s.stack[i] = x
  BY <1>2, StateFields
<1>5. m + 1 <= n /\ t.stack[m + 1] = v /\ m + 1 \in 1 .. n
  <2>1. m + 1 <= n /\ t.stack[m + 1] = v
    BY DEF Visiting
  <2> HIDE DEF m, n
  <2> QED
    BY <1>3, <1>4, <2>1
<1>6. /\ u \in TarjanStates(Len(a)) /\ u.index = t.index /\ u.indices = t.indices
      /\ u.lowlinks = t.lowlinks /\ Len(u.stack) = m /\ \A i \in 1 .. m : u.stack[i] = t.stack[i]
      /\ u.components = Append(t.components, popped)
      /\ popped \in Seq(Nodes(a)) /\ NoRepeats(popped)
      /\ P = {t.stack[i] : i \in m + 1 .. n}
  BY DEF AsLeft
<1>7. \A i \in 1 .. m : t.stack[i] = s.stack[i]
  BY <1>2 DEF Grown
<1>8. Held(u) = Held(s)
  <2>1. /\ \A i \in 1 .. m : u.stack[i] \in Held(u)
        /\ \A x \in Held(u) : \E i \in 1 .. m : u.stack[i] = x
    <3>1. u \in TarjanStates(Len(a)) /\ Len(u.stack) = m /\ Len(a) \in Nat
      BY <1>2, <1>6
    <3> HIDE DEF m
    <3>2. /\ \A i \in 1 .. Len(u.stack) : u.stack[i] \in Held(u)
          /\ \A x \in Held(u) : \E i \in 1 .. Len(u.stack) : u.stack[i] = x
      BY <3>1, StateFields
    <3> QED
      BY <3>1, <3>2
  <2> HIDE DEF m
  <2>2. ASSUME NEW x \in Held(u) PROVE x \in Held(s)
    <3>1. PICK i \in 1 .. m : u.stack[i] = x
      BY <2>1
    <3> QED
      BY <1>4, <1>6, <1>7, <3>1
  <2>3. ASSUME NEW x \in Held(s) PROVE x \in Held(u)
    <3>1. PICK i \in 1 .. m : s.stack[i] = x
      BY <1>4
    <3> QED
      BY <1>6, <1>7, <2>1, <3>1
  <2> QED
    BY <2>2, <2>3
<1> HIDE DEF popped, P, m, n
<1>9. \A i \in m + 1 .. n : i \in 1 .. n /\ i > m /\ i >= m + 1
  BY <1>3, <1>4
<1>10. \A i \in 1 .. n : i \in 1 .. m \/ i \in m + 1 .. n
  BY <1>3, <1>4
<1>11. Held(t) = Held(s) \cup P
  <2>1. Held(s) \subseteq Held(t)
    BY <1>2, HeldThen
  <2>2. P \subseteq Held(t)
    BY <1>3, <1>6, <1>9
  <2>3. ASSUME NEW x \in Held(t) PROVE x \in Held(s) \cup P
    <3>1. PICK i \in 1 .. n : t.stack[i] = x
      BY <1>3
    <3> QED
      BY <1>4, <1>6, <1>7, <1>10, <3>1
  <2> QED
    BY <2>1, <2>2, <2>3
<1>12. \A x \in P : s.indices[x] = 0
  <2>1. \A i \in m + 1 .. n : s.indices[t.stack[i]] = 0
    BY <1>2, <1>9 DEF Grown, m, n
  <2> QED
    BY <1>6, <2>1
<1>13. P \cap Held(s) = {} /\ v \in P
  <2>1. m + 1 \in m + 1 .. n
    BY <1>3, <1>4, <1>5
  <2> QED
    BY <1>2, <1>5, <1>6, <1>12, <2>1
<1>14. open \subseteq Held(s)
  BY DEF TarjanInv, Connected
<1>15. SeenNodes(a, u) = SeenNodes(a, t)
  BY <1>6 DEF SeenNodes
<1>16. Held(t) \subseteq SeenNodes(a, t)
  BY <1>2 DEF InOrder
<1>17. Done(a, u) = Done(a, t) \cup P
  BY <1>8, <1>11, <1>13, <1>15, <1>16 DEF Done
<1>18. \A x \in SeenNodes(a, t) : x \in open \/ Successors(a, x) \subseteq SeenNodes(a, t)
  BY AllVisited
<1>19. ASSUME NEW x \in P, NEW z \in Successors(a, x) PROVE z \notin Held(s)
  <2>1. SUFFICES ASSUME z \in Held(s) PROVE t.lowlinks[v] <= t.indices[z]
    BY <1>2
  <2>2. CASE x = v
    <3>1. z \in Held(t)
      BY <1>11, <2>1
    <3> QED
      BY <1>19, <2>2, <3>1, AllVisited
  <2>3. CASE x # v
    <3>1. PICK i \in m + 1 .. n : t.stack[i] = x
      BY <1>6
    <3>2. i \in 1 .. n /\ i >= m + 2
      BY <1>3, <1>4, <1>5, <1>9, <2>3, <3>1
    <3>3. LowEnough(a, t.lowlinks[v], m + 2, s, t)
      BY DEF Visiting, m
    <3> QED
      BY <1>19, <2>1, <3>1, <3>2, <3>3 DEF LowEnough, n
  <2> QED
    BY <2>2, <2>3
<1>20. Closed(a, Done(a, u))
  <2>1. ASSUME NEW x \in Done(a, t) PROVE Successors(a, x) \subseteq Done(a, t)
    BY <1>2 DEF Connected, Closed
  <2>2. ASSUME NEW x \in P, NEW z \in Successors(a, x) PROVE z \in Done(a, t) \cup P
    <3>1. x \in SeenNodes(a, t) /\ x \notin open
      BY <1>11, <1>13, <1>14, <1>16
    <3>2. z \in SeenNodes(a, t)
      BY <1>18, <2>2, <3>1
    <3>3. z \notin Held(s)
      BY <1>19
    <3> QED
      BY <1>11, <3>2, <3>3 DEF Done
  <2> QED
    BY <1>17, <2>1, <2>2 DEF Closed
<1>21. InOrder(a, u)
  <2>1. /\ u.index # 0 /\ \A x \in Nodes(a) : u.indices[x] < u.index
    BY <1>2, <1>6 DEF InOrder
  <2>2. Held(u) \subseteq SeenNodes(a, u)
    BY <1>8, <1>11, <1>15, <1>16
  <2>3. ASSUME NEW i \in 1 .. m, NEW j \in 1 .. m, i < j
        PROVE  u.indices[u.stack[i]] < u.indices[u.stack[j]]
    <3>1. i \in 1 .. n /\ j \in 1 .. n
      BY <1>3, <1>4, <1>5
    <3> QED
      BY <1>2, <1>6, <2>3, <3>1 DEF InOrder, n
  <2> QED
    BY <1>6, <2>1, <2>2, <2>3 DEF InOrder
<1>22. Connected(a, open, u)
  <2>1. Connected(a, open, s)
    BY DEF TarjanInv
  <2>2. \A x \in Held(s) : \E g \in open : u.indices[g] <= u.indices[x] /\ Reaches(a, x, g)
    <3>1. ASSUME NEW x \in Held(s)
          PROVE  \E g \in open : u.indices[g] <= u.indices[x] /\ Reaches(a, x, g)
      <4>1. PICK g \in open : s.indices[g] <= s.indices[x] /\ Reaches(a, x, g)
        BY <2>1 DEF Connected
      <4> QED
        BY <1>2, <1>6, <1>14, <4>1
    <3> QED
      BY <3>1
  <2>3. ASSUME NEW g \in open, NEW x \in Held(s), u.indices[g] <= u.indices[x] PROVE Reaches(a, g, x)
    <3>1. s.indices[g] <= s.indices[x]
      BY <1>2, <1>6, <1>14, <2>3
    <3> QED
      BY <2>1, <3>1 DEF Connected
  <2> QED
    BY <1>8, <1>14, <1>15, <1>18, <1>20, <2>2, <2>3 DEF Connected
<1>23. P = Component(a, v)
  <2>1. ASSUME NEW x \in P PROVE x \in Component(a, v)
    <3>1. x \in Held(t) /\ x \in Nodes(a)
      BY <1>2, <1>11
    <3>2. PICK i \in m + 1 .. n : t.stack[i] = x
      BY <1>6
    <3>3. t.indices[v] <= t.indices[x]
      <4>1. CASE i = m + 1
        BY <1>3, <1>5, <3>1, <3>2, <4>1
      <4>2. CASE i # m + 1
        <5>1. i \in 1 .. n /\ m + 1 < i
          BY <1>3, <1>4, <3>2, <4>2
        <5>2. t.indices[t.stack[m + 1]] < t.indices[t.stack[i]]
          BY <1>2, <1>5, <5>1 DEF InOrder, n
        <5> QED
          BY <1>2, <1>3, <1>5, <3>1, <3>2, <5>2
      <4> QED
        BY <4>1, <4>2
    <3>4. Reaches(a, v, x)
      BY <1>2, <3>1, <3>3 DEF Connected
    <3>5. PICK g \in open \cup {v} : Reaches(a, x, g)
      BY <1>2, <3>1 DEF Connected
    <3>6. Reaches(a, x, v)
      BY <3>5, Paths
    <3> QED
      BY <3>1, <3>4, <3>6 DEF Component
  <2>2. ASSUME NEW x \in Component(a, v) PROVE x \in P
    <3>1. Done(a, u) \subseteq Nodes(a) /\ Done(a, t) \subseteq Nodes(a)
      BY DEF Done, SeenNodes
    <3>2. x \in Done(a, t) \cup P
      BY <1>13, <1>17, <1>20, <3>1 DEF Component, Reaches
    <3>3. v \notin Done(a, t)
      BY <1>11, <1>13 DEF Done
    <3>4. x \notin Done(a, t)
      <4>1. Closed(a, Done(a, t))
        BY <1>2 DEF Connected
      <4> QED
        BY <3>1, <3>3, <4>1 DEF Component, Reaches
    <3> QED
      BY <3>2, <3>4
  <2> QED
    BY <2>1, <2>2
<1>24. Partitioned(a, Done(a, u), u.components)
  <2>1. Partitioned(a, Done(a, t), t.components)
    BY DEF Visiting, TarjanInv
  <2>2. P \cap Done(a, t) = {}
    BY <1>11 DEF Done
  <2>3. Partitioned(a, Done(a, t) \cup ToSet(popped), Append(t.components, popped))
    BY <1>3, <1>6, <1>13, <1>23, <2>1, <2>2, OneMoreComponent DEF P
  <2> QED
    BY <1>6, <1>17, <2>3 DEF P
<1>25. TarjanInv(a, open, u)
  BY <1>21, <1>22, <1>24 DEF TarjanInv
<1>26. Grown(a, s, u)
  <2>1. /\ s.index <= u.index
        /\ \A x \in Nodes(a) : s.indices[x] # 0 =>
                u.indices[x] = s.indices[x] /\ u.lowlinks[x] = s.lowlinks[x]
        /\ \A x \in Nodes(a) : s.indices[x] = 0 /\ u.indices[x] # 0 => s.index <= u.indices[x]
    BY <1>2, <1>6 DEF Grown
  <2>2. m <= Len(u.stack) /\ \A i \in 1 .. m : u.stack[i] = s.stack[i]
    BY <1>4, <1>6, <1>7
  <2>3. ~ \E i \in 1 .. Len(u.stack) : i > m
    BY <1>4, <1>6
  <2> QED
    BY <2>1, <2>2, <2>3 DEF Grown, m
<1>27. LowEnough(a, u.lowlinks[v], m + 1, s, u)
  <2>1. ~ \E i \in 1 .. Len(u.stack) : i >= m + 1
    BY <1>4, <1>6
  <2> QED
    BY <2>1 DEF LowEnough
<1>28. v \notin Held(u) /\ u.lowlinks[v] = u.indices[v] /\ u.indices[v] # 0 /\ u.lowlinks[v] <= u.indices[v]
  BY <1>2, <1>6, <1>8, <1>13
<1> QED
  BY <1>25, <1>26, <1>27, <1>28 DEF Returns, m

-----------------------------------------------------------------------------
(* The calls. *)

Unseen(a, s) == {x \in Nodes(a) : s.indices[x] = 0}

\* A call may be made: each node whose call has not returned leads to v.
MayCall(a, open, v, s) ==
    TarjanInv(a, open, s) /\ s.indices[v] = 0 /\ \A g \in open : Reaches(a, g, v)

\* `call` does what it should where no more than k nodes have yet to be entered.
Serves(a, call, k) ==
    \A open \in SUBSET Nodes(a), v \in Nodes(a), s \in TarjanStates(Len(a)) :
        MayCall(a, open, v, s) /\ Cardinality(Unseen(a, s)) <= k => Returns(a, open, v, s, call[v][s])

\* Within a call there is one node less to enter.
LEMMA OneLess ==
    ASSUME NEW a, Len(a) \in Nat, NEW s, NEW t, Grown(a, s, t), NEW v \in Nodes(a),
           s.indices[v] = 0, t.indices[v] # 0, NEW k \in Nat, Cardinality(Unseen(a, s)) <= k
    PROVE  Cardinality(Unseen(a, t)) <= k - 1
<1>1. IsFiniteSet(Nodes(a))
  <2>1. 1 \in Int /\ Len(a) \in Int
    OBVIOUS
  <2>2. IsFiniteSet(1 .. Len(a))
    BY <2>1, FS_Interval
  <2> QED
    BY <2>2 DEF Nodes
<1>2. IsFiniteSet(Unseen(a, s))
  <2>1. Unseen(a, s) \subseteq Nodes(a)
    BY DEF Unseen
  <2> QED
    BY <1>1, <2>1, FS_Subset
<1>3. Unseen(a, t) \subseteq Unseen(a, s) \ {v}
  BY DEF Grown, Unseen
<1>4. v \in Unseen(a, s)
  BY DEF Unseen
<1>5. IsFiniteSet(Unseen(a, s) \ {v}) /\ Cardinality(Unseen(a, s) \ {v}) = Cardinality(Unseen(a, s)) - 1
  BY <1>2, <1>4, FS_RemoveElement
<1>6. Cardinality(Unseen(a, t)) <= Cardinality(Unseen(a, s) \ {v}) /\ IsFiniteSet(Unseen(a, t))
  BY <1>3, <1>5, FS_Subset
<1>7. Cardinality(Unseen(a, t)) \in Nat
  BY <1>6, FS_CardinalityType
<1>8. Cardinality(Unseen(a, s)) \in Nat
  BY <1>2, FS_CardinalityType
<1> QED
  BY <1>5, <1>6, <1>7, <1>8

\* One neighbor more.
LEMMA OneNeighborMore ==
    ASSUME NEW a, IsGraph(a), NEW open \in SUBSET Nodes(a), NEW v \in Nodes(a), NEW s,
           MayCall(a, open, v, s), NEW call, NEW k \in Nat, Serves(a, call, k - 1),
           Cardinality(Unseen(a, s)) <= k, NEW t, NEW i \in 1 .. Len(a[v]),
           Visiting(a, open, v, s, t, i - 1), NEW u, u = Visit(t, v, a[v][i], call)
    PROVE  Visiting(a, open, v, s, u, i)
<1> DEFINE w == a[v][i]
<1>1. TarjanInv(a, open, s) /\ s.indices[v] = 0 /\ \A g \in open : Reaches(a, g, v)
  BY DEF MayCall
<1>2. Knows(a, open, v, s, t)
  BY <1>1, VisitingFacts
<1>3. /\ Len(a) \in Nat /\ s \in TarjanStates(Len(a)) /\ t \in TarjanStates(Len(a))
      /\ Grown(a, s, t) /\ t.indices[v] # 0
  BY <1>2 DEF Knows
<1>4. w \in Nodes(a) /\ w \in Successors(a, v)
  BY SuccessorsAreNodes
<1>5. t.indices[w] \in Nat
  BY <1>3, <1>4, StateFields
<1> HIDE DEF w
<1>6. CASE t.indices[w] = 0
  <2> DEFINE r == call[w][t]
  <2>1. MayCall(a, open \cup {v}, w, t)
    <3>1. TarjanInv(a, open \cup {v}, t)
      BY DEF Visiting
    <3>2. Reaches(a, v, w) /\ \A g \in open : Reaches(a, g, w)
      BY <1>1, <1>4, Paths
    <3> QED
      BY <1>6, <3>1, <3>2 DEF MayCall
  <2>2. Cardinality(Unseen(a, t)) <= k - 1
    BY <1>1, <1>3, OneLess
  <2>3. Returns(a, open \cup {v}, w, t, r)
    BY <1>3, <1>4, <2>1, <2>2 DEF Serves
  <2>4. u = Lower(r, v, r.lowlinks[w])
    BY <1>6 DEF Visit, w
  <2> HIDE DEF r
  <2>5. r \in TarjanStates(Len(a))
    BY <2>3 DEF Returns, TarjanInv, InOrder
  <2>6. r.lowlinks[w] \in Nat
    BY <1>3, <1>4, <2>5, StateFields
  <2>7. AsLowered(a, r, v, r.lowlinks[w], u)
    BY <1>3, <2>4, <2>5, <2>6, LowerFields
  <2> QED
    BY <1>1, <1>6, <2>3, <2>7, VisitsEntered DEF w
<1>7. CASE t.indices[w] # 0 /\ w \in Held(t)
  <2>1. OnStack(t, w)
    BY <1>3, <1>7, HeldIsOnStack
  <2>2. u = Lower(t, v, t.indices[w])
    BY <1>7, <2>1 DEF Visit, w
  <2>3. AsLowered(a, t, v, t.indices[w], u)
    BY <1>3, <1>5, <2>2, LowerFields
  <2> QED
    BY <1>1, <1>7, <2>3, VisitsHeld DEF w
<1>8. CASE t.indices[w] # 0 /\ w \notin Held(t)
  <2>1. ~ OnStack(t, w)
    BY <1>3, <1>8, HeldIsOnStack
  <2>2. u = t
    BY <1>8, <2>1 DEF Visit, w
  <2> QED
    BY <1>8, <2>2, VisitsDone DEF w
<1> QED
  BY <1>6, <1>7, <1>8

\* One call deeper.
LEMMA OneDeeper ==
    ASSUME NEW a, IsGraph(a), NEW call, NEW k \in Nat, Serves(a, call, k - 1)
    PROVE  Serves(a, Unrolled(a, call), k)
<1> SUFFICES ASSUME NEW open \in SUBSET Nodes(a), NEW v \in Nodes(a), NEW s \in TarjanStates(Len(a)),
                    MayCall(a, open, v, s), Cardinality(Unseen(a, s)) <= k
             PROVE  Returns(a, open, v, s, Unrolled(a, call)[v][s])
  BY DEF Serves
<1>1. Unrolled(a, call)[v][s] = tarjan_strongconnect(v, a, s, call)
  BY DEF Unrolled, Nodes
<1>2. Len(a[v]) \in Nat /\ Len(a) \in Nat
  BY SuccessorsAreNodes
<1>3. PICK visited :
        /\ tarjan_strongconnect(v, a, s, call) = Leave(visited[Len(a[v])], v)
        /\ visited[0] = Enter(s, v)
        /\ \A i \in 1 .. Len(a[v]) : visited[i] = Visit(visited[i - 1], v, a[v][i], call)
  BY <1>2, VisitedInTurn
<1>4. TarjanInv(a, open, s) /\ s.indices[v] = 0 /\ \A g \in open : Reaches(a, g, v)
  BY DEF MayCall
<1> DEFINE n == Len(a[v])
           Z == {i \in 0 .. n : Visiting(a, open, v, s, visited[i], i)}
<1>5. 0 \in Z
  <2>1. Visiting(a, open, v, s, visited[0], 0)
    BY <1>3, <1>4, Entered
  <2> QED
    BY <1>2, <2>1
<1>6. ASSUME NEW i \in 1 .. n, i - 1 \in Z PROVE i \in Z
  <2>1. Visiting(a, open, v, s, visited[i - 1], i - 1)
    BY <1>6
  <2>2. visited[i] = Visit(visited[i - 1], v, a[v][i], call)
    BY <1>3
  <2>3. Visiting(a, open, v, s, visited[i], i)
    BY <2>1, <2>2, OneNeighborMore
  <2> QED
    BY <2>3
<1>7. Visiting(a, open, v, s, visited[n], n)
  <2> HIDE DEF Z, n
  <2>1. n \in Nat
    BY <1>2 DEF n
  <2>2. \A i \in 0 .. n : i \in Z
    BY <1>5, <1>6, <2>1, FromTheStart
  <2>3. n \in Z
    BY <2>1, <2>2
  <2> QED
    BY <2>3 DEF Z
<1> DEFINE t == visited[n]
<1>8. Unrolled(a, call)[v][s] = Leave(t, v)
  BY <1>1, <1>3
<1> HIDE DEF t
<1>9. CASE t.lowlinks[v] # t.indices[v]
  <2>1. Leave(t, v) = t
    BY <1>9 DEF Leave
  <2>2. Returns(a, open, v, s, t)
    BY <1>4, <1>7, <1>9, LeavesHeld DEF t
  <2> QED
    BY <1>8, <2>1, <2>2
<1>10. CASE t.lowlinks[v] = t.indices[v]
  <2>1. AsLeft(a, s, v, t, Leave(t, v))
    BY <1>4, <1>7, <1>10, LeaveFields DEF t
  <2>2. Returns(a, open, v, s, Leave(t, v))
    BY <1>4, <1>7, <1>10, <2>1, LeavesFirst DEF t
  <2> QED
    BY <1>8, <2>2
<1> QED
  BY <1>9, <1>10

\* The depth of calls that there are nodes is enough for every call.
LEMMA CallsServe ==
    ASSUME NEW a, IsGraph(a)
    PROVE  Serves(a, Calls(a), Len(a))
<1>1. Len(a) \in Nat
  BY DEF IsGraph
<1>2. PICK calls :
        /\ Calls(a) = calls[Len(a)] /\ calls[0] = Unchanged(Len(a))
        /\ \A i \in 1 .. Len(a) : calls[i] = Unrolled(a, calls[i - 1])
  BY <1>1, CallsInTurn
<1> DEFINE n == Len(a)
           Z == {k \in 0 .. n : Serves(a, calls[k], k)}
<1>3. 0 \in Z
  <2>1. ASSUME NEW v \in Nodes(a), NEW s \in TarjanStates(Len(a)),
               s.indices[v] = 0, Cardinality(Unseen(a, s)) <= 0
        PROVE  FALSE
    <3>1. IsFiniteSet(Unseen(a, s))
      <4>1. IsFiniteSet(Nodes(a)) /\ Unseen(a, s) \subseteq Nodes(a)
        BY <1>1, FS_Interval DEF Nodes, Unseen
      <4> QED
        BY <4>1, FS_Subset
    <3>2. Cardinality(Unseen(a, s)) = 0
      BY <2>1, <3>1, FS_CardinalityType
    <3>3. Unseen(a, s) = {}
      BY <3>1, <3>2, FS_EmptySet
    <3> QED
      BY <2>1, <3>3 DEF Unseen
  <2>2. Serves(a, calls[0], 0)
    BY <2>1 DEF Serves, MayCall
  <2> QED
    BY <1>1, <2>2
<1>4. ASSUME NEW k \in 1 .. n, k - 1 \in Z PROVE k \in Z
  <2>1. Serves(a, calls[k - 1], k - 1) /\ k \in Nat
    BY <1>1, <1>4
  <2>2. Serves(a, Unrolled(a, calls[k - 1]), k)
    BY <2>1, OneDeeper
  <2> QED
    BY <1>2, <2>2
<1>5. n \in Z
  <2> HIDE DEF Z, n
  <2>1. n \in Nat
    BY <1>1 DEF n
  <2>2. \A k \in 0 .. n : k \in Z
    BY <1>3, <1>4, <2>1, FromTheStart
  <2> QED
    BY <2>1, <2>2
<1> QED
  BY <1>2, <1>5

-----------------------------------------------------------------------------
(* The whole algorithm. *)

\* Nothing has been visited.
LEMMA NothingVisited ==
    ASSUME NEW a, IsGraph(a)
    PROVE  TarjanInv(a, {}, NotVisited(Len(a)))
<1> DEFINE s == NotVisited(Len(a))
<1>1. Len(a) \in Nat
  BY DEF IsGraph
<1>2. /\ s.index = 1 /\ s.stack = <<>> /\ s.components = <<>>
      /\ s.indices = [x \in Nodes(a) |-> 0] /\ s.lowlinks = [x \in Nodes(a) |-> 0]
      /\ s = [index |-> s.index, stack |-> s.stack, indices |-> s.indices,
              lowlinks |-> s.lowlinks, components |-> s.components]
  BY DEF NotVisited, Nodes
<1>3. s \in TarjanStates(Len(a))
  <2>1. /\ <<>> \in Seq(1 .. Len(a)) /\ <<>> \in Seq(Seq(1 .. Len(a)))
        /\ [x \in Nodes(a) |-> 0] \in [1 .. Len(a) -> Nat] /\ 1 \in Nat
    BY DEF Nodes
  <2> HIDE DEF s
  <2> QED
    BY <1>2, <2>1 DEF TarjanStates
<1> HIDE DEF s
<1>4. /\ \A x \in Nodes(a) : s.indices[x] = 0
      /\ Len(s.stack) = 0 /\ Len(s.components) = 0
  BY <1>2
<1>5. Held(s) = {} /\ SeenNodes(a, s) = {} /\ Done(a, s) = {}
  BY <1>2, <1>4 DEF Held, SeenNodes, Done, ToSet
<1>6. \A i \in 1 .. 0 : FALSE
  OBVIOUS
<1>7. InOrder(a, s)
  BY <1>2, <1>3, <1>4, <1>5, <1>6 DEF InOrder
<1>8. Connected(a, {}, s)
  BY <1>5 DEF Connected, Closed
<1>9. Partitioned(a, Done(a, s), s.components)
  BY <1>4, <1>5, <1>6 DEF Partitioned
<1>10. TarjanInv(a, {}, s)
  BY <1>7, <1>8, <1>9 DEF TarjanInv
<1> QED
  BY <1>10 DEF s

\* One more start.
LEMMA OneMoreStart ==
    ASSUME NEW a, IsGraph(a), NEW s, TarjanInv(a, {}, s), NEW i \in Nodes(a),
           \A j \in 1 .. i - 1 : s.indices[j] # 0, NEW t, t = Start(s, i, Calls(a))
    PROVE  TarjanInv(a, {}, t) /\ \A j \in 1 .. i : t.indices[j] # 0
<1>1. Len(a) \in Nat /\ s \in TarjanStates(Len(a))
  BY DEF IsGraph, TarjanInv, InOrder
<1>2. \A j \in 1 .. i : j = i \/ (j \in 1 .. i - 1 /\ j \in Nodes(a))
  BY DEF Nodes
<1>3. CASE s.indices[i] # 0
  <2>1. t = s
    BY <1>3 DEF Start
  <2> QED
    BY <1>2, <1>3, <2>1
<1>4. CASE s.indices[i] = 0
  <2>1. t = Calls(a)[i][s]
    BY <1>4 DEF Start
  <2>2. MayCall(a, {}, i, s)
    BY <1>4 DEF MayCall
  <2>3. Cardinality(Unseen(a, s)) <= Len(a)
    <3>1. IsFiniteSet(Nodes(a)) /\ Cardinality(Nodes(a)) = Len(a)
      <4>1. IsFiniteSet(1 .. Len(a)) /\ Cardinality(1 .. Len(a)) = IF 1 > Len(a) THEN 0 ELSE Len(a) - 1 + 1
        BY <1>1, FS_Interval
      <4> QED
        BY <1>1, <4>1 DEF Nodes
    <3>2. Unseen(a, s) \subseteq Nodes(a)
      BY DEF Unseen
    <3> QED
      BY <3>1, <3>2, FS_Subset
  <2>4. Returns(a, {}, i, s, t)
    BY <1>1, <2>1, <2>2, <2>3, CallsServe DEF Serves
  <2> QED
    BY <1>2, <2>4 DEF Returns, Grown
<1> QED
  BY <1>3, <1>4

\* tarjan_scc (validation.rs:299-318): every table is in exactly one list, and the
\* lists are the sets of tables that lead to each other, no table twice in one.
THEOREM TarjanFindsComponents ==
    ASSUME NEW a, IsGraph(a)
    PROVE  tarjan_scc(a) \in Seq(Seq(Nodes(a))) /\ Partitioned(a, Nodes(a), tarjan_scc(a))
<1>1. Len(a) \in Nat
  BY DEF IsGraph
<1>2. CASE a = <<>>
  <2>1. tarjan_scc(a) = <<>> /\ Len(a) = 0
    BY <1>2 DEF tarjan_scc
  <2>2. Nodes(a) = {} /\ Len(<<>>) = 0 /\ \A i \in 1 .. 0 : FALSE
    BY <2>1 DEF Nodes
  <2> QED
    BY <2>1, <2>2 DEF Partitioned
<1>3. CASE a # <<>>
  <2>1. PICK visited :
          /\ tarjan_scc(a) = visited[Len(a)].components /\ visited[0] = NotVisited(Len(a))
          /\ \A i \in 1 .. Len(a) : visited[i] = Start(visited[i - 1], i, Calls(a))
    BY <1>1, <1>3, StartedInTurn
  <2> DEFINE n == Len(a)
             Z == {i \in 0 .. n : /\ TarjanInv(a, {}, visited[i])
                                  /\ \A j \in 1 .. i : visited[i].indices[j] # 0}
  <2>2. 0 \in Z
    <3>1. TarjanInv(a, {}, visited[0]) /\ \A j \in 1 .. 0 : FALSE
      BY <2>1, NothingVisited
    <3> QED
      BY <1>1, <3>1
  <2>3. ASSUME NEW i \in 1 .. n, i - 1 \in Z PROVE i \in Z
    <3>1. i \in Nodes(a) /\ TarjanInv(a, {}, visited[i - 1])
          /\ \A j \in 1 .. i - 1 : visited[i - 1].indices[j] # 0
      BY <2>3 DEF Nodes
    <3>2. visited[i] = Start(visited[i - 1], i, Calls(a))
      BY <2>1
    <3>3. TarjanInv(a, {}, visited[i]) /\ \A j \in 1 .. i : visited[i].indices[j] # 0
      BY <3>1, <3>2, OneMoreStart
    <3> QED
      BY <3>3
  <2>4. n \in Z
    <3> HIDE DEF Z, n
    <3>1. n \in Nat
      BY <1>1 DEF n
    <3>2. \A i \in 0 .. n : i \in Z
      BY <2>2, <2>3, <3>1, FromTheStart
    <3> QED
      BY <3>1, <3>2
  <2> DEFINE s == visited[n]
  <2>5. TarjanInv(a, {}, s) /\ \A x \in Nodes(a) : s.indices[x] # 0
    BY <2>4 DEF Nodes
  <2>6. tarjan_scc(a) = s.components
    BY <2>1
  <2> HIDE DEF s
  <2>7. Held(s) = {}
    BY <2>5 DEF TarjanInv, Connected
  <2>8. Done(a, s) = Nodes(a)
    BY <2>5, <2>7 DEF Done, SeenNodes
  <2>9. s.components \in Seq(Seq(Nodes(a)))
    BY <1>1, <2>5, StateFields DEF TarjanInv, InOrder
  <2> QED
    BY <2>5, <2>6, <2>8, <2>9 DEF TarjanInv
<1> QED
  BY <1>2, <1>3

-----------------------------------------------------------------------------
(* The rules. *)

\* What the rules read of a Database: lists of tables, columns, indexes and keys.
Readable(d) ==
    /\ IsList(d.tables) /\ IsList(d.views)
    /\ \A i \in DOMAIN d.tables :
        /\ IsList(d.tables[i].columns) /\ IsList(d.tables[i].indexes)
        /\ IsList(d.tables[i].foreign_keys)
        /\ \A k \in DOMAIN d.tables[i].foreign_keys : IsList(d.tables[i].foreign_keys[k].referenced)
    /\ \A i \in DOMAIN d.views : IsList(d.views[i].columns)

\* No list, and a list of one.
LEMMA ShortLists ==
    /\ IsList(<<>>) /\ ToSet(<<>>) = {}
    /\ \A f : IsList(<<f>>) /\ ToSet(<<f>>) = {f}
<1>1. IsList(<<>>) /\ ToSet(<<>>) = {}
  BY DEF IsList, ToSet
<1>2. ASSUME NEW f PROVE IsList(<<f>>) /\ ToSet(<<f>>) = {f}
  <2>1. ToSet(<<f>>) = {f}
    BY DEF ToSet
  <2> QED
    BY <2>1 DEF IsList
<1> QED
  BY <1>1, <1>2

\* What a rule pushes where its condition holds.
LEMMA PushedIf ==
    ASSUME NEW b \in BOOLEAN, NEW f
    PROVE  IsList(If(b, f)) /\ \A x : x \in ToSet(If(b, f)) <=> b /\ x = f
<1>1. CASE b
  <2>1. If(b, f) = <<f>>
    BY <1>1 DEF If
  <2> QED
    BY <1>1, <2>1, ShortLists
<1>2. CASE ~b
  <2>1. If(b, f) = <<>>
    BY <1>2 DEF If
  <2> QED
    BY <1>2, <2>1, ShortLists
<1> QED
  BY <1>1, <1>2

\* A list for each item of a list, one after the other.
LEMMA PushedForEach ==
    ASSUME NEW items, IsList(items), NEW F, F = [i \in DOMAIN items |-> F[i]],
           \A i \in DOMAIN items : IsList(F[i])
    PROVE  /\ Lists(F) /\ IsList(FlattenSeq(F))
           /\ \A x : x \in ToSet(FlattenSeq(F)) <=> \E i \in DOMAIN items : x \in ToSet(F[i])
<1>1. DOMAIN F = DOMAIN items /\ Len(items) \in Nat /\ DOMAIN items = 1 .. Len(items)
  BY ListIs
<1>2. \A i \in DOMAIN F : F[i] \in ToSet(F)
  BY DEF ToSet
<1>3. IsList(F)
  <2>1. F \in [1 .. Len(items) -> ToSet(F)]
    BY <1>1, <1>2
  <2>2. F \in Seq(ToSet(F))
    BY <1>1, <2>1
  <2> QED
    BY <2>2 DEF IsList
<1>4. Lists(F)
  BY <1>1, <1>3 DEF Lists
<1> QED
  BY <1>1, <1>4, FlattenedList

\* The rule of the missing primary keys.
LEMMA MissingPrimaryKeys ==
    ASSUME NEW d, Readable(d)
    PROVE  /\ IsList(missing_primary_keys(d))
           /\ \A x : x \in ToSet(missing_primary_keys(d)) <=>
                \E i \in DOMAIN d.tables :
                    /\ ~HasPrimaryKey(d.tables[i])
                    /\ x = Finding("MissingPrimaryKey", "warning", d.tables[i], <<>>)
<1> DEFINE f(i) == Finding("MissingPrimaryKey", "warning", d.tables[i], <<>>)
           b(i) == ~HasPrimaryKey(d.tables[i])
           F == [i \in DOMAIN d.tables |-> If(b(i), f(i))]
<1>1. missing_primary_keys(d) = FlattenSeq(F)
  BY DEF missing_primary_keys, ForEach
<1>2. \A i \in DOMAIN d.tables : b(i) \in BOOLEAN
  BY DEF HasPrimaryKey
<1> HIDE DEF f, b
<1>3. \A i \in DOMAIN d.tables : F[i] = If(b(i), f(i))
  OBVIOUS
<1>4. F = [i \in DOMAIN d.tables |-> F[i]]
  OBVIOUS
<1> HIDE DEF F
<1>5. \A i \in DOMAIN d.tables : IsList(F[i]) /\ \A x : x \in ToSet(F[i]) <=> b(i) /\ x = f(i)
  BY <1>2, <1>3, PushedIf
<1>6. IsList(d.tables)
  BY DEF Readable
<1>7. /\ IsList(FlattenSeq(F))
      /\ \A x : x \in ToSet(FlattenSeq(F)) <=> \E i \in DOMAIN d.tables : x \in ToSet(F[i])
  BY <1>4, <1>5, <1>6, PushedForEach
<1>8. \A x : x \in ToSet(FlattenSeq(F)) <=> \E i \in DOMAIN d.tables : b(i) /\ x = f(i)
  BY <1>5, <1>7
<1> QED
  BY <1>1, <1>7, <1>8 DEF f, b

DistinctIds(d) == \A i, j \in DOMAIN d.tables : Id(d.tables[i]) = Id(d.tables[j]) => i = j

\* What a lookup finds, where no two tables have one Id.
LEMMA LookupFinds ==
    ASSUME NEW d, Readable(d), DistinctIds(d), NEW id
    PROVE  /\ Lookup(d.tables, id) \in {0} \cup DOMAIN d.tables
           /\ 0 \notin DOMAIN d.tables
           /\ \A i \in DOMAIN d.tables : Lookup(d.tables, id) = i <=> Id(d.tables[i]) = id
<1> DEFINE found == {i \in DOMAIN d.tables : Id(d.tables[i]) = id}
<1>1. /\ DOMAIN d.tables \subseteq Nat /\ 0 \notin DOMAIN d.tables
  <2>1. Len(d.tables) \in Nat /\ DOMAIN d.tables = 1 .. Len(d.tables)
    BY ListIs DEF Readable
  <2> QED
    BY <2>1
<1>2. Lookup(d.tables, id) = IF found = {} THEN 0
                             ELSE CHOOSE i \in found : \A j \in found : j <= i
  BY DEF Lookup
<1>3. CASE found = {}
  BY <1>1, <1>2, <1>3
<1>4. CASE found # {}
  <2>1. PICK m \in found : TRUE
    BY <1>4
  <2>2. \A j \in found : j = m
    BY DEF DistinctIds
  <2>3. found = {m} /\ m \in DOMAIN d.tables /\ m \in Nat
    BY <1>1, <2>2
  <2> HIDE DEF found
  <2>4. (CHOOSE i \in found : \A j \in found : j <= i) = m
    BY <2>3
  <2>5. Lookup(d.tables, id) = m
    BY <1>2, <1>4, <2>4
  <2>6. \A i \in DOMAIN d.tables : i = m <=> Id(d.tables[i]) = id
    BY <2>3 DEF found
  <2> QED
    BY <1>1, <2>3, <2>5, <2>6
<1> QED
  BY <1>3, <1>4

\* What the rule of the broken foreign keys pushes for one key, and when.
PushedForKey(d, t, fk) ==
    LET target == Lookup(d.tables, fk.table)
        broken == Finding("BrokenForeignKey", "error", t, fk.columns)
    IN  IF target = 0 \/ Len(fk.columns) # Len(fk.referenced) THEN <<broken>>
        ELSE ForEach(fk.referenced, LAMBDA c : If(c \notin ColumnNames(d.tables[target]), broken))

Broken(d, fk) ==
    \/ Lookup(d.tables, fk.table) = 0
    \/ Len(fk.columns) # Len(fk.referenced)
    \/ ~(ToSet(fk.referenced) \subseteq ColumnNames(d.tables[Lookup(d.tables, fk.table)]))

\* What is pushed for a key, if anything, is the finding of its table and columns.
LEMMA BrokenKey ==
    ASSUME NEW d, NEW t, NEW fk, IsList(fk.referenced)
    PROVE  /\ IsList(PushedForKey(d, t, fk))
           /\ \A x : x \in ToSet(PushedForKey(d, t, fk)) <=>
                Broken(d, fk) /\ x = Finding("BrokenForeignKey", "error", t, fk.columns)
<1> DEFINE target == Lookup(d.tables, fk.table)
           broken == Finding("BrokenForeignKey", "error", t, fk.columns)
           items == fk.referenced
           b(i) == items[i] \notin ColumnNames(d.tables[target])
           F == [i \in DOMAIN items |-> If(b(i), broken)]
<1> HIDE DEF broken
<1>1. CASE target = 0 \/ Len(fk.columns) # Len(items)
  <2>1. PushedForKey(d, t, fk) = <<broken>>
    BY <1>1 DEF PushedForKey, broken
  <2>2. Broken(d, fk)
    BY <1>1 DEF Broken
  <2> QED
    BY <2>1, <2>2, ShortLists DEF broken
<1>2. CASE ~(target = 0 \/ Len(fk.columns) # Len(items))
  <2>1. PushedForKey(d, t, fk) = FlattenSeq(F)
    BY <1>2 DEF PushedForKey, ForEach, broken
  <2>2. \A i \in DOMAIN items : b(i) \in BOOLEAN
    OBVIOUS
  <2>3. Broken(d, fk) <=> \E i \in DOMAIN items : b(i)
    BY <1>2 DEF Broken, ToSet
  <2> HIDE DEF b
  <2>4. \A i \in DOMAIN items : F[i] = If(b(i), broken)
    OBVIOUS
  <2>5. F = [i \in DOMAIN items |-> F[i]]
    OBVIOUS
  <2> HIDE DEF F
  <2>6. \A i \in DOMAIN items : IsList(F[i]) /\ \A x : x \in ToSet(F[i]) <=> b(i) /\ x = broken
    BY <2>2, <2>4, PushedIf
  <2> HIDE DEF items
  <2>7. IsList(items)
    BY DEF items
  <2>8. /\ IsList(FlattenSeq(F))
        /\ \A x : x \in ToSet(FlattenSeq(F)) <=> \E i \in DOMAIN items : x \in ToSet(F[i])
    BY <2>5, <2>6, <2>7, PushedForEach
  <2>9. \A x : x \in ToSet(FlattenSeq(F)) <=> (\E i \in DOMAIN items : b(i)) /\ x = broken
    BY <2>6, <2>8
  <2> QED
    BY <2>1, <2>3, <2>8, <2>9 DEF broken
<1> QED
  BY <1>1, <1>2

\* The keys of one table.
PushedForKeys(d, t) ==
    FlattenSeq([k \in DOMAIN t.foreign_keys |-> PushedForKey(d, t, t.foreign_keys[k])])

\* They are those of its broken keys.
LEMMA BrokenKeys ==
    ASSUME NEW d, NEW t, IsList(t.foreign_keys),
           \A k \in DOMAIN t.foreign_keys : IsList(t.foreign_keys[k].referenced)
    PROVE  /\ IsList(PushedForKeys(d, t))
           /\ \A x : x \in ToSet(PushedForKeys(d, t)) <=>
                \E k \in DOMAIN t.foreign_keys :
                    /\ Broken(d, t.foreign_keys[k])
                    /\ x = Finding("BrokenForeignKey", "error", t, t.foreign_keys[k].columns)
<1> DEFINE items == t.foreign_keys
           F == [k \in DOMAIN items |-> PushedForKey(d, t, items[k])]
<1>1. \A k \in DOMAIN items : F[k] = PushedForKey(d, t, items[k])
  OBVIOUS
<1>2. F = [k \in DOMAIN items |-> F[k]]
  OBVIOUS
<1>3. PushedForKeys(d, t) = FlattenSeq(F)
  BY DEF PushedForKeys
<1> HIDE DEF F
<1>4. \A k \in DOMAIN items : /\ IsList(F[k])
                              /\ \A x : x \in ToSet(F[k]) <=>
                                    /\ Broken(d, items[k])
                                    /\ x = Finding("BrokenForeignKey", "error", t, items[k].columns)
  BY <1>1, BrokenKey
<1> HIDE DEF items
<1>5. IsList(items)
  BY DEF items
<1>6. /\ IsList(FlattenSeq(F))
      /\ \A x : x \in ToSet(FlattenSeq(F)) <=> \E k \in DOMAIN items : x \in ToSet(F[k])
  BY <1>2, <1>4, <1>5, PushedForEach
<1> QED
  BY <1>3, <1>4, <1>6 DEF items

\* The rule of the broken foreign keys.
LEMMA BrokenForeignKeys ==
    ASSUME NEW d, Readable(d)
    PROVE  /\ IsList(broken_foreign_keys(d))
           /\ \A x : x \in ToSet(broken_foreign_keys(d)) <=>
                \E i \in DOMAIN d.tables : \E k \in DOMAIN d.tables[i].foreign_keys :
                    /\ Broken(d, d.tables[i].foreign_keys[k])
                    /\ x = Finding("BrokenForeignKey", "error", d.tables[i],
                                   d.tables[i].foreign_keys[k].columns)
<1> DEFINE items == d.tables
           F == [i \in DOMAIN items |-> PushedForKeys(d, items[i])]
<1>1. \A i \in DOMAIN items : F[i] = PushedForKeys(d, items[i])
  OBVIOUS
<1>2. F = [i \in DOMAIN items |-> F[i]]
  OBVIOUS
<1>3. broken_foreign_keys(d) = FlattenSeq(F)
  BY DEF broken_foreign_keys, ForEach, PushedForKeys, PushedForKey
<1> HIDE DEF F
<1>4. \A i \in DOMAIN items : /\ IsList(F[i])
                              /\ \A x : x \in ToSet(F[i]) <=>
                                    \E k \in DOMAIN items[i].foreign_keys :
                                        /\ Broken(d, items[i].foreign_keys[k])
                                        /\ x = Finding("BrokenForeignKey", "error", items[i],
                                                       items[i].foreign_keys[k].columns)
  <2> SUFFICES ASSUME NEW i \in DOMAIN items
               PROVE  /\ IsList(F[i])
                      /\ \A x : x \in ToSet(F[i]) <=>
                            \E k \in DOMAIN items[i].foreign_keys :
                                /\ Broken(d, items[i].foreign_keys[k])
                                /\ x = Finding("BrokenForeignKey", "error", items[i],
                                               items[i].foreign_keys[k].columns)
    OBVIOUS
  <2>1. /\ IsList(items[i].foreign_keys)
        /\ \A k \in DOMAIN items[i].foreign_keys : IsList(items[i].foreign_keys[k].referenced)
    BY DEF Readable
  <2> HIDE DEF items
  <2> QED
    BY <1>1, <2>1, BrokenKeys
<1>5. IsList(items)
  BY DEF Readable
<1> HIDE DEF items
<1>6. /\ IsList(FlattenSeq(F))
      /\ \A x : x \in ToSet(FlattenSeq(F)) <=> \E i \in DOMAIN items : x \in ToSet(F[i])
  BY <1>2, <1>4, <1>5, PushedForEach
<1> QED
  BY <1>3, <1>4, <1>6 DEF items

\* A finite set as a list.
LEMMA ListOfSet ==
    ASSUME NEW S, IsFiniteSet(S)
    PROVE  IsList(SetToSeq(S)) /\ ToSet(SetToSeq(S)) = S
<1>1. Cardinality(S) \in Nat /\ ExistsBijection(1 .. Cardinality(S), S)
  BY FS_CardinalityType
<1> DEFINE n == Cardinality(S)
           q == SetToSeq(S)
<1> HIDE DEF n
<1>2. PICK f : f \in Bijection(1 .. n, S)
  BY <1>1 DEF ExistsBijection, n
<1>3. f \in [1 .. n -> S] /\ \A a, b \in DOMAIN f : f[a] = f[b] => a = b
  BY <1>2 DEF Bijection, Injection, IsInjective
<1>4. q = CHOOSE g \in [1 .. n -> S] : IsInjective(g)
  BY DEF SetToSeq, n
<1> HIDE DEF q
<1>5. q \in [1 .. n -> S] /\ IsInjective(q)
  BY <1>3, <1>4, ZenonT(60) DEF IsInjective
<1>6. q \in Injection(1 .. n, S)
  BY <1>5 DEF Injection
<1>7. n \in Nat /\ Cardinality(1 .. n) = n /\ IsFiniteSet(1 .. n)
  BY <1>1, FS_Interval DEF n
<1>8. ToSet(q) = S
  <2> DEFINE R == {q[i] : i \in 1 .. n}
  <2>1. R \subseteq S /\ ToSet(q) = R
    BY <1>5 DEF ToSet
  <2>2. IsFiniteSet(R)
    BY <2>1, FS_Subset
  <2>3. q \in Bijection(1 .. n, R)
    <3>1. q \in [1 .. n -> R] /\ \A t \in R : \E s \in 1 .. n : q[s] = t
      BY <1>5
    <3> HIDE DEF R
    <3> QED
      BY <1>5, <3>1 DEF Bijection, Injection, Surjection
  <2> HIDE DEF R
  <2>4. ExistsBijection(1 .. n, R)
    BY <2>3 DEF ExistsBijection
  <2>5. Cardinality(1 .. n) = Cardinality(R)
    BY <1>7, <2>4, FS_Bijection
  <2>6. R = S
    BY <1>7, <2>1, <2>5, FS_Subset DEF n
  <2> QED
    BY <2>1, <2>6
<1>9. q \in Seq(S)
  BY <1>5, <1>7
<1> QED
  BY <1>8, <1>9, ListIs DEF q

\* Two or more is two different ones.
LEMMA TwoOrMore ==
    ASSUME NEW S, IsFiniteSet(S)
    PROVE  Cardinality(S) >= 2 <=> \E x, y \in S : x # y
<1>1. Cardinality(S) \in Nat
  BY FS_CardinalityType
<1>2. ASSUME NEW x \in S, NEW y \in S, x # y PROVE Cardinality(S) >= 2
  <2>1. IsFiniteSet({x}) /\ Cardinality({x}) = 1
    BY FS_Singleton
  <2>2. Cardinality({x}) <= Cardinality(S) /\ (Cardinality({x}) = Cardinality(S) => {x} = S)
    BY FS_Subset
  <2>3. {x} # S
    BY <1>2
  <2> QED
    BY <1>1, <2>1, <2>2, <2>3
<1>3. ASSUME ~ \E x, y \in S : x # y PROVE Cardinality(S) < 2
  <2>1. CASE S = {}
    BY <2>1, FS_EmptySet
  <2>2. CASE S # {}
    <3>1. PICK x \in S : S = {x}
      BY <1>3, <2>2
    <3> QED
      BY <3>1, FS_Singleton
  <2> QED
    BY <2>1, <2>2
<1> QED
  BY <1>1, <1>2, <1>3

\* A list has finitely many positions.
LEMMA FinitelyLong == ASSUME NEW q, IsList(q) PROVE IsFiniteSet(DOMAIN q)
<1>1. Len(q) \in Nat /\ DOMAIN q = 1 .. Len(q)
  BY ListIs
<1> QED
  BY <1>1, FS_Interval

\* The indexes of one signature, and what the rule pushes for those of a table.
SignaturesOf(t) == {Signature(t.indexes[i]) : i \in DOMAIN t.indexes}
SignedAs(t, s) == {i \in DOMAIN t.indexes : Signature(t.indexes[i]) = s}
Repeated(t, s) == \E i, j \in SignedAs(t, s) : i # j

PushedForIndexes(t) ==
    LET signatures == SetToSeq(SignaturesOf(t))
    IN  FlattenSeq([k \in DOMAIN signatures |->
            If(Cardinality(SignedAs(t, signatures[k])) >= 2,
               Finding("DuplicateIndex", "warning", t, signatures[k].columns))])

\* They are one for each signature two indexes have.
LEMMA IndexesOfTable ==
    ASSUME NEW t, IsList(t.indexes)
    PROVE  /\ IsList(PushedForIndexes(t))
           /\ \A x : x \in ToSet(PushedForIndexes(t)) <=>
                \E s \in SignaturesOf(t) :
                    Repeated(t, s) /\ x = Finding("DuplicateIndex", "warning", t, s.columns)
<1> DEFINE items == SetToSeq(SignaturesOf(t))
           b(k) == Cardinality(SignedAs(t, items[k])) >= 2
           f(k) == Finding("DuplicateIndex", "warning", t, items[k].columns)
           F == [k \in DOMAIN items |-> If(b(k), f(k))]
<1>1. IsFiniteSet(DOMAIN t.indexes)
  BY FinitelyLong
<1>2. IsFiniteSet(SignaturesOf(t))
  <2> DEFINE T == {Signature(t.indexes[i]) : i \in DOMAIN t.indexes}
             g == [i \in DOMAIN t.indexes |-> Signature(t.indexes[i])]
  <2>1. g \in Surjection(DOMAIN t.indexes, T)
    BY DEF Surjection
  <2> HIDE DEF g, T
  <2>2. IsFiniteSet(T)
    BY <1>1, <2>1, FS_Surjection
  <2> QED
    BY <2>2 DEF T, SignaturesOf
<1>3. IsList(items) /\ ToSet(items) = SignaturesOf(t)
  BY <1>2, ListOfSet
<1>4. \A k \in DOMAIN items : b(k) \in BOOLEAN /\ (b(k) <=> Repeated(t, items[k]))
  <2> SUFFICES ASSUME NEW k \in DOMAIN items
               PROVE  b(k) \in BOOLEAN /\ (b(k) <=> Repeated(t, items[k]))
    OBVIOUS
  <2> HIDE DEF items
  <2>1. SignedAs(t, items[k]) \subseteq DOMAIN t.indexes
    BY DEF SignedAs
  <2>2. IsFiniteSet(SignedAs(t, items[k]))
    BY <1>1, <2>1, FS_Subset
  <2> DEFINE N == SignedAs(t, items[k])
  <2> HIDE DEF N
  <2>3. Cardinality(N) >= 2 <=> \E x, y \in N : x # y
    BY <2>2, TwoOrMore DEF N
  <2> QED
    BY <2>3 DEF N, Repeated
<1>5. PushedForIndexes(t) = FlattenSeq(F)
  BY DEF PushedForIndexes
<1> HIDE DEF items, b, f
<1>6. \A k \in DOMAIN items : F[k] = If(b(k), f(k))
  OBVIOUS
<1>7. F = [k \in DOMAIN items |-> F[k]]
  OBVIOUS
<1> HIDE DEF F
<1>8. \A k \in DOMAIN items : IsList(F[k]) /\ \A x : x \in ToSet(F[k]) <=> b(k) /\ x = f(k)
  BY <1>4, <1>6, PushedIf
<1>9. /\ IsList(FlattenSeq(F))
      /\ \A x : x \in ToSet(FlattenSeq(F)) <=> \E k \in DOMAIN items : x \in ToSet(F[k])
  BY <1>3, <1>7, <1>8, PushedForEach
<1>10. \A x : x \in ToSet(FlattenSeq(F)) <=>
            \E k \in DOMAIN items : Repeated(t, items[k]) /\ x = f(k)
  BY <1>4, <1>8, <1>9
<1>11. \A s : s \in SignaturesOf(t) <=> \E k \in DOMAIN items : s = items[k]
  BY <1>3 DEF ToSet
<1> QED
  BY <1>5, <1>9, <1>10, <1>11 DEF f

\* The rule of the duplicate indexes.
LEMMA DuplicateIndexes ==
    ASSUME NEW d, Readable(d)
    PROVE  /\ IsList(duplicate_indexes(d))
           /\ \A x : x \in ToSet(duplicate_indexes(d)) <=>
                \E i \in DOMAIN d.tables : \E s \in SignaturesOf(d.tables[i]) :
                    /\ Repeated(d.tables[i], s)
                    /\ x = Finding("DuplicateIndex", "warning", d.tables[i], s.columns)
<1> DEFINE items == d.tables
           F == [i \in DOMAIN items |-> PushedForIndexes(items[i])]
<1>1. \A i \in DOMAIN items : F[i] = PushedForIndexes(items[i])
  OBVIOUS
<1>2. F = [i \in DOMAIN items |-> F[i]]
  OBVIOUS
<1>3. duplicate_indexes(d) = FlattenSeq(F)
  BY DEF duplicate_indexes, ForEach, PushedForIndexes, SignaturesOf, SignedAs
<1> HIDE DEF F
<1>4. \A i \in DOMAIN items : /\ IsList(F[i])
                              /\ \A x : x \in ToSet(F[i]) <=>
                                    \E s \in SignaturesOf(items[i]) :
                                        /\ Repeated(items[i], s)
                                        /\ x = Finding("DuplicateIndex", "warning", items[i], s.columns)
  <2> SUFFICES ASSUME NEW i \in DOMAIN items
               PROVE  /\ IsList(F[i])
                      /\ \A x : x \in ToSet(F[i]) <=>
                            \E s \in SignaturesOf(items[i]) :
                                /\ Repeated(items[i], s)
                                /\ x = Finding("DuplicateIndex", "warning", items[i], s.columns)
    OBVIOUS
  <2>1. IsList(items[i].indexes)
    BY DEF Readable
  <2> HIDE DEF items
  <2> QED
    BY <1>1, <2>1, IndexesOfTable
<1>5. IsList(items)
  BY DEF Readable
<1> HIDE DEF items
<1>6. /\ IsList(FlattenSeq(F))
      /\ \A x : x \in ToSet(FlattenSeq(F)) <=> \E i \in DOMAIN items : x \in ToSet(F[i])
  BY <1>2, <1>4, <1>5, PushedForEach
<1> QED
  BY <1>3, <1>4, <1>6 DEF items

\* The rule of SQLite's tables without a rowid.
LEMMA WithoutRowid ==
    ASSUME NEW d, Readable(d), \A i \in DOMAIN d.tables : d.tables[i].without_rowid \in BOOLEAN
    PROVE  /\ IsList(sqlite_without_rowid_missing_primary_key(d))
           /\ \A x : x \in ToSet(sqlite_without_rowid_missing_primary_key(d)) <=>
                \E i \in DOMAIN d.tables :
                    /\ d.engine = "sqlite" /\ d.tables[i].without_rowid
                    /\ ~HasPrimaryKey(d.tables[i])
                    /\ x = Finding("SqliteWithoutRowidMissingPrimaryKey", "error", d.tables[i], <<>>)
<1> DEFINE f(i) == Finding("SqliteWithoutRowidMissingPrimaryKey", "error", d.tables[i], <<>>)
           b(i) == d.tables[i].without_rowid /\ ~HasPrimaryKey(d.tables[i])
           F == [i \in DOMAIN d.tables |-> If(b(i), f(i))]
<1>1. CASE d.engine # "sqlite"
  <2>1. sqlite_without_rowid_missing_primary_key(d) = <<>>
    BY <1>1 DEF sqlite_without_rowid_missing_primary_key
  <2> QED
    BY <1>1, <2>1, ShortLists
<1>2. CASE d.engine = "sqlite"
  <2>1. sqlite_without_rowid_missing_primary_key(d) = FlattenSeq(F)
    BY <1>2 DEF sqlite_without_rowid_missing_primary_key, ForEach
  <2>2. \A i \in DOMAIN d.tables : b(i) \in BOOLEAN
    BY DEF HasPrimaryKey
  <2> HIDE DEF f, b
  <2>3. \A i \in DOMAIN d.tables : F[i] = If(b(i), f(i))
    OBVIOUS
  <2>4. F = [i \in DOMAIN d.tables |-> F[i]]
    OBVIOUS
  <2> HIDE DEF F
  <2>5. \A i \in DOMAIN d.tables : IsList(F[i]) /\ \A x : x \in ToSet(F[i]) <=> b(i) /\ x = f(i)
    BY <2>2, <2>3, PushedIf
  <2>6. IsList(d.tables)
    BY DEF Readable
  <2>7. /\ IsList(FlattenSeq(F))
        /\ \A x : x \in ToSet(FlattenSeq(F)) <=> \E i \in DOMAIN d.tables : x \in ToSet(F[i])
    BY <2>4, <2>5, <2>6, PushedForEach
  <2>8. \A x : x \in ToSet(FlattenSeq(F)) <=> \E i \in DOMAIN d.tables : b(i) /\ x = f(i)
    BY <2>5, <2>7
  <2> QED
    BY <1>2, <2>1, <2>7, <2>8 DEF f, b
<1> QED
  BY <1>1, <1>2

\* What the rule of SQLite's strict tables pushes for the columns of one.
NeedsDefault(c) == ~c.nullable /\ ~c.has_default /\ ~c.auto_increment
ColumnsOfStrict(t) == IF t.strict THEN t.columns ELSE <<>>
Undefaulted(t, c) == Finding("SqliteStrictMissingDefaultOnNotNull", "warning", t, <<c.name>>)
PushedForStrict(t) ==
    FlattenSeq([k \in DOMAIN ColumnsOfStrict(t) |->
        If(NeedsDefault(ColumnsOfStrict(t)[k]), Undefaulted(t, ColumnsOfStrict(t)[k]))])

\* They are one for each name of a column that needs a default and has none.
LEMMA StrictTable ==
    ASSUME NEW t, IsList(t.columns), t.strict \in BOOLEAN
    PROVE  /\ IsList(PushedForStrict(t))
           /\ \A x : x \in ToSet(PushedForStrict(t)) <=>
                t.strict /\ \E k \in DOMAIN t.columns :
                    NeedsDefault(t.columns[k]) /\ x = Undefaulted(t, t.columns[k])
<1> DEFINE items == ColumnsOfStrict(t)
           b(k) == NeedsDefault(items[k])
           f(k) == Undefaulted(t, items[k])
           F == [k \in DOMAIN items |-> If(b(k), f(k))]
<1>1. PushedForStrict(t) = FlattenSeq(F)
  BY DEF PushedForStrict
<1>2. \A k \in DOMAIN items : b(k) \in BOOLEAN
  BY DEF NeedsDefault
<1>3. IsList(items)
  BY ShortLists DEF ColumnsOfStrict
<1> HIDE DEF items, b, f
<1>4. \A k \in DOMAIN items : F[k] = If(b(k), f(k))
  OBVIOUS
<1>5. F = [k \in DOMAIN items |-> F[k]]
  OBVIOUS
<1> HIDE DEF F
<1>6. \A k \in DOMAIN items : IsList(F[k]) /\ \A x : x \in ToSet(F[k]) <=> b(k) /\ x = f(k)
  BY <1>2, <1>4, PushedIf
<1>7. /\ IsList(FlattenSeq(F))
      /\ \A x : x \in ToSet(FlattenSeq(F)) <=> \E k \in DOMAIN items : x \in ToSet(F[k])
  BY <1>3, <1>5, <1>6, PushedForEach
<1>8. \A x : x \in ToSet(FlattenSeq(F)) <=> \E k \in DOMAIN items : b(k) /\ x = f(k)
  BY <1>6, <1>7
<1>9. \A x : (\E k \in DOMAIN items : b(k) /\ x = f(k)) <=>
             t.strict /\ \E k \in DOMAIN t.columns :
                NeedsDefault(t.columns[k]) /\ x = Undefaulted(t, t.columns[k])
  <2>1. CASE t.strict
    BY <2>1 DEF items, b, f, ColumnsOfStrict
  <2>2. CASE ~t.strict
    <3>1. DOMAIN items = {}
      BY <2>2 DEF items, ColumnsOfStrict
    <3> QED
      BY <2>2, <3>1
  <2> QED
    BY <2>1, <2>2
<1> QED
  BY <1>1, <1>7, <1>8, <1>9

\* The rule of SQLite's strict tables.
LEMMA StrictTables ==
    ASSUME NEW d, Readable(d), \A i \in DOMAIN d.tables : d.tables[i].strict \in BOOLEAN
    PROVE  /\ IsList(sqlite_strict_missing_default_on_not_null(d))
           /\ \A x : x \in ToSet(sqlite_strict_missing_default_on_not_null(d)) <=>
                \E i \in DOMAIN d.tables :
                    /\ d.engine = "sqlite" /\ d.tables[i].strict
                    /\ \E k \in DOMAIN d.tables[i].columns :
                        /\ NeedsDefault(d.tables[i].columns[k])
                        /\ x = Undefaulted(d.tables[i], d.tables[i].columns[k])
<1> DEFINE items == d.tables
           F == [i \in DOMAIN items |-> PushedForStrict(items[i])]
<1>1. CASE d.engine # "sqlite"
  <2>1. sqlite_strict_missing_default_on_not_null(d) = <<>>
    BY <1>1 DEF sqlite_strict_missing_default_on_not_null
  <2> QED
    BY <1>1, <2>1, ShortLists
<1>2. CASE d.engine = "sqlite"
  <2>1. sqlite_strict_missing_default_on_not_null(d) = FlattenSeq(F)
    BY <1>2 DEF sqlite_strict_missing_default_on_not_null, ForEach, PushedForStrict,
                NeedsDefault, ColumnsOfStrict, Undefaulted
  <2>2. \A i \in DOMAIN items : F[i] = PushedForStrict(items[i])
    OBVIOUS
  <2>3. F = [i \in DOMAIN items |-> F[i]]
    OBVIOUS
  <2> HIDE DEF F
  <2> DEFINE due(i, x) == /\ items[i].strict
                          /\ \E k \in DOMAIN items[i].columns :
                                NeedsDefault(items[i].columns[k])
                                /\ x = Undefaulted(items[i], items[i].columns[k])
  <2>4. \A i \in DOMAIN items : IsList(F[i]) /\ \A x : x \in ToSet(F[i]) <=> due(i, x)
    BY <2>2, StrictTable DEF Readable
  <2>5. IsList(items)
    BY DEF Readable
  <2> HIDE DEF items, due
  <2>6. /\ IsList(FlattenSeq(F))
        /\ \A x : x \in ToSet(FlattenSeq(F)) <=> \E i \in DOMAIN items : x \in ToSet(F[i])
    BY <2>3, <2>4, <2>5, PushedForEach
  <2>7. \A x : x \in ToSet(FlattenSeq(F)) <=> \E i \in DOMAIN items : due(i, x)
    BY <2>4, <2>6
  <2> QED
    BY <1>2, <2>1, <2>6, <2>7 DEF items, due
<1> QED
  BY <1>1, <1>2

\* Two lists, one after the other.
LEMMA PushedBoth ==
    ASSUME NEW p, NEW q, IsList(p), IsList(q)
    PROVE  IsList(p \o q) /\ \A x : x \in ToSet(p \o q) <=> x \in ToSet(p) \/ x \in ToSet(q)
<1>1. IsList(p \o q) /\ ToSet(p \o q) = ToSet(p) \cup ToSet(q)
  BY Places
<1> QED
  BY <1>1

\* What the rule of the invalid metadata pushes for a column, and for a table or view.
Unnamed(o, columns) == Finding("InvalidMetadata", "error", o, columns)
PushedForColumn(o, c) ==
    If(c.name = "", Unnamed(o, <<c.name>>)) \o If(c.ordinal_position = 0, Unnamed(o, <<c.name>>))
PushedForColumns(o) == FlattenSeq([k \in DOMAIN o.columns |-> PushedForColumn(o, o.columns[k])])

InvalidColumn(c) == c.name = "" \/ c.ordinal_position = 0
InvalidIn(o, x) ==
    \/ (o.schema = "" \/ o.name = "") /\ x = Unnamed(o, <<>>)
    \/ \E k \in DOMAIN o.columns : InvalidColumn(o.columns[k]) /\ x = Unnamed(o, <<o.columns[k].name>>)

\* Those for the columns,
LEMMA InvalidColumns ==
    ASSUME NEW o, IsList(o.columns)
    PROVE  /\ IsList(PushedForColumns(o))
           /\ \A x : x \in ToSet(PushedForColumns(o)) <=>
                \E k \in DOMAIN o.columns :
                    InvalidColumn(o.columns[k]) /\ x = Unnamed(o, <<o.columns[k].name>>)
<1> DEFINE items == o.columns
           F == [k \in DOMAIN items |-> PushedForColumn(o, items[k])]
<1>1. ASSUME NEW c
      PROVE  /\ IsList(PushedForColumn(o, c))
             /\ \A x : x \in ToSet(PushedForColumn(o, c)) <=>
                    InvalidColumn(c) /\ x = Unnamed(o, <<c.name>>)
  <2> DEFINE f == Unnamed(o, <<c.name>>)
             p == If(c.name = "", f)
             q == If(c.ordinal_position = 0, f)
  <2>1. PushedForColumn(o, c) = p \o q
    BY DEF PushedForColumn
  <2> HIDE DEF f
  <2>2. (c.name = "") \in BOOLEAN /\ (c.ordinal_position = 0) \in BOOLEAN
    OBVIOUS
  <2>3. IsList(p) /\ \A x : x \in ToSet(p) <=> c.name = "" /\ x = f
    BY <2>2, PushedIf
  <2>4. IsList(q) /\ \A x : x \in ToSet(q) <=> c.ordinal_position = 0 /\ x = f
    BY <2>2, PushedIf
  <2> HIDE DEF p, q
  <2>5. IsList(p \o q) /\ \A x : x \in ToSet(p \o q) <=> x \in ToSet(p) \/ x \in ToSet(q)
    BY <2>3, <2>4, PushedBoth
  <2> QED
    BY <2>1, <2>3, <2>4, <2>5 DEF f, InvalidColumn
<1>2. \A k \in DOMAIN items : F[k] = PushedForColumn(o, items[k])
  OBVIOUS
<1>3. F = [k \in DOMAIN items |-> F[k]]
  OBVIOUS
<1>4. PushedForColumns(o) = FlattenSeq(F)
  BY DEF PushedForColumns
<1> HIDE DEF F
<1>5. \A k \in DOMAIN items : /\ IsList(F[k])
                              /\ \A x : x \in ToSet(F[k]) <=>
                                    InvalidColumn(items[k]) /\ x = Unnamed(o, <<items[k].name>>)
  BY <1>1, <1>2
<1> HIDE DEF items
<1>6. IsList(items)
  BY DEF items
<1>7. /\ IsList(FlattenSeq(F))
      /\ \A x : x \in ToSet(FlattenSeq(F)) <=> \E k \in DOMAIN items : x \in ToSet(F[k])
  BY <1>3, <1>5, <1>6, PushedForEach
<1> QED
  BY <1>4, <1>5, <1>7 DEF items

\* and all of them.
LEMMA InvalidObjects ==
    ASSUME NEW o, IsList(o.columns)
    PROVE  /\ IsList(InvalidObject(o))
           /\ \A x : x \in ToSet(InvalidObject(o)) <=> InvalidIn(o, x)
<1> DEFINE f == Unnamed(o, <<>>)
           p == If(o.schema = "", f)
           q == If(o.name = "", f)
           r == PushedForColumns(o)
<1>1. InvalidObject(o) = p \o q \o r
  BY DEF InvalidObject, PushedForColumns, PushedForColumn, Unnamed, ForEach
<1> HIDE DEF f
<1>2. (o.schema = "") \in BOOLEAN /\ (o.name = "") \in BOOLEAN
  OBVIOUS
<1>3. IsList(p) /\ \A x : x \in ToSet(p) <=> o.schema = "" /\ x = f
  BY <1>2, PushedIf
<1>4. IsList(q) /\ \A x : x \in ToSet(q) <=> o.name = "" /\ x = f
  BY <1>2, PushedIf
<1>5. IsList(r) /\ \A x : x \in ToSet(r) <=>
            \E k \in DOMAIN o.columns :
                InvalidColumn(o.columns[k]) /\ x = Unnamed(o, <<o.columns[k].name>>)
  BY InvalidColumns
<1> HIDE DEF p, q, r
<1>6. IsList(p \o q) /\ \A x : x \in ToSet(p \o q) <=> x \in ToSet(p) \/ x \in ToSet(q)
  BY <1>3, <1>4, PushedBoth
<1>7. /\ IsList(p \o q \o r)
      /\ \A x : x \in ToSet(p \o q \o r) <=> x \in ToSet(p \o q) \/ x \in ToSet(r)
  BY <1>5, <1>6, PushedBoth
<1> QED
  BY <1>1, <1>3, <1>4, <1>5, <1>6, <1>7 DEF f, InvalidIn

\* The objects of a list, tables or views.
LEMMA InvalidObjectsOf ==
    ASSUME NEW objects, IsList(objects), \A i \in DOMAIN objects : IsList(objects[i].columns)
    PROVE  /\ IsList(FlattenSeq([i \in DOMAIN objects |-> InvalidObject(objects[i])]))
           /\ \A x : x \in ToSet(FlattenSeq([i \in DOMAIN objects |-> InvalidObject(objects[i])])) <=>
                \E i \in DOMAIN objects : InvalidIn(objects[i], x)
<1> DEFINE F == [i \in DOMAIN objects |-> InvalidObject(objects[i])]
<1>1. \A i \in DOMAIN objects : F[i] = InvalidObject(objects[i])
  OBVIOUS
<1>2. F = [i \in DOMAIN objects |-> F[i]]
  OBVIOUS
<1> HIDE DEF F
<1>3. \A i \in DOMAIN objects :
        IsList(F[i]) /\ \A x : x \in ToSet(F[i]) <=> InvalidIn(objects[i], x)
  BY <1>1, InvalidObjects
<1>4. /\ IsList(FlattenSeq(F))
      /\ \A x : x \in ToSet(FlattenSeq(F)) <=> \E i \in DOMAIN objects : x \in ToSet(F[i])
  BY <1>2, <1>3, PushedForEach
<1> QED
  BY <1>3, <1>4 DEF F

\* The rule of the invalid metadata.
LEMMA InvalidMetadata ==
    ASSUME NEW d, Readable(d)
    PROVE  /\ IsList(invalid_metadata(d))
           /\ \A x : x \in ToSet(invalid_metadata(d)) <=>
                \/ (d.database = "" \/ d.engine_version = "") /\ x = Unnamed(NoTable, <<>>)
                \/ \E i \in DOMAIN d.tables : InvalidIn(d.tables[i], x)
                \/ \E i \in DOMAIN d.views : InvalidIn(d.views[i], x)
<1> DEFINE f == Unnamed(NoTable, <<>>)
           p == If(d.database = "", f)
           q == If(d.engine_version = "", f)
           r == FlattenSeq([i \in DOMAIN d.tables |-> InvalidObject(d.tables[i])])
           s == FlattenSeq([i \in DOMAIN d.views |-> InvalidObject(d.views[i])])
<1>1. invalid_metadata(d) = p \o q \o r \o s
  BY DEF invalid_metadata, Unnamed, ForEach
<1> HIDE DEF f
<1>2. (d.database = "") \in BOOLEAN /\ (d.engine_version = "") \in BOOLEAN
  OBVIOUS
<1>3. IsList(p) /\ \A x : x \in ToSet(p) <=> d.database = "" /\ x = f
  BY <1>2, PushedIf
<1>4. IsList(q) /\ \A x : x \in ToSet(q) <=> d.engine_version = "" /\ x = f
  BY <1>2, PushedIf
<1>5. IsList(r) /\ \A x : x \in ToSet(r) <=> \E i \in DOMAIN d.tables : InvalidIn(d.tables[i], x)
  BY InvalidObjectsOf DEF Readable
<1>6. IsList(s) /\ \A x : x \in ToSet(s) <=> \E i \in DOMAIN d.views : InvalidIn(d.views[i], x)
  BY InvalidObjectsOf DEF Readable
<1> HIDE DEF p, q, r, s
<1>7. IsList(p \o q) /\ \A x : x \in ToSet(p \o q) <=> x \in ToSet(p) \/ x \in ToSet(q)
  BY <1>3, <1>4, PushedBoth
<1>8. /\ IsList(p \o q \o r)
      /\ \A x : x \in ToSet(p \o q \o r) <=> x \in ToSet(p \o q) \/ x \in ToSet(r)
  BY <1>5, <1>7, PushedBoth
<1>9. /\ IsList(p \o q \o r \o s)
      /\ \A x : x \in ToSet(p \o q \o r \o s) <=> x \in ToSet(p \o q \o r) \/ x \in ToSet(s)
  BY <1>6, <1>8, PushedBoth
<1> QED
  BY <1>1, <1>3, <1>4, <1>5, <1>6, <1>7, <1>8, <1>9 DEF f

\* The nodes the keys of a table lead to.
TargetsOf(d, t) ==
    FlattenSeq([k \in DOMAIN t.foreign_keys |->
        If(Lookup(d.tables, t.foreign_keys[k].table) # 0, Lookup(d.tables, t.foreign_keys[k].table))])

\* They are the tables those keys name.
LEMMA TargetsAre ==
    ASSUME NEW d, NEW t, IsList(t.foreign_keys)
    PROVE  /\ IsList(TargetsOf(d, t))
           /\ \A x : x \in ToSet(TargetsOf(d, t)) <=>
                x # 0 /\ \E k \in DOMAIN t.foreign_keys : Lookup(d.tables, t.foreign_keys[k].table) = x
<1> DEFINE items == t.foreign_keys
           f(k) == Lookup(d.tables, items[k].table)
           b(k) == f(k) # 0
           F == [k \in DOMAIN items |-> If(b(k), f(k))]
<1>1. TargetsOf(d, t) = FlattenSeq(F)
  BY DEF TargetsOf
<1>2. \A k \in DOMAIN items : F[k] = If(b(k), f(k)) /\ b(k) \in BOOLEAN
  OBVIOUS
<1> HIDE DEF items, f, b
<1>3. F = [k \in DOMAIN items |-> F[k]]
  OBVIOUS
<1> HIDE DEF F
<1>4. \A k \in DOMAIN items : IsList(F[k]) /\ \A x : x \in ToSet(F[k]) <=> b(k) /\ x = f(k)
  BY <1>2, PushedIf
<1>5. IsList(items)
  BY DEF items
<1>6. /\ IsList(FlattenSeq(F))
      /\ \A x : x \in ToSet(FlattenSeq(F)) <=> \E k \in DOMAIN items : x \in ToSet(F[k])
  BY <1>3, <1>4, <1>5, PushedForEach
<1>7. \A x : x \in ToSet(FlattenSeq(F)) <=> x # 0 /\ \E k \in DOMAIN items : f(k) = x
  BY <1>4, <1>6 DEF b
<1> QED
  BY <1>1, <1>6, <1>7 DEF items, f

\* The graph of the tables has an edge for each key that leads to a table.
LEMMA GraphOfTables ==
    ASSUME NEW d, Readable(d), DistinctIds(d)
    PROVE  /\ IsGraph(Adjacency(d)) /\ Nodes(Adjacency(d)) = DOMAIN d.tables
           /\ \A i \in DOMAIN d.tables : \A x :
                x \in Successors(Adjacency(d), i) <=>
                    /\ x \in DOMAIN d.tables
                    /\ \E k \in DOMAIN d.tables[i].foreign_keys :
                        Lookup(d.tables, d.tables[i].foreign_keys[k].table) = x
<1> DEFINE items == d.tables
           a == Adjacency(d)
<1>1. Len(items) \in Nat /\ DOMAIN items = 1 .. Len(items) /\ IsList(items)
  BY ListIs DEF Readable
<1>2. a = [i \in DOMAIN items |->
            FlattenSeq([j \in DOMAIN items |->
                IF Lookup(items, Id(items[j])) # i THEN <<>> ELSE TargetsOf(d, items[j])])]
  BY DEF Adjacency, ForEach, TargetsOf
<1>3. ASSUME NEW i \in DOMAIN items
      PROVE  /\ IsList(a[i])
             /\ \A x : x \in Successors(a, i) <=>
                    /\ x \in DOMAIN items
                    /\ \E k \in DOMAIN items[i].foreign_keys :
                        Lookup(items, items[i].foreign_keys[k].table) = x
  <2> DEFINE F == [j \in DOMAIN items |->
                IF Lookup(items, Id(items[j])) # i THEN <<>> ELSE TargetsOf(d, items[j])]
  <2>1. a[i] = FlattenSeq(F)
    BY <1>2
  <2>2. \A j \in DOMAIN items : Lookup(items, Id(items[j])) = j
    BY LookupFinds
  <2>3. \A j \in DOMAIN items : F[j] = IF j # i THEN <<>> ELSE TargetsOf(d, items[j])
    BY <2>2
  <2>4. F = [j \in DOMAIN items |-> F[j]]
    OBVIOUS
  <2> HIDE DEF F
  <2>5. /\ IsList(TargetsOf(d, items[i]))
        /\ \A x : x \in ToSet(TargetsOf(d, items[i])) <=>
                x # 0 /\ \E k \in DOMAIN items[i].foreign_keys :
                            Lookup(items, items[i].foreign_keys[k].table) = x
    <3>1. IsList(items[i].foreign_keys)
      BY DEF Readable
    <3> HIDE DEF items
    <3> DEFINE t == items[i]
    <3> HIDE DEF t
    <3>2. /\ IsList(TargetsOf(d, t))
          /\ \A x : x \in ToSet(TargetsOf(d, t)) <=>
                x # 0 /\ \E k \in DOMAIN t.foreign_keys : Lookup(d.tables, t.foreign_keys[k].table) = x
      BY <3>1, TargetsAre DEF t
    <3> QED
      BY <3>2 DEF t, items
  <2>6. \A j \in DOMAIN items : /\ IsList(F[j])
                                /\ \A x : x \in ToSet(F[j]) <=> j = i /\ x \in ToSet(TargetsOf(d, items[i]))
    BY <2>3, <2>5, ShortLists
  <2>7. \A id : Lookup(items, id) \in {0} \cup DOMAIN items /\ 0 \notin DOMAIN items
    BY LookupFinds
  <2> HIDE DEF items
  <2>8. /\ IsList(FlattenSeq(F))
        /\ \A x : x \in ToSet(FlattenSeq(F)) <=> \E j \in DOMAIN items : x \in ToSet(F[j])
    BY <1>1, <2>4, <2>6, PushedForEach
  <2>9. \A x : x \in ToSet(FlattenSeq(F)) <=> x \in ToSet(TargetsOf(d, items[i]))
    BY <2>6, <2>8
  <2> QED
    BY <2>1, <2>5, <2>7, <2>8, <2>9 DEF Successors
<1>4. Nodes(a) = DOMAIN items /\ Len(a) = Len(items)
  <2>1. DOMAIN a = 1 .. Len(items)
    BY <1>1, <1>2
  <2> HIDE DEF a, items
  <2>2. Len(a) = Len(items)
    BY <1>1, <2>1
  <2> QED
    BY <1>1, <2>2 DEF Nodes
<1>5. IsGraph(a)
  <2>1. ASSUME NEW i \in DOMAIN items PROVE a[i] \in Seq(DOMAIN items)
    <3>1. IsList(a[i]) /\ ToSet(a[i]) \subseteq DOMAIN items
      BY <1>3 DEF Successors
    <3> HIDE DEF a, items
    <3> QED
      BY <3>1, ListIs
  <2>2. a \in [1 .. Len(items) -> Seq(DOMAIN items)]
    BY <1>1, <1>2, <2>1
  <2> HIDE DEF a, items
  <2>3. a \in Seq(Seq(DOMAIN items))
    BY <1>1, <2>2
  <2> QED
    BY <1>4, <2>3 DEF IsGraph
<1> QED
  BY <1>3, <1>4, <1>5

-----------------------------------------------------------------------------
(* Cycles. *)

\* A way leads from x to y, over one edge or more.
LeadsTo(a, x, y) == \E k \in Successors(a, x) : Reaches(a, k, y)

\* A node that leads to another begins with an edge.
LEMMA FirstStep ==
    ASSUME NEW a, IsGraph(a), NEW x \in Nodes(a), NEW y, Reaches(a, x, y)
    PROVE  x = y \/ LeadsTo(a, x, y)
<1> DEFINE S == {x} \cup {z \in Nodes(a) : LeadsTo(a, x, z)}
<1>1. S \subseteq Nodes(a)
  OBVIOUS
<1>2. Closed(a, S)
  <2>1. ASSUME NEW z \in S, NEW w \in Successors(a, z) PROVE w \in S
    <3>1. w \in Nodes(a)
      BY <1>1, SuccessorsAreNodes
    <3>2. LeadsTo(a, x, w)
      <4>1. CASE z = x
        BY <4>1, Paths DEF LeadsTo
      <4>2. CASE LeadsTo(a, x, z)
        BY <4>2, Paths DEF LeadsTo
      <4> QED
        BY <4>1, <4>2
    <3> QED
      BY <3>1, <3>2
  <2> QED
    BY <2>1 DEF Closed
<1>3. y \in S
  BY <1>1, <1>2 DEF Reaches
<1> QED
  BY <1>3

\* The components of a graph: all nodes of one are in the same, and one is
\* cyclic when its nodes lead to themselves.
LEMMA OfOneComponent ==
    ASSUME NEW a, NEW x \in Nodes(a), NEW y \in Component(a, x)
    PROVE  y \in Nodes(a) /\ x \in Component(a, y) /\ Component(a, x) = Component(a, y)
BY Paths DEF Component

CyclicList(a, scc) == Len(scc) >= 2 \/ Contains(a[scc[1]], scc[1])

\* The test of the code, two nodes or an edge from the first to itself, tells which.
LEMMA CyclicComponent ==
    ASSUME NEW a, IsGraph(a), NEW scc, IsList(scc), NoRepeats(scc),
           NEW x \in Nodes(a), ToSet(scc) = Component(a, x)
    PROVE  CyclicList(a, scc) <=> LeadsTo(a, x, x)
<1>1. Len(scc) \in Nat /\ DOMAIN scc = 1 .. Len(scc) /\ \A i \in 1 .. Len(scc) : scc[i] \in ToSet(scc)
  BY ListIs
<1>2. x \in ToSet(scc)
  BY Paths DEF Component
<1>3. PICK p \in 1 .. Len(scc) : scc[p] = x
  BY <1>1, <1>2 DEF ToSet
<1>4. 1 \in 1 .. Len(scc)
  BY <1>1, <1>3
<1>5. scc[1] \in Component(a, x)
  BY <1>1, <1>4
<1>6. scc[1] \in Nodes(a) /\ Reaches(a, x, scc[1]) /\ Reaches(a, scc[1], x)
  BY <1>5 DEF Component
<1>7. ASSUME Len(scc) >= 2 PROVE LeadsTo(a, x, x)
  <2>1. 2 \in 1 .. Len(scc)
    BY <1>1, <1>7
  <2>2. scc[1] # scc[2]
    BY <1>4, <2>1 DEF NoRepeats
  <2>3. PICK y \in ToSet(scc) : y # x
    BY <1>1, <1>4, <2>1, <2>2
  <2>4. Reaches(a, x, y) /\ Reaches(a, y, x)
    BY <2>3 DEF Component
  <2>5. LeadsTo(a, x, y)
    BY <2>3, <2>4, FirstStep
  <2> QED
    BY <2>4, <2>5, Paths DEF LeadsTo
<1>8. Contains(a[scc[1]], scc[1]) <=> scc[1] \in Successors(a, scc[1])
  <2>1. Len(a[scc[1]]) \in Nat /\ a[scc[1]] \in Seq(Nodes(a))
    BY <1>6, SuccessorsAreNodes
  <2>2. DOMAIN a[scc[1]] = 1 .. Len(a[scc[1]])
    BY <2>1
  <2> QED
    BY <2>2 DEF Contains, Successors, ToSet
<1>9. ASSUME scc[1] \in Successors(a, scc[1]) PROVE LeadsTo(a, x, x)
  <2>1. LeadsTo(a, scc[1], x)
    BY <1>6, <1>9 DEF LeadsTo
  <2>2. CASE x = scc[1]
    BY <2>1, <2>2
  <2>3. CASE x # scc[1]
    <3>1. LeadsTo(a, x, scc[1])
      BY <1>6, <2>3, FirstStep
    <3> QED
      BY <1>6, <3>1, Paths DEF LeadsTo
  <2> QED
    BY <2>2, <2>3
<1>10. ASSUME LeadsTo(a, x, x), ~(Len(scc) >= 2) PROVE scc[1] \in Successors(a, scc[1])
  <2>1. Len(scc) = 1
    BY <1>1, <1>4, <1>10
  <2>2. ToSet(scc) = {x} /\ scc[1] = x
    BY <1>1, <1>3, <2>1 DEF ToSet
  <2>3. PICK k \in Successors(a, x) : Reaches(a, k, x)
    BY <1>10 DEF LeadsTo
  <2>4. k \in Component(a, x)
    BY <2>3, Paths, SuccessorsAreNodes DEF Component
  <2> QED
    BY <2>2, <2>3, <2>4
<1> QED
  BY <1>7, <1>8, <1>9, <1>10 DEF CyclicList

\* The finding for the tables at some nodes.
NamedTable(d, i) == IF d.engine = "sqlserver" THEN Id(d.tables[i]) ELSE <<d.tables[i].name>>
Circle(d, nodes) ==
    [Finding("CircularReference", "error", NoTable, <<>>) EXCEPT
        !.tables = {NamedTable(d, i) : i \in nodes}]

PushedForComponent(d, scc) == If(CyclicList(Adjacency(d), scc), Circle(d, ToSet(scc)))

\* The components of the tables.
LEMMA ComponentsOfTables ==
    ASSUME NEW d, Readable(d), DistinctIds(d)
    PROVE  /\ IsList(tarjan_scc(Adjacency(d)))
           /\ \A c \in DOMAIN tarjan_scc(Adjacency(d)) :
                /\ IsList(tarjan_scc(Adjacency(d))[c])
                /\ IsList(PushedForComponent(d, tarjan_scc(Adjacency(d))[c]))
                /\ \A i \in ToSet(tarjan_scc(Adjacency(d))[c]) :
                    /\ i \in DOMAIN d.tables
                    /\ ToSet(tarjan_scc(Adjacency(d))[c]) = Component(Adjacency(d), i)
                    /\ PushedForComponent(d, tarjan_scc(Adjacency(d))[c])
                        = IF LeadsTo(Adjacency(d), i, i)
                          THEN <<Circle(d, Component(Adjacency(d), i))>> ELSE <<>>
                /\ ToSet(tarjan_scc(Adjacency(d))[c]) # {}
           /\ \A i \in DOMAIN d.tables : \E c \in DOMAIN tarjan_scc(Adjacency(d)) :
                i \in ToSet(tarjan_scc(Adjacency(d))[c])
           /\ \A c, e \in DOMAIN tarjan_scc(Adjacency(d)) :
                \A i \in ToSet(tarjan_scc(Adjacency(d))[c]) \cap ToSet(tarjan_scc(Adjacency(d))[e]) : c = e
<1> DEFINE a == Adjacency(d)
           items == tarjan_scc(a)
<1>1. IsGraph(a) /\ Nodes(a) = DOMAIN d.tables
  BY GraphOfTables
<1>2. items \in Seq(Seq(Nodes(a))) /\ Partitioned(a, Nodes(a), items)
  <2> HIDE DEF a
  <2> QED
    BY <1>1, TarjanFindsComponents
<1> HIDE DEF items
<1>3. Len(items) \in Nat /\ DOMAIN items = 1 .. Len(items) /\ IsList(items)
  BY <1>2, ListIs
<1>4. ASSUME NEW c \in DOMAIN items
      PROVE  /\ IsList(items[c]) /\ IsList(PushedForComponent(d, items[c]))
             /\ \A i \in ToSet(items[c]) :
                    /\ i \in DOMAIN d.tables
                    /\ ToSet(items[c]) = Component(a, i)
                    /\ PushedForComponent(d, items[c])
                        = IF LeadsTo(a, i, i) THEN <<Circle(d, Component(a, i))>> ELSE <<>>
             /\ ToSet(items[c]) # {}
  <2>1. items[c] \in Seq(Nodes(a)) /\ IsList(items[c])
    BY <1>2, <1>3, ListIs
  <2>2. NoRepeats(items[c])
    BY <1>2, <1>3 DEF Partitioned
  <2>3. PICK x \in Nodes(a) : ToSet(items[c]) = Component(a, x)
    BY <1>2, <1>3 DEF Partitioned
  <2>4. x \in Component(a, x)
    BY Paths DEF Component
  <2>5. ASSUME NEW i \in ToSet(items[c])
        PROVE  /\ i \in Nodes(a)
               /\ ToSet(items[c]) = Component(a, i)
               /\ PushedForComponent(d, items[c])
                    = IF LeadsTo(a, i, i) THEN <<Circle(d, Component(a, i))>> ELSE <<>>
    <3>1. i \in Nodes(a) /\ ToSet(items[c]) = Component(a, i)
      BY <2>3, OfOneComponent
    <3> DEFINE scc == items[c]
    <3> HIDE DEF scc, a
    <3>2. CyclicList(a, scc) <=> LeadsTo(a, i, i)
      BY <1>1, <2>1, <2>2, <3>1, CyclicComponent DEF scc
    <3>3. PushedForComponent(d, scc) = If(CyclicList(a, scc), Circle(d, ToSet(scc)))
      BY DEF PushedForComponent, a
    <3> QED
      BY <3>1, <3>2, <3>3 DEF scc, If
  <2>6. IsList(PushedForComponent(d, items[c]))
    BY <2>3, <2>4, <2>5, ShortLists
  <2> QED
    BY <1>1, <2>1, <2>3, <2>4, <2>5, <2>6
<1>5. \A i \in DOMAIN d.tables : \E c \in DOMAIN items : i \in ToSet(items[c])
  BY <1>1, <1>2, <1>3 DEF Partitioned
<1>6. \A c, e \in DOMAIN items : \A i \in ToSet(items[c]) \cap ToSet(items[e]) : c = e
  BY <1>2, <1>3 DEF Partitioned
<1> QED
  BY <1>3, <1>4, <1>5, <1>6 DEF items

\* The rule of the circular references.
LEMMA CircularReferences ==
    ASSUME NEW d, Readable(d), DistinctIds(d)
    PROVE  /\ IsList(circular_references(d))
           /\ \A x : x \in ToSet(circular_references(d)) <=>
                \E i \in DOMAIN d.tables :
                    LeadsTo(Adjacency(d), i, i) /\ x = Circle(d, Component(Adjacency(d), i))
<1> DEFINE a == Adjacency(d)
           items == tarjan_scc(a)
           F == [c \in DOMAIN items |-> PushedForComponent(d, items[c])]
<1>1. /\ IsList(items)
      /\ \A c \in DOMAIN items :
            /\ IsList(PushedForComponent(d, items[c]))
            /\ \A i \in ToSet(items[c]) :
                /\ i \in DOMAIN d.tables
                /\ PushedForComponent(d, items[c])
                    = IF LeadsTo(a, i, i) THEN <<Circle(d, Component(a, i))>> ELSE <<>>
            /\ ToSet(items[c]) # {}
      /\ \A i \in DOMAIN d.tables : \E c \in DOMAIN items : i \in ToSet(items[c])
  BY ComponentsOfTables
<1>2. circular_references(d) = FlattenSeq(F)
  BY DEF circular_references, ForEach, PushedForComponent, CyclicList, Circle, NamedTable
<1>3. \A c \in DOMAIN items : F[c] = PushedForComponent(d, items[c])
  OBVIOUS
<1>4. F = [c \in DOMAIN items |-> F[c]]
  OBVIOUS
<1> HIDE DEF F, items, a
<1>5. /\ IsList(FlattenSeq(F))
      /\ \A x : x \in ToSet(FlattenSeq(F)) <=> \E c \in DOMAIN items : x \in ToSet(F[c])
  BY <1>1, <1>3, <1>4, PushedForEach
<1>6. ASSUME NEW c \in DOMAIN items, NEW i \in ToSet(items[c])
      PROVE  \A x : x \in ToSet(F[c]) <=> LeadsTo(a, i, i) /\ x = Circle(d, Component(a, i))
  <2>1. F[c] = IF LeadsTo(a, i, i) THEN <<Circle(d, Component(a, i))>> ELSE <<>>
    BY <1>1, <1>3
  <2> QED
    BY <2>1, ShortLists
<1>7. \A x : (\E c \in DOMAIN items : x \in ToSet(F[c])) <=>
             \E i \in DOMAIN d.tables : LeadsTo(a, i, i) /\ x = Circle(d, Component(a, i))
  <2>1. ASSUME NEW x, NEW c \in DOMAIN items, x \in ToSet(F[c])
        PROVE  \E i \in DOMAIN d.tables : LeadsTo(a, i, i) /\ x = Circle(d, Component(a, i))
    <3>1. PICK i \in ToSet(items[c]) : TRUE
      BY <1>1
    <3> QED
      BY <1>1, <1>6, <2>1, <3>1
  <2>2. ASSUME NEW x, NEW i \in DOMAIN d.tables, LeadsTo(a, i, i), x = Circle(d, Component(a, i))
        PROVE  \E c \in DOMAIN items : x \in ToSet(F[c])
    <3>1. PICK c \in DOMAIN items : i \in ToSet(items[c])
      BY <1>1
    <3> QED
      BY <1>6, <2>2, <3>1
  <2> QED
    BY <2>1, <2>2
<1> QED
  BY <1>2, <1>5, <1>7 DEF a

-----------------------------------------------------------------------------
(* The report. *)

\* What the rules read of a Database, as model.rs has it.
Proper(d) ==
    /\ Readable(d) /\ DistinctIds(d)
    /\ \A i \in DOMAIN d.tables : d.tables[i].without_rowid \in BOOLEAN /\ d.tables[i].strict \in BOOLEAN

Findings(d) ==
    missing_primary_keys(d) \o broken_foreign_keys(d) \o duplicate_indexes(d)
    \o circular_references(d) \o invalid_metadata(d)
    \o sqlite_without_rowid_missing_primary_key(d)
    \o sqlite_strict_missing_default_on_not_null(d)

\* The findings of all rules.
LEMMA AllFindings ==
    ASSUME NEW d, Proper(d)
    PROVE  /\ IsList(Findings(d))
           /\ \A x : x \in ToSet(Findings(d)) <=>
                \/ x \in ToSet(missing_primary_keys(d))
                \/ x \in ToSet(broken_foreign_keys(d))
                \/ x \in ToSet(duplicate_indexes(d))
                \/ x \in ToSet(circular_references(d))
                \/ x \in ToSet(invalid_metadata(d))
                \/ x \in ToSet(sqlite_without_rowid_missing_primary_key(d))
                \/ x \in ToSet(sqlite_strict_missing_default_on_not_null(d))
<1> DEFINE r1 == missing_primary_keys(d)
           r2 == broken_foreign_keys(d)
           r3 == duplicate_indexes(d)
           r4 == circular_references(d)
           r5 == invalid_metadata(d)
           r6 == sqlite_without_rowid_missing_primary_key(d)
           r7 == sqlite_strict_missing_default_on_not_null(d)
<1>1. IsList(r1) /\ IsList(r2) /\ IsList(r3)
  BY MissingPrimaryKeys, BrokenForeignKeys, DuplicateIndexes DEF Proper
<1>2. IsList(r4) /\ IsList(r5)
  BY CircularReferences, InvalidMetadata DEF Proper
<1>3. IsList(r6)
  BY WithoutRowid DEF Proper
<1>4. IsList(r7)
  BY StrictTables DEF Proper
<1>5. Findings(d) = r1 \o r2 \o r3 \o r4 \o r5 \o r6 \o r7
  BY DEF Findings
<1> HIDE DEF r1, r2, r3, r4, r5, r6, r7
<1>6. IsList(r1 \o r2) /\ \A x : x \in ToSet(r1 \o r2) <=> x \in ToSet(r1) \/ x \in ToSet(r2)
  BY <1>1, PushedBoth
<1>7. /\ IsList(r1 \o r2 \o r3)
      /\ \A x : x \in ToSet(r1 \o r2 \o r3) <=> x \in ToSet(r1 \o r2) \/ x \in ToSet(r3)
  BY <1>1, <1>6, PushedBoth
<1>8. /\ IsList(r1 \o r2 \o r3 \o r4)
      /\ \A x : x \in ToSet(r1 \o r2 \o r3 \o r4) <=> x \in ToSet(r1 \o r2 \o r3) \/ x \in ToSet(r4)
  BY <1>2, <1>7, PushedBoth
<1>9. /\ IsList(r1 \o r2 \o r3 \o r4 \o r5)
      /\ \A x : x \in ToSet(r1 \o r2 \o r3 \o r4 \o r5) <=>
                    x \in ToSet(r1 \o r2 \o r3 \o r4) \/ x \in ToSet(r5)
  BY <1>2, <1>8, PushedBoth
<1>10. /\ IsList(r1 \o r2 \o r3 \o r4 \o r5 \o r6)
       /\ \A x : x \in ToSet(r1 \o r2 \o r3 \o r4 \o r5 \o r6) <=>
                    x \in ToSet(r1 \o r2 \o r3 \o r4 \o r5) \/ x \in ToSet(r6)
  BY <1>3, <1>9, PushedBoth
<1>11. /\ IsList(r1 \o r2 \o r3 \o r4 \o r5 \o r6 \o r7)
       /\ \A x : x \in ToSet(r1 \o r2 \o r3 \o r4 \o r5 \o r6 \o r7) <=>
                    x \in ToSet(r1 \o r2 \o r3 \o r4 \o r5 \o r6) \/ x \in ToSet(r7)
  BY <1>4, <1>10, PushedBoth
<1> QED
  BY <1>5, <1>6, <1>7, <1>8, <1>9, <1>10, <1>11 DEF r1, r2, r3, r4, r5, r6, r7

\* A report has these findings, and counts them.
LEMMA Reports ==
    ASSUME NEW d, Proper(d)
    PROVE  /\ DOMAIN validate(d).findings = ToSet(Findings(d))
           /\ validate(d).summary.finding_count = Len(Findings(d))
           /\ validate(d).summary.finding_count \in Nat
           /\ validate(d).summary.finding_count > 0 <=> DOMAIN validate(d).findings # {}
<1> DEFINE q == Findings(d)
<1>1. Len(q) \in Nat /\ DOMAIN q = 1 .. Len(q)
  BY AllFindings, ListIs
<1>2. validate(d).findings = Sorted(q) /\ validate(d).summary.finding_count = Len(q)
  BY DEF validate, Findings
<1> HIDE DEF q
<1>3. DOMAIN Sorted(q) = ToSet(q)
  BY DEF Sorted
<1>4. Len(q) > 0 <=> ToSet(q) # {}
  <2>1. Len(q) > 0 <=> 1 \in 1 .. Len(q)
    BY <1>1
  <2>2. (\E i \in 1 .. Len(q) : TRUE) <=> 1 \in 1 .. Len(q)
    BY <1>1
  <2> QED
    BY <1>1, <2>1, <2>2 DEF ToSet
<1> QED
  BY <1>1, <1>2, <1>3, <1>4 DEF q

-----------------------------------------------------------------------------
(* The same Database, listed in another order. *)

\* The columns and the foreign keys of a table may come in any order.
SameTable(t, u) ==
    /\ u.schema = t.schema /\ u.name = t.name /\ u.indexes = t.indexes
    /\ u.without_rowid = t.without_rowid /\ u.strict = t.strict
    /\ Alike(t.columns, u.columns) /\ Alike(t.foreign_keys, u.foreign_keys)

\* And so may the tables: table i of d is table h[i] of e.
Rearranged(h, d, e) ==
    /\ Proper(d) /\ Proper(e)
    /\ e.database = d.database /\ e.engine = d.engine /\ e.engine_version = d.engine_version
    /\ e.views = d.views
    /\ Reorders(h, d.tables, e.tables)
    /\ \A i \in DOMAIN d.tables : SameTable(d.tables[i], e.tables[h[i]])

\* What is pushed for each item of lists that are alike is alike.
LEMMA AlikeForEach ==
    ASSUME NEW p, NEW q, IsList(p), IsList(q), NEW h, Reorders(h, p, q),
           NEW F, F = [i \in DOMAIN p |-> F[i]], \A i \in DOMAIN p : IsList(F[i]),
           NEW G, G = [k \in DOMAIN q |-> G[k]], \A k \in DOMAIN q : IsList(G[k]),
           \A i \in DOMAIN p : Alike(F[i], G[h[i]])
    PROVE  Alike(FlattenSeq(F), FlattenSeq(G))
<1>1. DOMAIN F = DOMAIN p /\ DOMAIN G = DOMAIN q
  OBVIOUS
<1>2. Lists(F)
  BY PushedForEach
<1>3. Lists(G)
  BY PushedForEach
<1>4. Reorders(h, F, G)
  BY <1>1 DEF Reorders
<1> QED
  BY <1>1, <1>2, <1>3, <1>4, AlikeFlattened

\* What the rules read of the columns does not depend on their order.
LEMMA SameColumns ==
    ASSUME NEW t, NEW u, Alike(t.columns, u.columns)
    PROVE  /\ ColumnNames(t) = ColumnNames(u)
           /\ HasPrimaryKey(t) <=> HasPrimaryKey(u)
<1>1. ToSet(t.columns) = ToSet(u.columns)
  BY AlikeMembers
<1>2. ASSUME NEW v
      PROVE  /\ ColumnNames(v) = {c.name : c \in ToSet(v.columns)}
             /\ HasPrimaryKey(v) <=> \E c \in ToSet(v.columns) : c.primary_key
  BY DEF ColumnNames, HasPrimaryKey, ToSet
<1> QED
  BY <1>1, <1>2

\* A lookup finds the same table, where it is now.
LEMMA LookupMoves ==
    ASSUME NEW h, NEW d, NEW e, Rearranged(h, d, e), NEW id
    PROVE  /\ Lookup(d.tables, id) = 0 <=> Lookup(e.tables, id) = 0
           /\ Lookup(d.tables, id) # 0 =>
                /\ Lookup(d.tables, id) \in DOMAIN d.tables
                /\ Lookup(e.tables, id) = h[Lookup(d.tables, id)]
<1>1. /\ Lookup(d.tables, id) \in {0} \cup DOMAIN d.tables
      /\ 0 \notin DOMAIN d.tables
      /\ \A i \in DOMAIN d.tables : Lookup(d.tables, id) = i <=> Id(d.tables[i]) = id
  BY LookupFinds DEF Rearranged, Proper
<1>2. /\ Lookup(e.tables, id) \in {0} \cup DOMAIN e.tables
      /\ 0 \notin DOMAIN e.tables
      /\ \A i \in DOMAIN e.tables : Lookup(e.tables, id) = i <=> Id(e.tables[i]) = id
  BY LookupFinds DEF Rearranged, Proper
<1>3. \A i \in DOMAIN d.tables : h[i] \in DOMAIN e.tables /\ Id(e.tables[h[i]]) = Id(d.tables[i])
  BY DEF Rearranged, Reorders, SameTable, Id
<1>4. \A k \in DOMAIN e.tables : \E i \in DOMAIN d.tables : h[i] = k
  BY DEF Rearranged, Reorders
<1> QED
  BY <1>1, <1>2, <1>3, <1>4

\* Rule by rule the findings are alike.
LEMMA AlikeMissingPrimaryKeys ==
    ASSUME NEW h, NEW d, NEW e, Rearranged(h, d, e)
    PROVE  Alike(missing_primary_keys(d), missing_primary_keys(e))
<1> DEFINE push(t) == If(~HasPrimaryKey(t), Finding("MissingPrimaryKey", "warning", t, <<>>))
           F == [i \in DOMAIN d.tables |-> push(d.tables[i])]
           G == [i \in DOMAIN e.tables |-> push(e.tables[i])]
<1>1. missing_primary_keys(d) = FlattenSeq(F) /\ missing_primary_keys(e) = FlattenSeq(G)
  BY DEF missing_primary_keys, ForEach
<1>2. \A t : IsList(push(t))
  <2>1. ASSUME NEW t PROVE IsList(push(t))
    <3>1. (~HasPrimaryKey(t)) \in BOOLEAN
      BY DEF HasPrimaryKey
    <3> QED
      BY <3>1, PushedIf
  <2> QED
    BY <2>1
<1>3. ASSUME NEW t, NEW u, SameTable(t, u) PROVE push(t) = push(u)
  <2>1. HasPrimaryKey(t) <=> HasPrimaryKey(u)
    BY <1>3, SameColumns DEF SameTable
  <2> QED
    BY <1>3, <2>1 DEF SameTable, Finding, If
<1> HIDE DEF push
<1>4. /\ F = [i \in DOMAIN d.tables |-> F[i]] /\ G = [i \in DOMAIN e.tables |-> G[i]]
      /\ \A i \in DOMAIN d.tables : F[i] = push(d.tables[i])
      /\ \A i \in DOMAIN e.tables : G[i] = push(e.tables[i])
  OBVIOUS
<1> HIDE DEF F, G
<1>5. \A i \in DOMAIN d.tables : h[i] \in DOMAIN e.tables /\ SameTable(d.tables[i], e.tables[h[i]])
  BY DEF Rearranged, Reorders
<1>6. \A i \in DOMAIN d.tables : Alike(F[i], G[h[i]])
  BY <1>3, <1>4, <1>5, AlikeItself
<1>7. IsList(d.tables) /\ IsList(e.tables) /\ Reorders(h, d.tables, e.tables)
  BY DEF Rearranged, Proper, Readable
<1>8. /\ \A i \in DOMAIN d.tables : IsList(F[i])
      /\ \A i \in DOMAIN e.tables : IsList(G[i])
  BY <1>2, <1>4
<1>9. Alike(FlattenSeq(F), FlattenSeq(G))
  BY <1>4, <1>6, <1>7, <1>8, AlikeForEach
<1> QED
  BY <1>1, <1>9

\* the broken foreign keys,
LEMMA AlikeBrokenForeignKeys ==
    ASSUME NEW h, NEW d, NEW e, Rearranged(h, d, e)
    PROVE  Alike(broken_foreign_keys(d), broken_foreign_keys(e))
<1> DEFINE F == [i \in DOMAIN d.tables |-> PushedForKeys(d, d.tables[i])]
           G == [i \in DOMAIN e.tables |-> PushedForKeys(e, e.tables[i])]
<1>1. broken_foreign_keys(d) = FlattenSeq(F) /\ broken_foreign_keys(e) = FlattenSeq(G)
  BY DEF broken_foreign_keys, ForEach, PushedForKeys, PushedForKey
<1>2. /\ F = [i \in DOMAIN d.tables |-> F[i]] /\ G = [i \in DOMAIN e.tables |-> G[i]]
      /\ \A i \in DOMAIN d.tables : F[i] = PushedForKeys(d, d.tables[i])
      /\ \A i \in DOMAIN e.tables : G[i] = PushedForKeys(e, e.tables[i])
  OBVIOUS
<1> HIDE DEF F, G
<1>3. IsList(d.tables) /\ IsList(e.tables) /\ Reorders(h, d.tables, e.tables)
  BY DEF Rearranged, Proper, Readable
<1>4. \A i \in DOMAIN d.tables : h[i] \in DOMAIN e.tables /\ SameTable(d.tables[i], e.tables[h[i]])
  BY DEF Rearranged, Reorders
<1>5. \A i \in DOMAIN d.tables : IsList(F[i])
  <2>1. ASSUME NEW i \in DOMAIN d.tables PROVE IsList(F[i])
    <3> DEFINE t == d.tables[i]
    <3>1. /\ IsList(t.foreign_keys)
          /\ \A k \in DOMAIN t.foreign_keys : IsList(t.foreign_keys[k].referenced)
      BY DEF Rearranged, Proper, Readable
    <3>2. F[i] = PushedForKeys(d, t)
      BY <1>2
    <3> HIDE DEF t
    <3> QED
      BY <3>1, <3>2, BrokenKeys
  <2> QED
    BY <2>1
<1>6. \A i \in DOMAIN e.tables : IsList(G[i])
  <2>1. ASSUME NEW i \in DOMAIN e.tables PROVE IsList(G[i])
    <3> DEFINE t == e.tables[i]
    <3>1. /\ IsList(t.foreign_keys)
          /\ \A k \in DOMAIN t.foreign_keys : IsList(t.foreign_keys[k].referenced)
      BY DEF Rearranged, Proper, Readable
    <3>2. G[i] = PushedForKeys(e, t)
      BY <1>2
    <3> HIDE DEF t
    <3> QED
      BY <3>1, <3>2, BrokenKeys
  <2> QED
    BY <2>1
<1>7. ASSUME NEW t, NEW u, SameTable(t, u), NEW fk PROVE PushedForKey(d, t, fk) = PushedForKey(e, u, fk)
  <2> DEFINE x == Lookup(d.tables, fk.table)
             y == Lookup(e.tables, fk.table)
             broken(o) == Finding("BrokenForeignKey", "error", o, fk.columns)
  <2>1. broken(t) = broken(u)
    BY <1>7 DEF SameTable, Finding
  <2>2. x = 0 <=> y = 0
    BY LookupMoves
  <2>3. x # 0 => ColumnNames(d.tables[x]) = ColumnNames(e.tables[y])
    <3> HAVE x # 0
    <3>1. x \in DOMAIN d.tables /\ y = h[x]
      BY LookupMoves
    <3> HIDE DEF x, y
    <3>2. SameTable(d.tables[x], e.tables[y])
      BY <1>4, <3>1
    <3> QED
      BY <3>2, SameColumns DEF SameTable
  <2>4. /\ PushedForKey(d, t, fk) =
                IF x = 0 \/ Len(fk.columns) # Len(fk.referenced) THEN <<broken(t)>>
                ELSE FlattenSeq([k \in DOMAIN fk.referenced |->
                        If(fk.referenced[k] \notin ColumnNames(d.tables[x]), broken(t))])
        /\ PushedForKey(e, u, fk) =
                IF y = 0 \/ Len(fk.columns) # Len(fk.referenced) THEN <<broken(u)>>
                ELSE FlattenSeq([k \in DOMAIN fk.referenced |->
                        If(fk.referenced[k] \notin ColumnNames(e.tables[y]), broken(u))])
    BY DEF PushedForKey, ForEach
  <2> HIDE DEF x, y, broken
  <2> QED
    BY <2>1, <2>2, <2>3, <2>4
<1>8. ASSUME NEW i \in DOMAIN d.tables PROVE Alike(F[i], G[h[i]])
  <2> DEFINE t == d.tables[i]
             u == e.tables[h[i]]
             K == [k \in DOMAIN t.foreign_keys |-> PushedForKey(d, t, t.foreign_keys[k])]
             M == [k \in DOMAIN u.foreign_keys |-> PushedForKey(e, u, u.foreign_keys[k])]
  <2>1. F[i] = FlattenSeq(K) /\ G[h[i]] = FlattenSeq(M)
    BY <1>2, <1>4 DEF PushedForKeys
  <2>2. SameTable(t, u)
    BY <1>4
  <2>3. /\ IsList(t.foreign_keys) /\ IsList(u.foreign_keys)
        /\ \A k \in DOMAIN t.foreign_keys : IsList(t.foreign_keys[k].referenced)
        /\ \A k \in DOMAIN u.foreign_keys : IsList(u.foreign_keys[k].referenced)
    BY <1>4 DEF Rearranged, Proper, Readable
  <2> HIDE DEF t, u
  <2>4. PICK g : /\ Reorders(g, t.foreign_keys, u.foreign_keys)
                 /\ \A k \in DOMAIN t.foreign_keys : u.foreign_keys[g[k]] = t.foreign_keys[k]
    BY <2>2 DEF SameTable, Alike
  <2>5. /\ K = [k \in DOMAIN t.foreign_keys |-> K[k]] /\ M = [k \in DOMAIN u.foreign_keys |-> M[k]]
        /\ \A k \in DOMAIN t.foreign_keys : K[k] = PushedForKey(d, t, t.foreign_keys[k])
        /\ \A k \in DOMAIN u.foreign_keys : M[k] = PushedForKey(e, u, u.foreign_keys[k])
    OBVIOUS
  <2> HIDE DEF K, M
  <2>6. \A k \in DOMAIN t.foreign_keys : IsList(K[k])
    <3>1. ASSUME NEW k \in DOMAIN t.foreign_keys PROVE IsList(K[k])
      <4> DEFINE fk == t.foreign_keys[k]
      <4>1. IsList(fk.referenced) /\ K[k] = PushedForKey(d, t, fk)
        BY <2>3, <2>5
      <4> HIDE DEF fk
      <4> QED
        BY <4>1, BrokenKey
    <3> QED
      BY <3>1
  <2>7. \A k \in DOMAIN u.foreign_keys : IsList(M[k])
    <3>1. ASSUME NEW k \in DOMAIN u.foreign_keys PROVE IsList(M[k])
      <4> DEFINE fk == u.foreign_keys[k]
      <4>1. IsList(fk.referenced) /\ M[k] = PushedForKey(e, u, fk)
        BY <2>3, <2>5
      <4> HIDE DEF fk
      <4> QED
        BY <4>1, BrokenKey
    <3> QED
      BY <3>1
  <2>8. \A k \in DOMAIN t.foreign_keys : g[k] \in DOMAIN u.foreign_keys
    BY <2>4 DEF Reorders
  <2>9. \A k \in DOMAIN t.foreign_keys : Alike(K[k], M[g[k]])
    BY <1>7, <2>2, <2>4, <2>5, <2>8, AlikeItself
  <2>10. Alike(FlattenSeq(K), FlattenSeq(M))
    BY <2>3, <2>4, <2>5, <2>6, <2>7, <2>9, AlikeForEach
  <2> QED
    BY <2>1, <2>10
<1>9. Alike(FlattenSeq(F), FlattenSeq(G))
  BY <1>2, <1>3, <1>5, <1>6, <1>8, AlikeForEach
<1> QED
  BY <1>1, <1>9

\* the duplicate indexes,
LEMMA AlikeDuplicateIndexes ==
    ASSUME NEW h, NEW d, NEW e, Rearranged(h, d, e)
    PROVE  Alike(duplicate_indexes(d), duplicate_indexes(e))
<1> DEFINE F == [i \in DOMAIN d.tables |-> PushedForIndexes(d.tables[i])]
           G == [i \in DOMAIN e.tables |-> PushedForIndexes(e.tables[i])]
<1>1. duplicate_indexes(d) = FlattenSeq(F) /\ duplicate_indexes(e) = FlattenSeq(G)
  BY DEF duplicate_indexes, ForEach, PushedForIndexes, SignaturesOf, SignedAs
<1>2. /\ F = [i \in DOMAIN d.tables |-> F[i]] /\ G = [i \in DOMAIN e.tables |-> G[i]]
      /\ \A i \in DOMAIN d.tables : F[i] = PushedForIndexes(d.tables[i])
      /\ \A i \in DOMAIN e.tables : G[i] = PushedForIndexes(e.tables[i])
  OBVIOUS
<1> HIDE DEF F, G
<1>3. IsList(d.tables) /\ IsList(e.tables) /\ Reorders(h, d.tables, e.tables)
  BY DEF Rearranged, Proper, Readable
<1>4. \A i \in DOMAIN d.tables : h[i] \in DOMAIN e.tables /\ SameTable(d.tables[i], e.tables[h[i]])
  BY DEF Rearranged, Reorders
<1>5. \A i \in DOMAIN d.tables : IsList(F[i])
  <2>1. ASSUME NEW i \in DOMAIN d.tables PROVE IsList(F[i])
    <3> DEFINE t == d.tables[i]
    <3>1. IsList(t.indexes)
      BY DEF Rearranged, Proper, Readable
    <3>2. F[i] = PushedForIndexes(t)
      BY <1>2
    <3> HIDE DEF t
    <3> QED
      BY <3>1, <3>2, IndexesOfTable
  <2> QED
    BY <2>1
<1>6. \A i \in DOMAIN e.tables : IsList(G[i])
  <2>1. ASSUME NEW i \in DOMAIN e.tables PROVE IsList(G[i])
    <3> DEFINE t == e.tables[i]
    <3>1. IsList(t.indexes)
      BY DEF Rearranged, Proper, Readable
    <3>2. G[i] = PushedForIndexes(t)
      BY <1>2
    <3> HIDE DEF t
    <3> QED
      BY <3>1, <3>2, IndexesOfTable
  <2> QED
    BY <2>1
<1>7. ASSUME NEW t, NEW u, SameTable(t, u) PROVE PushedForIndexes(t) = PushedForIndexes(u)
  <2>1. t.schema = u.schema /\ t.name = u.name /\ t.indexes = u.indexes
    BY <1>7 DEF SameTable
  <2> QED
    BY <2>1 DEF PushedForIndexes, SignaturesOf, SignedAs, Finding
<1>8. \A i \in DOMAIN d.tables : Alike(F[i], G[h[i]])
  BY <1>2, <1>4, <1>7, AlikeItself
<1>9. Alike(FlattenSeq(F), FlattenSeq(G))
  BY <1>2, <1>3, <1>5, <1>6, <1>8, AlikeForEach
<1> QED
  BY <1>1, <1>9

\* the invalid metadata,
LEMMA AlikeInvalidMetadata ==
    ASSUME NEW h, NEW d, NEW e, Rearranged(h, d, e)
    PROVE  Alike(invalid_metadata(d), invalid_metadata(e))
<1> DEFINE p(o) == If(o.database = "", Unnamed(NoTable, <<>>))
           q(o) == If(o.engine_version = "", Unnamed(NoTable, <<>>))
           F == [i \in DOMAIN d.tables |-> InvalidObject(d.tables[i])]
           G == [i \in DOMAIN e.tables |-> InvalidObject(e.tables[i])]
           s(o) == FlattenSeq([i \in DOMAIN o.views |-> InvalidObject(o.views[i])])
<1>1. /\ invalid_metadata(d) = p(d) \o q(d) \o FlattenSeq(F) \o s(d)
      /\ invalid_metadata(e) = p(e) \o q(e) \o FlattenSeq(G) \o s(e)
  BY DEF invalid_metadata, Unnamed, ForEach
<1>2. p(d) = p(e) /\ q(d) = q(e) /\ s(d) = s(e)
  BY DEF Rearranged
<1>3. IsList(p(d)) /\ IsList(q(d))
  <2>1. (d.database = "") \in BOOLEAN /\ (d.engine_version = "") \in BOOLEAN
    OBVIOUS
  <2> QED
    BY <2>1, PushedIf
<1>4. IsList(s(d))
  BY InvalidObjectsOf DEF Rearranged, Proper, Readable
<1>5. IsList(FlattenSeq(F))
  BY InvalidObjectsOf DEF Rearranged, Proper, Readable
<1>6. IsList(FlattenSeq(G))
  BY InvalidObjectsOf DEF Rearranged, Proper, Readable
<1> HIDE DEF p, q, s
<1>7. /\ F = [i \in DOMAIN d.tables |-> F[i]] /\ G = [i \in DOMAIN e.tables |-> G[i]]
      /\ \A i \in DOMAIN d.tables : F[i] = InvalidObject(d.tables[i])
      /\ \A i \in DOMAIN e.tables : G[i] = InvalidObject(e.tables[i])
  OBVIOUS
<1> HIDE DEF F, G
<1>8. IsList(d.tables) /\ IsList(e.tables) /\ Reorders(h, d.tables, e.tables)
  BY DEF Rearranged, Proper, Readable
<1>9. \A i \in DOMAIN d.tables : h[i] \in DOMAIN e.tables /\ SameTable(d.tables[i], e.tables[h[i]])
  BY DEF Rearranged, Reorders
<1>10. \A i \in DOMAIN d.tables : IsList(d.tables[i].columns) /\ IsList(F[i])
  BY <1>7, InvalidObjects DEF Rearranged, Proper, Readable
<1>11. \A i \in DOMAIN e.tables : IsList(e.tables[i].columns) /\ IsList(G[i])
  BY <1>7, InvalidObjects DEF Rearranged, Proper, Readable
<1>12. ASSUME NEW i \in DOMAIN d.tables PROVE Alike(F[i], G[h[i]])
  <2> DEFINE t == d.tables[i]
             u == e.tables[h[i]]
             K == [k \in DOMAIN t.columns |-> PushedForColumn(t, t.columns[k])]
             M == [k \in DOMAIN u.columns |-> PushedForColumn(u, u.columns[k])]
             before(o) == If(o.schema = "", Unnamed(o, <<>>)) \o If(o.name = "", Unnamed(o, <<>>))
  <2>1. F[i] = before(t) \o FlattenSeq(K) /\ G[h[i]] = before(u) \o FlattenSeq(M)
    BY <1>7, <1>9 DEF InvalidObject, PushedForColumn, Unnamed, ForEach
  <2>2. SameTable(t, u) /\ IsList(t.columns) /\ IsList(u.columns)
    BY <1>9, <1>10, <1>11
  <2> HIDE DEF t, u
  <2>3. t.schema = u.schema /\ t.name = u.name
    BY <2>2 DEF SameTable
  <2>4. before(t) = before(u)
    BY <2>3 DEF Unnamed, Finding
  <2>5. IsList(before(t))
    <3>1. (t.schema = "") \in BOOLEAN /\ (t.name = "") \in BOOLEAN
      OBVIOUS
    <3>2. IsList(If(t.schema = "", Unnamed(t, <<>>))) /\ IsList(If(t.name = "", Unnamed(t, <<>>)))
      BY <3>1, PushedIf
    <3> QED
      BY <3>2, PushedBoth
  <2>6. \A c : PushedForColumn(t, c) = PushedForColumn(u, c)
    BY <2>3 DEF PushedForColumn, Unnamed, Finding
  <2>7. \A o, c : IsList(PushedForColumn(o, c))
    <3>1. ASSUME NEW o, NEW c PROVE IsList(PushedForColumn(o, c))
      <4>1. (c.name = "") \in BOOLEAN /\ (c.ordinal_position = 0) \in BOOLEAN
        OBVIOUS
      <4>2. IsList(If(c.name = "", Unnamed(o, <<c.name>>)))
        BY <4>1, PushedIf
      <4>3. IsList(If(c.ordinal_position = 0, Unnamed(o, <<c.name>>)))
        BY <4>1, PushedIf
      <4> QED
        BY <4>2, <4>3, PushedBoth DEF PushedForColumn
    <3> QED
      BY <3>1
  <2> HIDE DEF before
  <2>8. PICK g : /\ Reorders(g, t.columns, u.columns)
                 /\ \A k \in DOMAIN t.columns : u.columns[g[k]] = t.columns[k]
    BY <2>2 DEF SameTable, Alike
  <2>9. /\ K = [k \in DOMAIN t.columns |-> K[k]] /\ M = [k \in DOMAIN u.columns |-> M[k]]
        /\ \A k \in DOMAIN t.columns : K[k] = PushedForColumn(t, t.columns[k])
        /\ \A k \in DOMAIN u.columns : M[k] = PushedForColumn(u, u.columns[k])
    OBVIOUS
  <2> HIDE DEF K, M
  <2>10. \A k \in DOMAIN t.columns : g[k] \in DOMAIN u.columns
    BY <2>8 DEF Reorders
  <2>11. \A k \in DOMAIN t.columns : Alike(K[k], M[g[k]])
    BY <2>6, <2>8, <2>9, <2>10, AlikeItself
  <2>12. /\ \A k \in DOMAIN t.columns : IsList(K[k])
         /\ \A k \in DOMAIN u.columns : IsList(M[k])
    BY <2>7, <2>9
  <2>13. Alike(FlattenSeq(K), FlattenSeq(M))
    BY <2>2, <2>8, <2>9, <2>11, <2>12, AlikeForEach
  <2>14. IsList(FlattenSeq(K))
    BY <2>2, <2>9, <2>12, PushedForEach
  <2>15. IsList(FlattenSeq(M))
    BY <2>2, <2>9, <2>12, PushedForEach
  <2>16. Alike(before(t), before(u))
    BY <2>4, AlikeItself
  <2> QED
    BY <2>1, <2>4, <2>5, <2>13, <2>14, <2>15, <2>16, AlikeConcatenated
<1>13. Alike(FlattenSeq(F), FlattenSeq(G))
  BY <1>7, <1>8, <1>10, <1>11, <1>12, AlikeForEach
<1>14. IsList(p(d) \o q(d))
  BY <1>3, PushedBoth
<1>15. Alike(p(d) \o q(d), p(e) \o q(e))
  BY <1>2, AlikeItself
<1>16. Alike(p(d) \o q(d) \o FlattenSeq(F), p(e) \o q(e) \o FlattenSeq(G))
  BY <1>2, <1>5, <1>6, <1>13, <1>14, <1>15, AlikeConcatenated
<1>17. IsList(p(d) \o q(d) \o FlattenSeq(F))
  BY <1>5, <1>14, PushedBoth
<1>18. IsList(p(e) \o q(e) \o FlattenSeq(G))
  BY <1>2, <1>6, <1>14, PushedBoth
<1>19. Alike(s(d), s(e))
  BY <1>2, AlikeItself
<1> QED
  BY <1>1, <1>2, <1>4, <1>16, <1>17, <1>18, <1>19, AlikeConcatenated

\* and what is found of SQLite's tables without a rowid
LEMMA AlikeWithoutRowid ==
    ASSUME NEW h, NEW d, NEW e, Rearranged(h, d, e)
    PROVE  Alike(sqlite_without_rowid_missing_primary_key(d),
                 sqlite_without_rowid_missing_primary_key(e))
<1> DEFINE push(t) == If(t.without_rowid /\ ~HasPrimaryKey(t),
                         Finding("SqliteWithoutRowidMissingPrimaryKey", "error", t, <<>>))
           F == [i \in DOMAIN d.tables |-> push(d.tables[i])]
           G == [i \in DOMAIN e.tables |-> push(e.tables[i])]
<1>1. CASE d.engine # "sqlite"
  <2>1. e.engine # "sqlite"
    BY <1>1 DEF Rearranged
  <2> QED
    BY <1>1, <2>1, AlikeItself DEF sqlite_without_rowid_missing_primary_key
<1>2. CASE d.engine = "sqlite"
  <2>1. e.engine = "sqlite"
    BY <1>2 DEF Rearranged
  <2>2. /\ sqlite_without_rowid_missing_primary_key(d) = FlattenSeq(F)
        /\ sqlite_without_rowid_missing_primary_key(e) = FlattenSeq(G)
    BY <1>2, <2>1 DEF sqlite_without_rowid_missing_primary_key, ForEach
  <2>3. ASSUME NEW t, t.without_rowid \in BOOLEAN PROVE IsList(push(t))
    <3> DEFINE b == t.without_rowid /\ ~HasPrimaryKey(t)
               f == Finding("SqliteWithoutRowidMissingPrimaryKey", "error", t, <<>>)
    <3>1. b \in BOOLEAN
      BY <2>3 DEF HasPrimaryKey
    <3> HIDE DEF b, f
    <3>2. IsList(If(b, f))
      BY <3>1, PushedIf
    <3> QED
      BY <3>2 DEF b, f
  <2>4. ASSUME NEW t, NEW u, SameTable(t, u) PROVE push(t) = push(u)
    <3>1. HasPrimaryKey(t) <=> HasPrimaryKey(u)
      BY <2>4, SameColumns DEF SameTable
    <3>2. /\ t.without_rowid = u.without_rowid
          /\ Finding("SqliteWithoutRowidMissingPrimaryKey", "error", t, <<>>)
                = Finding("SqliteWithoutRowidMissingPrimaryKey", "error", u, <<>>)
      BY <2>4 DEF SameTable, Finding
    <3> QED
      BY <3>1, <3>2 DEF If
  <2> HIDE DEF push
  <2>5. /\ F = [i \in DOMAIN d.tables |-> F[i]] /\ G = [i \in DOMAIN e.tables |-> G[i]]
        /\ \A i \in DOMAIN d.tables : F[i] = push(d.tables[i])
        /\ \A i \in DOMAIN e.tables : G[i] = push(e.tables[i])
    OBVIOUS
  <2> HIDE DEF F, G
  <2>6. \A i \in DOMAIN d.tables : h[i] \in DOMAIN e.tables /\ SameTable(d.tables[i], e.tables[h[i]])
    BY DEF Rearranged, Reorders
  <2>7. \A i \in DOMAIN d.tables : Alike(F[i], G[h[i]])
    BY <2>4, <2>5, <2>6, AlikeItself
  <2>8. IsList(d.tables) /\ IsList(e.tables) /\ Reorders(h, d.tables, e.tables)
    BY DEF Rearranged, Proper, Readable
  <2>9. /\ \A i \in DOMAIN d.tables : IsList(F[i])
        /\ \A i \in DOMAIN e.tables : IsList(G[i])
    <3>1. /\ \A i \in DOMAIN d.tables : d.tables[i].without_rowid \in BOOLEAN
          /\ \A i \in DOMAIN e.tables : e.tables[i].without_rowid \in BOOLEAN
      BY DEF Rearranged, Proper
    <3> QED
      BY <2>3, <2>5, <3>1
  <2>10. Alike(FlattenSeq(F), FlattenSeq(G))
    BY <2>5, <2>7, <2>8, <2>9, AlikeForEach
  <2> QED
    BY <2>2, <2>10
<1> QED
  BY <1>1, <1>2

\* and of its strict tables.
LEMMA AlikeStrictTables ==
    ASSUME NEW h, NEW d, NEW e, Rearranged(h, d, e)
    PROVE  Alike(sqlite_strict_missing_default_on_not_null(d),
                 sqlite_strict_missing_default_on_not_null(e))
<1> DEFINE F == [i \in DOMAIN d.tables |-> PushedForStrict(d.tables[i])]
           G == [i \in DOMAIN e.tables |-> PushedForStrict(e.tables[i])]
<1>1. CASE d.engine # "sqlite"
  <2>1. e.engine # "sqlite"
    BY <1>1 DEF Rearranged
  <2> QED
    BY <1>1, <2>1, AlikeItself DEF sqlite_strict_missing_default_on_not_null
<1>2. CASE d.engine = "sqlite"
  <2>1. e.engine = "sqlite"
    BY <1>2 DEF Rearranged
  <2>2. /\ sqlite_strict_missing_default_on_not_null(d) = FlattenSeq(F)
        /\ sqlite_strict_missing_default_on_not_null(e) = FlattenSeq(G)
    BY <1>2, <2>1 DEF sqlite_strict_missing_default_on_not_null, ForEach, PushedForStrict,
                      NeedsDefault, ColumnsOfStrict, Undefaulted
  <2>3. /\ F = [i \in DOMAIN d.tables |-> F[i]] /\ G = [i \in DOMAIN e.tables |-> G[i]]
        /\ \A i \in DOMAIN d.tables : F[i] = PushedForStrict(d.tables[i])
        /\ \A i \in DOMAIN e.tables : G[i] = PushedForStrict(e.tables[i])
    OBVIOUS
  <2> HIDE DEF F, G
  <2>4. \A i \in DOMAIN d.tables : h[i] \in DOMAIN e.tables /\ SameTable(d.tables[i], e.tables[h[i]])
    BY DEF Rearranged, Reorders
  <2>5. IsList(d.tables) /\ IsList(e.tables) /\ Reorders(h, d.tables, e.tables)
    BY DEF Rearranged, Proper, Readable
  <2>6. \A i \in DOMAIN d.tables : IsList(d.tables[i].columns) /\ d.tables[i].strict \in BOOLEAN
    BY DEF Rearranged, Proper, Readable
  <2>7. \A i \in DOMAIN e.tables : IsList(e.tables[i].columns) /\ e.tables[i].strict \in BOOLEAN
    BY DEF Rearranged, Proper, Readable
  <2>8. /\ \A i \in DOMAIN d.tables : IsList(F[i])
        /\ \A i \in DOMAIN e.tables : IsList(G[i])
    BY <2>3, <2>6, <2>7, StrictTable, ZenonT(60)
  <2>9. ASSUME NEW i \in DOMAIN d.tables PROVE Alike(F[i], G[h[i]])
    <3> DEFINE t == d.tables[i]
               u == e.tables[h[i]]
               p == ColumnsOfStrict(t)
               q == ColumnsOfStrict(u)
               K == [k \in DOMAIN p |-> If(NeedsDefault(p[k]), Undefaulted(t, p[k]))]
               M == [k \in DOMAIN q |-> If(NeedsDefault(q[k]), Undefaulted(u, q[k]))]
    <3>1. F[i] = FlattenSeq(K) /\ G[h[i]] = FlattenSeq(M)
      BY <2>3, <2>4 DEF PushedForStrict
    <3>2. SameTable(t, u) /\ IsList(t.columns) /\ IsList(u.columns) /\ t.strict \in BOOLEAN
      BY <2>4, <2>6, <2>7
    <3> HIDE DEF t, u
    <3>3. IsList(p) /\ IsList(q) /\ Alike(p, q)
      BY <3>2, ShortLists, AlikeItself DEF ColumnsOfStrict, SameTable
    <3>4. \A c : Undefaulted(t, c) = Undefaulted(u, c)
      BY <3>2 DEF Undefaulted, Finding, SameTable
    <3>5. \A c, f : IsList(If(NeedsDefault(c), f))
      <4>1. ASSUME NEW c, NEW f PROVE IsList(If(NeedsDefault(c), f))
        <5>1. NeedsDefault(c) \in BOOLEAN
          BY DEF NeedsDefault
        <5> QED
          BY <5>1, PushedIf
      <4> QED
        BY <4>1
    <3> HIDE DEF p, q
    <3>6. PICK g : Reorders(g, p, q) /\ \A k \in DOMAIN p : q[g[k]] = p[k]
      BY <3>3 DEF Alike
    <3>7. /\ K = [k \in DOMAIN p |-> K[k]] /\ M = [k \in DOMAIN q |-> M[k]]
          /\ \A k \in DOMAIN p : K[k] = If(NeedsDefault(p[k]), Undefaulted(t, p[k]))
          /\ \A k \in DOMAIN q : M[k] = If(NeedsDefault(q[k]), Undefaulted(u, q[k]))
      OBVIOUS
    <3> HIDE DEF K, M
    <3>8. \A k \in DOMAIN p : g[k] \in DOMAIN q
      BY <3>6 DEF Reorders
    <3>9. /\ \A k \in DOMAIN p : IsList(K[k])
          /\ \A k \in DOMAIN q : IsList(M[k])
      BY <3>5, <3>7
    <3>10. \A k \in DOMAIN p : Alike(K[k], M[g[k]])
      BY <3>4, <3>6, <3>7, <3>8, AlikeItself
    <3>11. Alike(FlattenSeq(K), FlattenSeq(M))
      BY <3>3, <3>6, <3>7, <3>9, <3>10, AlikeForEach
    <3> QED
      BY <3>1, <3>11
  <2>10. Alike(FlattenSeq(F), FlattenSeq(G))
    BY <2>3, <2>5, <2>8, <2>9, AlikeForEach
  <2> QED
    BY <2>2, <2>10
<1> QED
  BY <1>1, <1>2

\* The nodes of a graph numbered in another way.
Renumbers(h, a, b) ==
    /\ IsGraph(a) /\ IsGraph(b)
    /\ h \in [Nodes(a) -> Nodes(b)]
    /\ \A x, y \in Nodes(a) : h[x] = h[y] => x = y
    /\ \A z \in Nodes(b) : \E x \in Nodes(a) : h[x] = z
    /\ \A x, y \in Nodes(a) : y \in Successors(a, x) <=> h[y] \in Successors(b, h[x])

\* A way leads to the renumbered node,
LEMMA ReachesRenumbered ==
    ASSUME NEW h, NEW a, NEW b, Renumbers(h, a, b),
           NEW x \in Nodes(a), NEW y \in Nodes(a), Reaches(a, x, y)
    PROVE  Reaches(b, h[x], h[y])
<1> SUFFICES ASSUME NEW T \in SUBSET Nodes(b), h[x] \in T, Closed(b, T) PROVE h[y] \in T
  BY DEF Reaches
<1> DEFINE S == {z \in Nodes(a) : h[z] \in T}
<1>1. Closed(a, S)
  <2>1. ASSUME NEW z \in S, NEW w \in Successors(a, z) PROVE w \in S
    <3>1. z \in Nodes(a) /\ w \in Nodes(a)
      BY SuccessorsAreNodes DEF Renumbers
    <3>2. h[w] \in Successors(b, h[z])
      BY <3>1 DEF Renumbers
    <3>3. h[w] \in T
      BY <3>2 DEF Closed
    <3> QED
      BY <3>1, <3>3
  <2> QED
    BY <2>1 DEF Closed
<1>2. S \in SUBSET Nodes(a) /\ x \in S
  OBVIOUS
<1> HIDE DEF S
<1>3. y \in S
  BY <1>1, <1>2 DEF Reaches
<1> QED
  BY <1>3 DEF S

\* and from it, for the numbers can be changed back.
LEMMA RenumbersBack ==
    ASSUME NEW h, NEW a, NEW b, Renumbers(h, a, b)
    PROVE  \E g : Renumbers(g, b, a) /\ \A x \in Nodes(a) : g[h[x]] = x
<1> DEFINE g == [z \in Nodes(b) |-> CHOOSE x \in Nodes(a) : h[x] = z]
<1>1. \A z \in Nodes(b) : g[z] \in Nodes(a) /\ h[g[z]] = z
  BY DEF Renumbers
<1>2. g \in [Nodes(b) -> Nodes(a)]
  BY <1>1
<1> HIDE DEF g
<1>3. \A x \in Nodes(a) : h[x] \in Nodes(b) /\ g[h[x]] = x
  BY <1>1 DEF Renumbers
<1>4. \A z, w \in Nodes(b) : w \in Successors(b, z) <=> g[w] \in Successors(a, g[z])
  <2>1. ASSUME NEW z \in Nodes(b), NEW w \in Nodes(b)
        PROVE  w \in Successors(b, z) <=> g[w] \in Successors(a, g[z])
    <3>1. g[z] \in Nodes(a) /\ g[w] \in Nodes(a) /\ h[g[z]] = z /\ h[g[w]] = w
      BY <1>1
    <3>2. g[w] \in Successors(a, g[z]) <=> h[g[w]] \in Successors(b, h[g[z]])
      BY <3>1 DEF Renumbers
    <3> QED
      BY <3>1, <3>2
  <2> QED
    BY <2>1
<1>5. \A z, w \in Nodes(b) : g[z] = g[w] => z = w
  BY <1>1
<1>6. \A x \in Nodes(a) : \E z \in Nodes(b) : g[z] = x
  BY <1>3
<1>7. IsGraph(a) /\ IsGraph(b)
  BY DEF Renumbers
<1> QED
  BY <1>2, <1>3, <1>4, <1>5, <1>6, <1>7 DEF Renumbers

\* So are the components, and the nodes that lead to themselves.
LEMMA ComponentRenumbered ==
    ASSUME NEW h, NEW a, NEW b, Renumbers(h, a, b), NEW x \in Nodes(a)
    PROVE  /\ \A y \in Nodes(a) : Reaches(a, x, y) <=> Reaches(b, h[x], h[y])
           /\ \A y \in Nodes(a) : y \in Component(a, x) <=> h[y] \in Component(b, h[x])
           /\ Component(b, h[x]) = {h[y] : y \in Component(a, x)}
           /\ LeadsTo(a, x, x) <=> LeadsTo(b, h[x], h[x])
<1>1. PICK g : Renumbers(g, b, a) /\ \A y \in Nodes(a) : g[h[y]] = y
  BY RenumbersBack
<1>2. \A y \in Nodes(a) : h[y] \in Nodes(b)
  BY DEF Renumbers
<1>3. ASSUME NEW y \in Nodes(a), NEW z \in Nodes(a)
      PROVE  Reaches(a, y, z) <=> Reaches(b, h[y], h[z])
  <2>1. Reaches(a, y, z) => Reaches(b, h[y], h[z])
    BY ReachesRenumbered
  <2>2. Reaches(b, h[y], h[z]) => Reaches(a, g[h[y]], g[h[z]])
    BY <1>1, <1>2, ReachesRenumbered
  <2>3. g[h[y]] = y /\ g[h[z]] = z
    BY <1>1
  <2> QED
    BY <2>1, <2>2, <2>3
<1>4. \A z \in Nodes(b) : \E y \in Nodes(a) : h[y] = z
  BY DEF Renumbers
<1>5. \A y \in Nodes(a) : y \in Component(a, x) <=> h[y] \in Component(b, h[x])
  BY <1>2, <1>3 DEF Component
<1>6. Component(b, h[x]) = {h[y] : y \in Component(a, x)}
  <2>1. Component(b, h[x]) \subseteq Nodes(b) /\ Component(a, x) \subseteq Nodes(a)
    BY DEF Component
  <2> QED
    BY <1>4, <1>5, <2>1
<1>7. ASSUME NEW y \in Nodes(a)
      PROVE  y \in Successors(a, x) <=> h[y] \in Successors(b, h[x])
  BY DEF Renumbers
<1>8. ASSUME LeadsTo(a, x, x) PROVE LeadsTo(b, h[x], h[x])
  <2>1. PICK k \in Successors(a, x) : Reaches(a, k, x)
    BY <1>8 DEF LeadsTo
  <2>2. k \in Nodes(a)
    BY SuccessorsAreNodes DEF Renumbers
  <2> QED
    BY <1>3, <1>7, <2>1, <2>2 DEF LeadsTo
<1>9. ASSUME LeadsTo(b, h[x], h[x]) PROVE LeadsTo(a, x, x)
  <2>1. PICK k \in Successors(b, h[x]) : Reaches(b, k, h[x])
    BY <1>9 DEF LeadsTo
  <2>2. k \in Nodes(b)
    BY <1>2, SuccessorsAreNodes DEF Renumbers
  <2>3. PICK y \in Nodes(a) : h[y] = k
    BY <1>4, <2>2
  <2> QED
    BY <1>3, <1>7, <2>1, <2>3 DEF LeadsTo
<1> QED
  BY <1>3, <1>5, <1>6, <1>8, <1>9

\* The graph of the tables is renumbered as the tables are.
LEMMA GraphRenumbered ==
    ASSUME NEW h, NEW d, NEW e, Rearranged(h, d, e)
    PROVE  Renumbers(h, Adjacency(d), Adjacency(e))
<1> DEFINE a == Adjacency(d)
           b == Adjacency(e)
<1>1. /\ IsGraph(a) /\ Nodes(a) = DOMAIN d.tables
      /\ \A i \in DOMAIN d.tables : \A x :
            x \in Successors(a, i) <=>
                /\ x \in DOMAIN d.tables
                /\ \E k \in DOMAIN d.tables[i].foreign_keys :
                    Lookup(d.tables, d.tables[i].foreign_keys[k].table) = x
  BY GraphOfTables DEF Rearranged, Proper
<1>2. /\ IsGraph(b) /\ Nodes(b) = DOMAIN e.tables
      /\ \A i \in DOMAIN e.tables : \A x :
            x \in Successors(b, i) <=>
                /\ x \in DOMAIN e.tables
                /\ \E k \in DOMAIN e.tables[i].foreign_keys :
                    Lookup(e.tables, e.tables[i].foreign_keys[k].table) = x
  BY GraphOfTables DEF Rearranged, Proper
<1> HIDE DEF a, b
<1>3. /\ h \in [DOMAIN d.tables -> DOMAIN e.tables]
      /\ \A x, y \in DOMAIN d.tables : h[x] = h[y] => x = y
      /\ \A z \in DOMAIN e.tables : \E x \in DOMAIN d.tables : h[x] = z
  BY DEF Rearranged, Reorders
<1>4. ASSUME NEW x \in DOMAIN d.tables, NEW y \in DOMAIN d.tables
      PROVE  y \in Successors(a, x) <=> h[y] \in Successors(b, h[x])
  <2> DEFINE p == d.tables[x].foreign_keys
             q == e.tables[h[x]].foreign_keys
  <2>1. h[x] \in DOMAIN e.tables /\ h[y] \in DOMAIN e.tables
    BY <1>3
  <2>2. Alike(p, q)
    BY DEF Rearranged, SameTable
  <2> HIDE DEF p, q
  <2>3. ToSet(p) = ToSet(q)
    BY <2>2, AlikeMembers
  <2>4. ASSUME NEW fk PROVE Lookup(d.tables, fk.table) = y <=> Lookup(e.tables, fk.table) = h[y]
    <3> DEFINE u == Lookup(d.tables, fk.table)
               w == Lookup(e.tables, fk.table)
    <3>1. /\ u = 0 <=> w = 0
          /\ u # 0 => u \in DOMAIN d.tables /\ w = h[u]
      BY LookupMoves
    <3>2. 0 \notin DOMAIN d.tables /\ 0 \notin DOMAIN e.tables
      BY LookupFinds DEF Rearranged, Proper
    <3> HIDE DEF u, w
    <3>3. u = y <=> w = h[y]
      BY <1>3, <2>1, <3>1, <3>2
    <3> QED
      BY <3>3 DEF u, w
  <2>5. y \in Successors(a, x) <=> \E fk \in ToSet(p) : Lookup(d.tables, fk.table) = y
    BY <1>1 DEF ToSet, p
  <2>6. h[y] \in Successors(b, h[x]) <=> \E fk \in ToSet(q) : Lookup(e.tables, fk.table) = h[y]
    BY <1>2, <2>1 DEF ToSet, q
  <2> QED
    BY <2>3, <2>4, <2>5, <2>6
<1>5. Renumbers(h, a, b)
  BY <1>1, <1>2, <1>3, <1>4 DEF Renumbers
<1> QED
  BY <1>5 DEF a, b

\* The circular findings of rearranged tables are alike.
LEMMA AlikeCircularReferences ==
    ASSUME NEW h, NEW d, NEW e, Rearranged(h, d, e)
    PROVE  Alike(circular_references(d), circular_references(e))
<1> DEFINE a == Adjacency(d)
           b == Adjacency(e)
           C == tarjan_scc(a)
           D == tarjan_scc(b)
           F == [c \in DOMAIN C |-> PushedForComponent(d, C[c])]
           G == [c \in DOMAIN D |-> PushedForComponent(e, D[c])]
<1>1. /\ circular_references(d) = FlattenSeq(F)
      /\ circular_references(e) = FlattenSeq(G)
  BY DEF circular_references, ForEach, PushedForComponent, CyclicList, Circle, NamedTable
<1>2. Renumbers(h, a, b)
  BY GraphRenumbered
<1>3. /\ IsList(C)
      /\ \A c \in DOMAIN C :
            /\ IsList(PushedForComponent(d, C[c]))
            /\ \A i \in ToSet(C[c]) :
                /\ i \in DOMAIN d.tables
                /\ ToSet(C[c]) = Component(a, i)
                /\ PushedForComponent(d, C[c])
                        = IF LeadsTo(a, i, i) THEN <<Circle(d, Component(a, i))>> ELSE <<>>
            /\ ToSet(C[c]) # {}
      /\ \A i \in DOMAIN d.tables : \E c \in DOMAIN C : i \in ToSet(C[c])
      /\ \A c, f \in DOMAIN C : \A i \in ToSet(C[c]) \cap ToSet(C[f]) : c = f
  BY ComponentsOfTables DEF Rearranged, Proper
<1>4. /\ IsList(D)
      /\ \A c \in DOMAIN D :
            /\ IsList(PushedForComponent(e, D[c]))
            /\ \A i \in ToSet(D[c]) :
                /\ i \in DOMAIN e.tables
                /\ ToSet(D[c]) = Component(b, i)
                /\ PushedForComponent(e, D[c])
                        = IF LeadsTo(b, i, i) THEN <<Circle(e, Component(b, i))>> ELSE <<>>
            /\ ToSet(D[c]) # {}
      /\ \A i \in DOMAIN e.tables : \E c \in DOMAIN D : i \in ToSet(D[c])
      /\ \A c, f \in DOMAIN D : \A i \in ToSet(D[c]) \cap ToSet(D[f]) : c = f
  BY ComponentsOfTables DEF Rearranged, Proper
<1>5. /\ F = [c \in DOMAIN C |-> F[c]] /\ G = [c \in DOMAIN D |-> G[c]]
      /\ \A c \in DOMAIN C : F[c] = PushedForComponent(d, C[c])
      /\ \A c \in DOMAIN D : G[c] = PushedForComponent(e, D[c])
  OBVIOUS
<1>6. Nodes(a) = DOMAIN d.tables /\ Nodes(b) = DOMAIN e.tables
  <2>1. Nodes(a) = DOMAIN d.tables
    BY GraphOfTables DEF Rearranged, Proper
  <2>2. Nodes(b) = DOMAIN e.tables
    BY GraphOfTables DEF Rearranged, Proper
  <2> QED
    BY <2>1, <2>2
<1> HIDE DEF a, b, C, D, F, G
<1>7. ASSUME NEW i \in DOMAIN d.tables
      PROVE  /\ h[i] \in DOMAIN e.tables
             /\ Component(b, h[i]) = {h[y] : y \in Component(a, i)}
             /\ Component(a, i) \subseteq DOMAIN d.tables
             /\ \A y \in DOMAIN d.tables : y \in Component(a, i) <=> h[y] \in Component(b, h[i])
             /\ LeadsTo(a, i, i) <=> LeadsTo(b, h[i], h[i])
             /\ Circle(e, Component(b, h[i])) = Circle(d, Component(a, i))
  <2>1. i \in Nodes(a)
    BY <1>6
  <2>2. /\ Component(b, h[i]) = {h[y] : y \in Component(a, i)}
        /\ \A y \in Nodes(a) : y \in Component(a, i) <=> h[y] \in Component(b, h[i])
        /\ LeadsTo(a, i, i) <=> LeadsTo(b, h[i], h[i])
    BY <1>2, <2>1, ComponentRenumbered
  <2>3. \A y \in DOMAIN d.tables : h[y] \in DOMAIN e.tables /\ NamedTable(e, h[y]) = NamedTable(d, y)
    BY DEF Rearranged, Reorders, SameTable, NamedTable, Id
  <2>4. Component(a, i) \subseteq DOMAIN d.tables
    BY <1>6 DEF Component
  <2>5. {NamedTable(e, z) : z \in Component(b, h[i])} = {NamedTable(d, y) : y \in Component(a, i)}
    BY <2>2, <2>3, <2>4
  <2>6. Circle(e, Component(b, h[i])) = Circle(d, Component(a, i))
    BY <2>5 DEF Circle
  <2> QED
    BY <1>6, <2>2, <2>3, <2>4, <2>6
<1>8. ASSUME NEW c \in DOMAIN C
      PROVE  \E f \in DOMAIN D : \A i \in ToSet(C[c]) : h[i] \in ToSet(D[f])
  <2>1. PICK i \in ToSet(C[c]) : TRUE
    BY <1>3
  <2>2. i \in DOMAIN d.tables /\ ToSet(C[c]) = Component(a, i)
    BY <1>3
  <2>3. PICK f \in DOMAIN D : h[i] \in ToSet(D[f])
    BY <1>4, <1>7, <2>2
  <2>4. ToSet(D[f]) = Component(b, h[i])
    BY <1>4, <2>3
  <2> QED
    BY <1>7, <2>2, <2>4
<1> DEFINE m == [c \in DOMAIN C |-> CHOOSE f \in DOMAIN D : \A i \in ToSet(C[c]) : h[i] \in ToSet(D[f])]
<1>9. \A c \in DOMAIN C : m[c] \in DOMAIN D /\ \A i \in ToSet(C[c]) : h[i] \in ToSet(D[m[c]])
  BY <1>8
<1>10. m \in [DOMAIN C -> DOMAIN D]
  BY <1>9
<1> HIDE DEF m
<1>11. ASSUME NEW c \in DOMAIN C, NEW f \in DOMAIN C, m[c] = m[f] PROVE c = f
  <2>1. PICK i \in ToSet(C[c]), j \in ToSet(C[f]) : TRUE
    BY <1>3
  <2>2. i \in DOMAIN d.tables /\ j \in DOMAIN d.tables /\ ToSet(C[c]) = Component(a, i)
    BY <1>3
  <2>3. m[c] \in DOMAIN D /\ h[i] \in ToSet(D[m[c]]) /\ h[j] \in ToSet(D[m[c]])
    BY <1>9, <1>11
  <2>4. ToSet(D[m[c]]) = Component(b, h[i])
    BY <1>4, <2>3
  <2>5. j \in ToSet(C[c])
    BY <1>7, <2>2, <2>3, <2>4
  <2> QED
    BY <1>3, <2>5
<1>12. ASSUME NEW f \in DOMAIN D PROVE \E c \in DOMAIN C : m[c] = f
  <2>1. PICK z \in ToSet(D[f]) : TRUE
    BY <1>4
  <2>2. z \in DOMAIN e.tables
    BY <1>4
  <2>3. PICK i \in DOMAIN d.tables : h[i] = z
    BY <2>2 DEF Rearranged, Reorders
  <2>4. PICK c \in DOMAIN C : i \in ToSet(C[c])
    BY <1>3
  <2>5. m[c] \in DOMAIN D /\ z \in ToSet(D[m[c]])
    BY <1>9, <2>3, <2>4
  <2> QED
    BY <1>4, <2>5
<1>13. Reorders(m, C, D)
  BY <1>10, <1>11, <1>12 DEF Reorders
<1>14. ASSUME NEW c \in DOMAIN C PROVE Alike(F[c], G[m[c]])
  <2>1. PICK i \in ToSet(C[c]) : TRUE
    BY <1>3
  <2>2. i \in DOMAIN d.tables
    BY <1>3
  <2>3. F[c] = IF LeadsTo(a, i, i) THEN <<Circle(d, Component(a, i))>> ELSE <<>>
    BY <1>3, <1>5, <2>1
  <2>4. m[c] \in DOMAIN D /\ h[i] \in ToSet(D[m[c]])
    BY <1>9
  <2>5. G[m[c]] = IF LeadsTo(b, h[i], h[i]) THEN <<Circle(e, Component(b, h[i]))>> ELSE <<>>
    BY <1>4, <1>5, <2>4
  <2>6. F[c] = G[m[c]]
    BY <1>7, <2>2, <2>3, <2>5
  <2> QED
    BY <2>6, AlikeItself
<1>15. /\ \A c \in DOMAIN C : IsList(F[c])
       /\ \A c \in DOMAIN D : IsList(G[c])
  BY <1>3, <1>4, <1>5
<1>16. Alike(FlattenSeq(F), FlattenSeq(G))
  BY <1>3, <1>4, <1>5, <1>13, <1>14, <1>15, AlikeForEach
<1> QED
  BY <1>1, <1>16 DEF F, G, C, D, a, b

\* The report of a Database is that of the same Database in any other order.
THEOREM SameReport ==
    ASSUME NEW h, NEW d, NEW e, Rearranged(h, d, e)
    PROVE  validate(d) = validate(e)
<1> DEFINE r1(o) == missing_primary_keys(o)
           r2(o) == broken_foreign_keys(o)
           r3(o) == duplicate_indexes(o)
           r4(o) == circular_references(o)
           r5(o) == invalid_metadata(o)
           r6(o) == sqlite_without_rowid_missing_primary_key(o)
           r7(o) == sqlite_strict_missing_default_on_not_null(o)
<1>1. Proper(d) /\ Proper(e)
  BY DEF Rearranged
<1>2. Alike(r1(d), r1(e)) /\ Alike(r2(d), r2(e)) /\ Alike(r3(d), r3(e))
  BY AlikeMissingPrimaryKeys, AlikeBrokenForeignKeys, AlikeDuplicateIndexes
<1>3. Alike(r4(d), r4(e)) /\ Alike(r5(d), r5(e)) /\ Alike(r6(d), r6(e)) /\ Alike(r7(d), r7(e))
  BY AlikeCircularReferences, AlikeInvalidMetadata, AlikeWithoutRowid, AlikeStrictTables
<1>4. ASSUME NEW o, Proper(o)
      PROVE  /\ IsList(r1(o)) /\ IsList(r2(o)) /\ IsList(r3(o)) /\ IsList(r4(o))
             /\ IsList(r5(o)) /\ IsList(r6(o)) /\ IsList(r7(o))
  <2>1. IsList(r1(o)) /\ IsList(r2(o)) /\ IsList(r3(o))
    BY <1>4, MissingPrimaryKeys, BrokenForeignKeys, DuplicateIndexes DEF Proper
  <2>2. IsList(r4(o)) /\ IsList(r5(o))
    BY <1>4, CircularReferences, InvalidMetadata DEF Proper
  <2>3. IsList(r6(o))
    BY <1>4, WithoutRowid DEF Proper
  <2>4. IsList(r7(o))
    BY <1>4, StrictTables DEF Proper
  <2> QED
    BY <2>1, <2>2, <2>3, <2>4
<1>5. \A o : Findings(o) = r1(o) \o r2(o) \o r3(o) \o r4(o) \o r5(o) \o r6(o) \o r7(o)
  BY DEF Findings
<1> HIDE DEF r1, r2, r3, r4, r5, r6, r7
<1>6. ASSUME NEW o, Proper(o)
      PROVE  /\ IsList(r1(o) \o r2(o)) /\ IsList(r1(o) \o r2(o) \o r3(o))
             /\ IsList(r1(o) \o r2(o) \o r3(o) \o r4(o))
             /\ IsList(r1(o) \o r2(o) \o r3(o) \o r4(o) \o r5(o))
             /\ IsList(r1(o) \o r2(o) \o r3(o) \o r4(o) \o r5(o) \o r6(o))
  <2>1. IsList(r1(o) \o r2(o))
    BY <1>4, <1>6, PushedBoth
  <2>2. IsList(r1(o) \o r2(o) \o r3(o))
    BY <1>4, <1>6, <2>1, PushedBoth
  <2>3. IsList(r1(o) \o r2(o) \o r3(o) \o r4(o))
    BY <1>4, <1>6, <2>2, PushedBoth
  <2>4. IsList(r1(o) \o r2(o) \o r3(o) \o r4(o) \o r5(o))
    BY <1>4, <1>6, <2>3, PushedBoth
  <2>5. IsList(r1(o) \o r2(o) \o r3(o) \o r4(o) \o r5(o) \o r6(o))
    BY <1>4, <1>6, <2>4, PushedBoth
  <2> QED
    BY <2>1, <2>2, <2>3, <2>4, <2>5
<1>7. Alike(r1(d) \o r2(d), r1(e) \o r2(e))
  BY <1>1, <1>2, <1>4, AlikeConcatenated
<1>8. Alike(r1(d) \o r2(d) \o r3(d), r1(e) \o r2(e) \o r3(e))
  BY <1>1, <1>2, <1>4, <1>6, <1>7, AlikeConcatenated
<1>9. Alike(r1(d) \o r2(d) \o r3(d) \o r4(d), r1(e) \o r2(e) \o r3(e) \o r4(e))
  BY <1>1, <1>3, <1>4, <1>6, <1>8, AlikeConcatenated
<1>10. Alike(r1(d) \o r2(d) \o r3(d) \o r4(d) \o r5(d),
             r1(e) \o r2(e) \o r3(e) \o r4(e) \o r5(e))
  BY <1>1, <1>3, <1>4, <1>6, <1>9, AlikeConcatenated
<1>11. Alike(r1(d) \o r2(d) \o r3(d) \o r4(d) \o r5(d) \o r6(d),
             r1(e) \o r2(e) \o r3(e) \o r4(e) \o r5(e) \o r6(e))
  BY <1>1, <1>3, <1>4, <1>6, <1>10, AlikeConcatenated
<1>12. Alike(Findings(d), Findings(e))
  BY <1>1, <1>3, <1>4, <1>5, <1>6, <1>11, AlikeConcatenated
<1> DEFINE p == Findings(d)
           q == Findings(e)
           count(s, severity) == Cardinality({i \in DOMAIN s : s[i].severity = severity})
<1>13. IsList(p) /\ IsList(q)
  BY <1>1, AllFindings
<1>14. ASSUME NEW o
       PROVE  validate(o) =
                [findings |-> Sorted(Findings(o)),
                 summary |-> [tables |-> Len(o.tables), views |-> Len(o.views),
                              finding_count |-> Len(Findings(o)),
                              error_count |-> count(Findings(o), "error"),
                              warning_count |-> count(Findings(o), "warning")]]
  BY DEF validate, Findings
<1> HIDE DEF p, q
<1>15. Alike(p, q)
  BY <1>12 DEF p, q
<1>16. IsFiniteSet(DOMAIN p)
  BY <1>13, FinitelyLong
<1>17. Sorted(p) = Sorted(q)
  <2>1. ToSet(p) = ToSet(q)
    BY <1>15, AlikeMembers
  <2>2. ASSUME NEW f
        PROVE  Cardinality({i \in DOMAIN p : p[i] = f}) = Cardinality({i \in DOMAIN q : q[i] = f})
    <3> DEFINE K == {f}
    <3>1. /\ {i \in DOMAIN p : p[i] \in K} = {i \in DOMAIN p : p[i] = f}
          /\ {i \in DOMAIN q : q[i] \in K} = {i \in DOMAIN q : q[i] = f}
      OBVIOUS
    <3> HIDE DEF K
    <3>2. Cardinality({i \in DOMAIN p : p[i] \in K}) = Cardinality({i \in DOMAIN q : q[i] \in K})
      BY <1>15, <1>16, AlikeCount
    <3> QED
      BY <3>1, <3>2
  <2> QED
    BY <2>1, <2>2 DEF Sorted
<1>18. ASSUME NEW severity PROVE count(p, severity) = count(q, severity)
  <2> DEFINE K == {f \in ToSet(p) : f.severity = severity}
  <2>1. ToSet(p) = ToSet(q)
    BY <1>15, AlikeMembers
  <2>2. /\ {i \in DOMAIN p : p[i] \in K} = {i \in DOMAIN p : p[i].severity = severity}
        /\ {i \in DOMAIN q : q[i] \in K} = {i \in DOMAIN q : q[i].severity = severity}
    BY <2>1 DEF ToSet
  <2> HIDE DEF K
  <2>3. Cardinality({i \in DOMAIN p : p[i] \in K}) = Cardinality({i \in DOMAIN q : q[i] \in K})
    BY <1>15, <1>16, AlikeCount
  <2> QED
    BY <2>2, <2>3
<1>19. ASSUME NEW s, NEW t, IsList(s), IsList(t), Alike(s, t) PROVE Len(s) = Len(t)
  <2>1. Len(s) \in Nat /\ Len(t) \in Nat /\ DOMAIN s = 1 .. Len(s) /\ DOMAIN t = 1 .. Len(t)
    BY <1>19, ListIs
  <2>2. \A i \in DOMAIN s : s[i] \in ToSet(s)
    BY DEF ToSet
  <2>3. ToSet(s) = ToSet(t)
    BY <1>19, AlikeMembers
  <2>4. IsFiniteSet(DOMAIN s)
    BY <1>19, FinitelyLong
  <2>5. Cardinality({i \in DOMAIN s : s[i] \in ToSet(s)}) = Cardinality({i \in DOMAIN t : t[i] \in ToSet(s)})
    BY <1>19, <2>4, AlikeCount
  <2>6. /\ {i \in DOMAIN s : s[i] \in ToSet(s)} = DOMAIN s
        /\ {i \in DOMAIN t : t[i] \in ToSet(s)} = DOMAIN t
    BY <2>3 DEF ToSet
  <2>7. Cardinality(1 .. Len(s)) = Cardinality(1 .. Len(t))
    BY <2>1, <2>5, <2>6
  <2>8. \A n \in Nat : Cardinality(1 .. n) = n
    BY FS_Interval
  <2> QED
    BY <2>1, <2>7, <2>8
<1>20. Len(p) = Len(q)
  BY <1>13, <1>15, <1>19
<1>21. Len(d.tables) = Len(e.tables) /\ d.views = e.views
  <2>1. PICK g : Reorders(g, d.tables, e.tables)
    BY DEF Rearranged
  <2>2. IsList(d.tables) /\ IsList(e.tables)
    BY <1>1 DEF Proper, Readable
  <2>3. Len(d.tables) = Len(e.tables)
    <3> DEFINE s == d.tables
               t == e.tables
               u == [i \in DOMAIN s |-> 0]
               v == [i \in DOMAIN t |-> 0]
    <3>1. Len(s) \in Nat /\ Len(t) \in Nat /\ DOMAIN s = 1 .. Len(s) /\ DOMAIN t = 1 .. Len(t)
      BY <2>2, ListIs
    <3> HIDE DEF s, t
    <3>2. u \in Seq({0}) /\ v \in Seq({0}) /\ Len(u) = Len(s) /\ Len(v) = Len(t)
      BY <3>1
    <3>3. IsList(u) /\ IsList(v)
      BY <3>2, ListIs
    <3>4. Reorders(g, u, v)
      BY <2>1 DEF Reorders, s, t
    <3>5. DOMAIN u = DOMAIN s /\ DOMAIN v = DOMAIN t
      OBVIOUS
    <3>6. \A i \in DOMAIN u : v[g[i]] = u[i]
      BY <3>4, <3>5 DEF Reorders
    <3> HIDE DEF u, v
    <3>7. Alike(u, v)
      BY <3>4, <3>6 DEF Alike
    <3>8. Len(u) = Len(v)
      BY <1>19, <3>3, <3>7
    <3> QED
      BY <3>2, <3>8 DEF s, t
  <2> QED
    BY <2>3 DEF Rearranged
<1> QED
  BY <1>14, <1>17, <1>18, <1>20, <1>21 DEF p, q

-----------------------------------------------------------------------------
(* What the rules find of a table. *)

\* What a finding says of its table.
LEMMA FindingFields ==
    ASSUME NEW rule, NEW severity, NEW t, NEW columns
    PROVE  /\ Finding(rule, severity, t, columns).rule = rule
           /\ Finding(rule, severity, t, columns).schema = t.schema
           /\ Finding(rule, severity, t, columns).table = t.name
  BY DEF Finding

\* The findings of a list that are of one table.
FoundOf(q, t) == \E f \in ToSet(q) : <<f.schema, f.table>> = Id(t)

\* Each rule's findings have its name.
LEMMA RuleNames ==
    ASSUME NEW d, Proper(d)
    PROVE  /\ \A f \in ToSet(missing_primary_keys(d)) : f.rule = "MissingPrimaryKey"
           /\ \A f \in ToSet(broken_foreign_keys(d)) : f.rule = "BrokenForeignKey"
           /\ \A f \in ToSet(duplicate_indexes(d)) : f.rule = "DuplicateIndex"
           /\ \A f \in ToSet(circular_references(d)) : f.rule = "CircularReference"
           /\ \A f \in ToSet(invalid_metadata(d)) : f.rule = "InvalidMetadata"
           /\ \A f \in ToSet(sqlite_without_rowid_missing_primary_key(d)) :
                f.rule = "SqliteWithoutRowidMissingPrimaryKey"
           /\ \A f \in ToSet(sqlite_strict_missing_default_on_not_null(d)) :
                f.rule = "SqliteStrictMissingDefaultOnNotNull"
<1>1. Readable(d) /\ DistinctIds(d)
      /\ \A i \in DOMAIN d.tables :
            d.tables[i].without_rowid \in BOOLEAN /\ d.tables[i].strict \in BOOLEAN
  BY DEF Proper
<1>2. \A f \in ToSet(missing_primary_keys(d)) : f.rule = "MissingPrimaryKey"
  BY <1>1, MissingPrimaryKeys, FindingFields
<1>3. \A f \in ToSet(broken_foreign_keys(d)) : f.rule = "BrokenForeignKey"
  BY <1>1, BrokenForeignKeys, FindingFields
<1>4. \A f \in ToSet(duplicate_indexes(d)) : f.rule = "DuplicateIndex"
  BY <1>1, DuplicateIndexes, FindingFields
<1>5. \A f \in ToSet(circular_references(d)) : f.rule = "CircularReference"
  <2>1. \A nodes : Circle(d, nodes).rule = "CircularReference"
    BY DEF Circle, Finding
  <2> QED
    BY <1>1, <2>1, CircularReferences
<1>6. \A f \in ToSet(invalid_metadata(d)) : f.rule = "InvalidMetadata"
  <2>1. \A o, columns : Unnamed(o, columns).rule = "InvalidMetadata"
    BY FindingFields DEF Unnamed
  <2>2. \A o, f : InvalidIn(o, f) => f.rule = "InvalidMetadata"
    BY <2>1 DEF InvalidIn
  <2> QED
    BY <1>1, <2>1, <2>2, InvalidMetadata
<1>7. \A f \in ToSet(sqlite_without_rowid_missing_primary_key(d)) :
        f.rule = "SqliteWithoutRowidMissingPrimaryKey"
  BY <1>1, WithoutRowid, FindingFields
<1>8. \A f \in ToSet(sqlite_strict_missing_default_on_not_null(d)) :
        f.rule = "SqliteStrictMissingDefaultOnNotNull"
  <2>1. \A t, c : Undefaulted(t, c).rule = "SqliteStrictMissingDefaultOnNotNull"
    BY FindingFields DEF Undefaulted
  <2> QED
    BY <1>1, <2>1, StrictTables
<1> QED
  BY <1>2, <1>3, <1>4, <1>5, <1>6, <1>7, <1>8

\* The findings of a report under a name are those of the rule.
LEMMA FindingsOfRules ==
    ASSUME NEW d, Proper(d), NEW f \in ToSet(Findings(d))
    PROVE  /\ f.rule = "MissingPrimaryKey" => f \in ToSet(missing_primary_keys(d))
           /\ f.rule = "BrokenForeignKey" => f \in ToSet(broken_foreign_keys(d))
           /\ f.rule = "DuplicateIndex" => f \in ToSet(duplicate_indexes(d))
           /\ f.rule = "CircularReference" => f \in ToSet(circular_references(d))
           /\ f.rule = "InvalidMetadata" => f \in ToSet(invalid_metadata(d))
           /\ f.rule = "SqliteWithoutRowidMissingPrimaryKey" =>
                f \in ToSet(sqlite_without_rowid_missing_primary_key(d))
           /\ f.rule = "SqliteStrictMissingDefaultOnNotNull" =>
                f \in ToSet(sqlite_strict_missing_default_on_not_null(d))
  BY RuleNames, AllFindings

\* A table is found without a primary key where no column is of one.
LEMMA FoundWithoutKey ==
    ASSUME NEW d, Proper(d), NEW t \in ToSet(d.tables)
    PROVE  FoundOf(missing_primary_keys(d), t) <=> ~ \E c \in ToSet(t.columns) : c.primary_key
<1>1. PICK i \in DOMAIN d.tables : t = d.tables[i]
  BY DEF ToSet
<1>2. \A x : x \in ToSet(missing_primary_keys(d)) <=>
        \E j \in DOMAIN d.tables :
            /\ ~HasPrimaryKey(d.tables[j])
            /\ x = Finding("MissingPrimaryKey", "warning", d.tables[j], <<>>)
  BY MissingPrimaryKeys DEF Proper
<1>3. \A j \in DOMAIN d.tables : Id(d.tables[j]) = Id(t) => j = i
  BY <1>1 DEF Proper, DistinctIds
<1>4. FoundOf(missing_primary_keys(d), t) <=> ~HasPrimaryKey(t)
  <2>1. FoundOf(missing_primary_keys(d), t) <=>
        \E j \in DOMAIN d.tables : ~HasPrimaryKey(d.tables[j]) /\ Id(d.tables[j]) = Id(t)
    BY <1>2, FindingFields DEF FoundOf, Id
  <2> QED
    BY <1>1, <1>3, <2>1
<1>5. HasPrimaryKey(t) <=> \E c \in ToSet(t.columns) : c.primary_key
  BY DEF HasPrimaryKey, ToSet
<1> QED
  BY <1>4, <1>5

\* A foreign key is broken where no table is as it says.
LEMMA BrokenIs ==
    ASSUME NEW d, Proper(d), NEW fk
    PROVE  Broken(d, fk) <=>
            ~ \E u \in ToSet(d.tables) : /\ Id(u) = fk.table
                                         /\ Len(fk.columns) = Len(fk.referenced)
                                         /\ ToSet(fk.referenced) \subseteq ColumnNames(u)
<1> DEFINE n == Lookup(d.tables, fk.table)
<1>1. /\ n \in {0} \cup DOMAIN d.tables /\ 0 \notin DOMAIN d.tables
      /\ \A i \in DOMAIN d.tables : n = i <=> Id(d.tables[i]) = fk.table
  BY LookupFinds DEF Proper
<1>2. Broken(d, fk) <=>
        \/ n = 0 \/ Len(fk.columns) # Len(fk.referenced)
        \/ ~(ToSet(fk.referenced) \subseteq ColumnNames(d.tables[n]))
  BY DEF Broken
<1>3. ToSet(d.tables) = {d.tables[i] : i \in DOMAIN d.tables}
  BY DEF ToSet
<1> HIDE DEF n
<1> QED
  BY <1>1, <1>2, <1>3

\* A table is found with a broken key where one of its keys is.
LEMMA FoundBroken ==
    ASSUME NEW d, Proper(d), NEW t \in ToSet(d.tables)
    PROVE  FoundOf(broken_foreign_keys(d), t) <=>
            \E fk \in ToSet(t.foreign_keys) : Broken(d, fk)
<1>1. PICK i \in DOMAIN d.tables : t = d.tables[i]
  BY DEF ToSet
<1>2. \A x : x \in ToSet(broken_foreign_keys(d)) <=>
        \E j \in DOMAIN d.tables : \E k \in DOMAIN d.tables[j].foreign_keys :
            /\ Broken(d, d.tables[j].foreign_keys[k])
            /\ x = Finding("BrokenForeignKey", "error", d.tables[j],
                           d.tables[j].foreign_keys[k].columns)
  BY BrokenForeignKeys DEF Proper
<1>3. \A j \in DOMAIN d.tables : Id(d.tables[j]) = Id(t) => j = i
  BY <1>1 DEF Proper, DistinctIds
<1>4. FoundOf(broken_foreign_keys(d), t) <=>
        \E j \in DOMAIN d.tables : \E k \in DOMAIN d.tables[j].foreign_keys :
            Broken(d, d.tables[j].foreign_keys[k]) /\ Id(d.tables[j]) = Id(t)
  BY <1>2, FindingFields DEF FoundOf, Id
<1>5. FoundOf(broken_foreign_keys(d), t) <=>
        \E k \in DOMAIN t.foreign_keys : Broken(d, t.foreign_keys[k])
  BY <1>1, <1>3, <1>4
<1> QED
  BY <1>5 DEF ToSet

\* A table is found with duplicate indexes where two are of one signature.
LEMMA FoundDuplicate ==
    ASSUME NEW d, Proper(d), NEW t \in ToSet(d.tables)
    PROVE  FoundOf(duplicate_indexes(d), t) <=>
            \E i, j \in DOMAIN t.indexes :
                /\ i # j
                /\ t.indexes[i].columns = t.indexes[j].columns
                /\ t.indexes[i].unique = t.indexes[j].unique
<1>1. PICK i \in DOMAIN d.tables : t = d.tables[i]
  BY DEF ToSet
<1>2. \A x : x \in ToSet(duplicate_indexes(d)) <=>
        \E j \in DOMAIN d.tables : \E s \in SignaturesOf(d.tables[j]) :
            /\ Repeated(d.tables[j], s)
            /\ x = Finding("DuplicateIndex", "warning", d.tables[j], s.columns)
  BY DuplicateIndexes DEF Proper
<1>3. \A j \in DOMAIN d.tables : Id(d.tables[j]) = Id(t) => j = i
  BY <1>1 DEF Proper, DistinctIds
<1>4. FoundOf(duplicate_indexes(d), t) <=>
        \E j \in DOMAIN d.tables : \E s \in SignaturesOf(d.tables[j]) :
            Repeated(d.tables[j], s) /\ Id(d.tables[j]) = Id(t)
  <2>1. ASSUME FoundOf(duplicate_indexes(d), t)
        PROVE  \E j \in DOMAIN d.tables : \E s \in SignaturesOf(d.tables[j]) :
                    Repeated(d.tables[j], s) /\ Id(d.tables[j]) = Id(t)
    <3>1. PICK f \in ToSet(duplicate_indexes(d)) : <<f.schema, f.table>> = Id(t)
      BY <2>1 DEF FoundOf
    <3>2. PICK j \in DOMAIN d.tables : \E s \in SignaturesOf(d.tables[j]) :
            /\ Repeated(d.tables[j], s)
            /\ f = Finding("DuplicateIndex", "warning", d.tables[j], s.columns)
      BY <1>2, <3>1
    <3> QED
      BY <3>1, <3>2, FindingFields DEF Id
  <2>2. ASSUME NEW j \in DOMAIN d.tables, NEW s \in SignaturesOf(d.tables[j]),
               Repeated(d.tables[j], s), Id(d.tables[j]) = Id(t)
        PROVE  FoundOf(duplicate_indexes(d), t)
    <3> DEFINE f == Finding("DuplicateIndex", "warning", d.tables[j], s.columns)
    <3>1. f \in ToSet(duplicate_indexes(d))
      BY <1>2, <2>2
    <3>2. <<f.schema, f.table>> = Id(t)
      BY <2>2, FindingFields DEF Id
    <3> QED
      BY <3>1, <3>2 DEF FoundOf
  <2> QED
    BY <2>1, <2>2
<1>5. FoundOf(duplicate_indexes(d), t) <=> \E s \in SignaturesOf(t) : Repeated(t, s)
  BY <1>1, <1>3, <1>4
<1>6. (\E s \in SignaturesOf(t) : Repeated(t, s)) <=>
        \E j, k \in DOMAIN t.indexes : j # k /\ Signature(t.indexes[j]) = Signature(t.indexes[k])
  BY DEF SignaturesOf, Repeated, SignedAs
<1>7. \A p, q : Signature(p) = Signature(q) <=> p.columns = q.columns /\ p.unique = q.unique
  BY DEF Signature
<1> QED
  BY <1>5, <1>6, <1>7

\* A table of SQLite is found without rowid and key where it is,
LEMMA FoundWithoutRowid ==
    ASSUME NEW d, Proper(d), NEW t \in ToSet(d.tables)
    PROVE  FoundOf(sqlite_without_rowid_missing_primary_key(d), t) <=>
            /\ d.engine = "sqlite" /\ t.without_rowid
            /\ ~ \E c \in ToSet(t.columns) : c.primary_key
<1>1. PICK i \in DOMAIN d.tables : t = d.tables[i]
  BY DEF ToSet
<1> DEFINE P(j) == /\ d.engine = "sqlite" /\ d.tables[j].without_rowid
                   /\ ~HasPrimaryKey(d.tables[j])
<1>2. \A x : x \in ToSet(sqlite_without_rowid_missing_primary_key(d)) <=>
        \E j \in DOMAIN d.tables :
            P(j) /\ x = Finding("SqliteWithoutRowidMissingPrimaryKey", "error", d.tables[j], <<>>)
  BY WithoutRowid DEF Proper
<1>3. \A j \in DOMAIN d.tables : Id(d.tables[j]) = Id(t) => j = i
  BY <1>1 DEF Proper, DistinctIds
<1> HIDE DEF P
<1>4. FoundOf(sqlite_without_rowid_missing_primary_key(d), t) <=>
        \E j \in DOMAIN d.tables : P(j) /\ Id(d.tables[j]) = Id(t)
  BY <1>2, FindingFields DEF FoundOf, Id
<1>5. FoundOf(sqlite_without_rowid_missing_primary_key(d), t) <=> P(i)
  BY <1>1, <1>3, <1>4
<1>6. HasPrimaryKey(t) <=> \E c \in ToSet(t.columns) : c.primary_key
  BY DEF HasPrimaryKey, ToSet
<1>7. t.without_rowid \in BOOLEAN
  BY <1>1 DEF Proper
<1> QED
  BY <1>1, <1>5, <1>6, <1>7 DEF P

\* and a strict one where a column may not be null and has no default.
LEMMA FoundStrict ==
    ASSUME NEW d, Proper(d), NEW t \in ToSet(d.tables)
    PROVE  FoundOf(sqlite_strict_missing_default_on_not_null(d), t) <=>
            /\ d.engine = "sqlite" /\ t.strict
            /\ \E c \in ToSet(t.columns) : NeedsDefault(c)
<1>1. PICK i \in DOMAIN d.tables : t = d.tables[i]
  BY DEF ToSet
<1> DEFINE P(j) == d.engine = "sqlite" /\ d.tables[j].strict
           B(j, k) == NeedsDefault(d.tables[j].columns[k])
<1>2. \A x : x \in ToSet(sqlite_strict_missing_default_on_not_null(d)) <=>
        \E j \in DOMAIN d.tables :
            P(j) /\ \E k \in DOMAIN d.tables[j].columns :
                B(j, k) /\ x = Undefaulted(d.tables[j], d.tables[j].columns[k])
  BY StrictTables DEF Proper
<1>3. \A j \in DOMAIN d.tables : Id(d.tables[j]) = Id(t) => j = i
  BY <1>1 DEF Proper, DistinctIds
<1>4. (\E c \in ToSet(t.columns) : NeedsDefault(c)) <=> \E k \in DOMAIN t.columns : B(i, k)
  BY <1>1 DEF ToSet
<1>5. t.strict \in BOOLEAN
  BY <1>1 DEF Proper
<1>6. P(i) <=> d.engine = "sqlite" /\ t.strict
  BY <1>1, <1>5
<1> HIDE DEF P, B
<1>7. \A u, c : Undefaulted(u, c).schema = u.schema /\ Undefaulted(u, c).table = u.name
  BY FindingFields DEF Undefaulted
<1>8. FoundOf(sqlite_strict_missing_default_on_not_null(d), t) <=>
        \E j \in DOMAIN d.tables :
            P(j) /\ Id(d.tables[j]) = Id(t) /\ \E k \in DOMAIN d.tables[j].columns : B(j, k)
  BY <1>2, <1>7 DEF FoundOf, Id
<1>9. FoundOf(sqlite_strict_missing_default_on_not_null(d), t) <=>
        P(i) /\ \E k \in DOMAIN t.columns : B(i, k)
  BY <1>1, <1>3, <1>8
<1> QED
  BY <1>4, <1>6, <1>9

=============================================================================
