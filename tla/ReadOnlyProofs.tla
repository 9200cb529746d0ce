---------------------------- MODULE ReadOnlyProofs -----------------------------
(***************************************************************************)
(* The scanner lets a text pass exactly when the standard reads it as one  *)
(* query, for texts of any length and of any symbols.                      *)
(***************************************************************************)
EXTENDS ReadOnly, WellFoundedInduction, TLAPS

-----------------------------------------------------------------------------
(* Induction, and functions defined by it. *)

\* A set of positions has a first.
LEMMA FirstPosition ==
    ASSUME NEW S \in SUBSET Nat, S # {}
    PROVE  LET first == CHOOSE i \in S : \A j \in S : i <= j
           IN  first \in S /\ \A j \in S : first <= j
<1>1. PICK i \in S : \A j \in S : ~(<<j, i>> \in OpToRel(<, Nat))
  BY NatLessThanWellFounded, WFMin
<1>2. \A j \in S : i <= j
  <2>1. OpToRel(<, Nat) = {ss \in Nat \X Nat : ss[1] < ss[2]}
    BY DEF OpToRel
  <2>2. ASSUME NEW j \in S, j < i PROVE FALSE
    <3>1. <<j, i>> \in Nat \X Nat
      OBVIOUS
    <3>2. <<j, i>> \in {ss \in Nat \X Nat : ss[1] < ss[2]}
      BY <2>2, <3>1
    <3> QED
      BY <1>1, <2>1, <3>2
  <2>3. i \in Nat /\ \A j \in S : j \in Nat
    OBVIOUS
  <2> QED
    BY <2>2, <2>3
<1> DEFINE IsFirst(k) == \A j \in S : k <= j
<1>3. \E k \in S : IsFirst(k)
  BY <1>2
<1>4. (CHOOSE k \in S : IsFirst(k)) \in S /\ IsFirst(CHOOSE k \in S : IsFirst(k))
  <2> HIDE DEF IsFirst
  <2> QED
    BY <1>3
<1> QED
  BY <1>4

\* step[i] makes the value at i of a function of 1 .. n, and looks no nearer than i + 1.
LooksAhead(step, n, V) ==
    /\ step \in [1 .. n -> [[1 .. n -> V] -> V]]
    /\ \A i \in 1 .. n : \A f, g \in [1 .. n -> V] :
        (\A j \in 1 .. n : i < j => f[j] = g[j]) => step[i][f] = step[i][g]

HasSolution(step, n, V) == \E f \in [1 .. n -> V] : \A i \in 1 .. n : f[i] = step[i][f]

\* A function of the positions 1 .. n may be defined by what it is further on.
LEMMA DefinedFromTheEnd ==
    ASSUME NEW n \in Nat, NEW V, NEW default \in V, NEW step, LooksAhead(step, n, V)
    PROVE  HasSolution(step, n, V)
<1> USE DEF LooksAhead
<1> DEFINE F == [1 .. n -> V]
           Right(f, k) == \A i \in 1 .. n : n - k < i => f[i] = step[i][f]
           Bad == {k \in 0 .. n : ~ \E f \in F : Right(f, k)}
<1>1. 0 \notin Bad
  <2> DEFINE f == [i \in 1 .. n |-> default]
  <2>1. f \in F /\ Right(f, 0)
    OBVIOUS
  <2> HIDE DEF f, F, Right
  <2> QED
    BY <2>1
<1>2. ASSUME NEW k \in Nat, k + 1 \in 0 .. n, k \notin Bad
      PROVE  k + 1 \notin Bad
  <2>1. PICK f \in F : Right(f, k)
    BY <1>2
  <2> DEFINE at == n - k
             g == [f EXCEPT ![at] = step[at][f]]
  <2>2. at \in 1 .. n /\ g \in F
    BY <1>2
  <2>3. \A j \in 1 .. n : j # at => g[j] = f[j]
    OBVIOUS
  <2>4. g[at] = step[at][f]
    BY <2>2
  <2>5. ASSUME NEW i \in 1 .. n, at <= i
        PROVE  g[i] = step[i][g]
    <3>1. step[i][g] = step[i][f]
      <4>1. \A j \in 1 .. n : i < j => g[j] = f[j]
        BY <2>2, <2>3, <2>5
      <4> HIDE DEF g
      <4> QED
        BY <2>2, <4>1
    <3>2. CASE i = at
      BY <2>4, <3>1, <3>2
    <3>3. CASE at < i
      <4>1. g[i] = f[i]
        BY <2>3, <3>3
      <4>2. f[i] = step[i][f]
        BY <2>1, <3>3
      <4> QED
        BY <3>1, <4>1, <4>2
    <3> HIDE DEF g
    <3> QED
      BY <2>2, <2>5, <3>2, <3>3
  <2>6. Right(g, k + 1)
    <3>1. \A i \in 1 .. n : n - (k + 1) < i => at <= i
      BY <1>2
    <3> HIDE DEF g, at
    <3> QED
      BY <2>5, <3>1
  <2>7. \E f0 \in F : Right(f0, k + 1)
    <3> HIDE DEF g, Right, F
    <3> QED
      BY <2>2, <2>6
  <2> HIDE DEF Right, F
  <2> QED
    BY <2>7
<1>3. Bad = {}
  <2> SUFFICES ASSUME Bad # {} PROVE FALSE
    OBVIOUS
  <2> DEFINE first == CHOOSE i \in Bad : \A j \in Bad : i <= j
  <2>1. first \in Bad /\ \A j \in Bad : first <= j
    <3>1. Bad \in SUBSET Nat
      OBVIOUS
    <3> HIDE DEF Bad
    <3> QED
      BY <3>1, FirstPosition
  <2>2. first \in 0 .. n
    BY <2>1
  <2> HIDE DEF first, Bad
  <2>3. first # 0 /\ first - 1 \in Nat /\ first - 1 \notin Bad /\ (first - 1) + 1 = first
    BY <1>1, <2>1, <2>2
  <2> QED
    BY <1>2, <2>1, <2>2, <2>3
<1>4. \E f \in F : Right(f, n)
  <2>1. n \notin Bad
    BY <1>3
  <2> QED
    BY <2>1
<1> QED
  BY <1>4 DEF HasSolution

\* Positions that each are in Z when all those after it are, are all in it.
LEMMA FromTheEnd ==
    ASSUME NEW n \in Nat, NEW Z,
           \A i \in 1 .. n : (\A j \in 1 .. n : i < j => j \in Z) => i \in Z
    PROVE  \A i \in 1 .. n : i \in Z
<1> DEFINE Bad == {k \in 0 .. n : n - k \in 1 .. n /\ n - k \notin Z}
<1>1. SUFFICES ASSUME NEW at \in 1 .. n, at \notin Z
               PROVE  FALSE
  OBVIOUS
<1>2. n - at \in Bad
  <2>1. n - at \in 0 .. n /\ n - (n - at) = at
    OBVIOUS
  <2> QED
    BY <1>1, <2>1
<1> DEFINE first == CHOOSE i \in Bad : \A j \in Bad : i <= j
<1>3. first \in Bad /\ \A j \in Bad : first <= j
  <2>1. Bad \in SUBSET Nat
    OBVIOUS
  <2> HIDE DEF Bad
  <2> QED
    BY <1>2, <2>1, FirstPosition
<1> HIDE DEF first
<1>4. n - first \in 1 .. n /\ n - first \notin Z /\ first \in 0 .. n
  BY <1>3
<1>5. \A j \in 1 .. n : n - first < j => j \in Z
  <2> SUFFICES ASSUME NEW j \in 1 .. n, n - first < j, j \notin Z
               PROVE  FALSE
    OBVIOUS
  <2>1. n - j \in Bad
    OBVIOUS
  <2>2. first <= n - j
    BY <1>3, <2>1
  <2> HIDE DEF Bad
  <2> QED
    BY <1>4, <2>2
<1> QED
  BY <1>4, <1>5

-----------------------------------------------------------------------------
(* The parts of the scanner. *)

\* FirstOf is a position, the least of those found, or the end.
LEMMA FirstOfIs ==
    ASSUME NEW S, NEW text \in Seq(S), NEW found \in SUBSET (1 .. Len(text) + 1)
    PROVE  /\ FirstOf(text, found) \in 1 .. Len(text) + 1
           /\ found = {} => FirstOf(text, found) = Len(text) + 1
           /\ found # {} => FirstOf(text, found) \in found
           /\ \A k \in found : FirstOf(text, found) <= k
<1>1. Len(text) \in Nat
  OBVIOUS
<1>2. CASE found = {}
  BY <1>1, <1>2 DEF FirstOf
<1>3. CASE found # {}
  <2>1. found \in SUBSET Nat
    BY <1>1
  <2>2. FirstOf(text, found) = CHOOSE i \in found : \A j \in found : i <= j
    BY <1>3 DEF FirstOf
  <2>3. FirstOf(text, found) \in found /\ \A k \in found : FirstOf(text, found) <= k
    BY <1>3, <2>1, <2>2, FirstPosition
  <2> QED
    BY <1>3, <2>3
<1> QED
  BY <1>2, <1>3

\* A comment is left behind.
LEMMA CommentsEnd ==
    ASSUME NEW S, NEW text \in Seq(S), NEW i \in 1 .. Len(text), i < Len(text)
    PROVE  skip_comment(text, i) \in i + 2 .. Len(text) + 1
<1> DEFINE blocks == {j + 2 : j \in {k \in i + 2 .. Len(text) : StartsWith(text, <<"*", "/">>, k)}}
           lines == {j + 1 : j \in {k \in i + 2 .. Len(text) : text[k] = "newline"}}
<1>1. Len(text) \in Nat
  OBVIOUS
<1>2. blocks \in SUBSET (i + 2 .. Len(text) + 1)
  BY <1>1 DEF StartsWith
<1>3. lines \in SUBSET (i + 2 .. Len(text) + 1)
  BY <1>1
<1>4. ASSUME NEW found \in SUBSET (i + 2 .. Len(text) + 1)
      PROVE  FirstOf(text, found) \in i + 2 .. Len(text) + 1
  <2>1. found \in SUBSET (1 .. Len(text) + 1)
    BY <1>1
  <2> QED
    BY <1>1, <2>1, FirstOfIs
<1>5. skip_comment(text, i) = FirstOf(text, IF text[i] = "/" THEN blocks ELSE lines)
  BY DEF skip_comment
<1> HIDE DEF blocks, lines
<1> QED
  BY <1>2, <1>3, <1>4, <1>5

OpensComment(text, i) == StartsWith(text, <<"/", "*">>, i) \/ StartsWith(text, <<"-", "-">>, i)

\* skip_noise stands at every position for what its definition says: the
\* recursion reaches the end, so the function there is.
LEMMA SkipNoise ==
    ASSUME NEW S, NEW text \in Seq(S)
    PROVE  /\ skip_noise(text) \in [1 .. Len(text) + 1 -> 1 .. Len(text) + 1]
           /\ \A i \in 1 .. Len(text) + 1 :
                skip_noise(text)[i] =
                    IF i > Len(text) THEN i
                    ELSE IF text[i] \in Space THEN skip_noise(text)[i + 1]
                    ELSE IF OpensComment(text, i) THEN skip_noise(text)[skip_comment(text, i)]
                    ELSE i
<1> DEFINE n == Len(text) + 1
           P == 1 .. n
           F == [1 .. n -> P]
           Body(i, f) == IF i > Len(text) THEN i
                         ELSE IF text[i] \in Space THEN f[i + 1]
                         ELSE IF OpensComment(text, i) THEN f[skip_comment(text, i)]
                         ELSE i
           step == [i \in 1 .. n |-> [f \in F |-> Body(i, f)]]
<1>1. Len(text) \in Nat /\ n \in Nat /\ 1 \in P
  OBVIOUS
<1>2. \A i \in 1 .. Len(text) : i + 1 \in P /\ i < i + 1
  BY <1>1
<1>3. \A i \in 1 .. Len(text) :
        OpensComment(text, i) => skip_comment(text, i) \in P /\ i < skip_comment(text, i)
  BY <1>1, CommentsEnd DEF OpensComment, StartsWith
<1>4. \A i \in P : ~(i > Len(text)) => i \in 1 .. Len(text)
  BY <1>1
<1>5. ASSUME NEW i \in P, NEW f, \A j \in P : i < j => f[j] \in P
      PROVE  Body(i, f) \in P
  <2> HIDE DEF P
  <2> QED
    BY <1>2, <1>3, <1>4, <1>5
<1>6. ASSUME NEW i \in P, NEW f \in F, NEW g \in F, \A j \in P : i < j => f[j] = g[j]
      PROVE  Body(i, f) = Body(i, g)
  <2> HIDE DEF P
  <2> QED
    BY <1>2, <1>3, <1>4, <1>6
<1>7. \E f \in F : f = [i \in 1 .. n |-> Body(i, f)]
  <2> HIDE DEF Body
  <2>1. step \in [1 .. n -> [[1 .. n -> P] -> P]]
    BY <1>5
  <2>2. \A i \in 1 .. n, f \in F : step[i][f] = Body(i, f)
    OBVIOUS
  <2> HIDE DEF step, n
  <2>3. LooksAhead(step, n, P)
    <3> SUFFICES ASSUME NEW i \in P, NEW f \in F, NEW g \in F, \A j \in P : i < j => f[j] = g[j]
                 PROVE  step[i][f] = step[i][g]
      BY <2>1 DEF LooksAhead
    <3>1. Body(i, f) = Body(i, g)
      BY <1>6
    <3>2. step[i][f] = Body(i, f) /\ step[i][g] = Body(i, g)
      BY <2>2
    <3> QED
      BY <3>1, <3>2
  <2> HIDE DEF P
  <2>4. HasSolution(step, n, P)
    BY <1>1, <2>3, DefinedFromTheEnd
  <2> QED
    BY <2>2, <2>4 DEF HasSolution
<1>8. skip_noise(text) = CHOOSE f : f = [i \in 1 .. n |-> Body(i, f)]
  BY DEF skip_noise, OpensComment
<1>9. skip_noise(text) \in F /\ skip_noise(text) = [i \in 1 .. n |-> Body(i, skip_noise(text))]
  <2> HIDE DEF Body, n
  <2>1. PICK f \in F : f = [i \in 1 .. n |-> Body(i, f)]
    BY <1>7
  <2>2. skip_noise(text) = [i \in 1 .. n |-> Body(i, skip_noise(text))]
    BY <2>1, <1>8
  <2> DEFINE Typed == {j \in 1 .. n : skip_noise(text)[j] \in P}
  <2>3. ASSUME NEW i \in 1 .. n, \A j \in 1 .. n : i < j => j \in Typed
        PROVE  i \in Typed
    BY <1>5, <2>2, <2>3
  <2>4. \A i \in 1 .. n : i \in Typed
    <3> HIDE DEF Typed
    <3> QED
      BY <1>1, <2>3, FromTheEnd
  <2> QED
    BY <2>2, <2>4
<1>10. \A i \in 1 .. n : skip_noise(text)[i] = Body(i, skip_noise(text))
  <2> HIDE DEF Body, n
  <2> QED
    BY <1>9
<1> QED
  BY <1>9, <1>10

\* So does the reading of a string,
LEMMA StringEnd ==
    ASSUME NEW S, NEW text \in Seq(S)
    PROVE  /\ string_end(text) \in [1 .. Len(text) + 1 -> 1 .. Len(text) + 1]
           /\ \A j \in 1 .. Len(text) + 1 :
                string_end(text)[j] =
                    IF j > Len(text) THEN j
                    ELSE IF text[j] # "quote" THEN string_end(text)[j + 1]
                    ELSE IF StartsWith(text, <<"quote", "quote">>, j) THEN string_end(text)[j + 2]
                    ELSE j + 1
<1> DEFINE n == Len(text) + 1
           P == 1 .. n
           F == [1 .. n -> P]
           Body(j, f) == IF j > Len(text) THEN j
                         ELSE IF text[j] # "quote" THEN f[j + 1]
                         ELSE IF StartsWith(text, <<"quote", "quote">>, j) THEN f[j + 2]
                         ELSE j + 1
           step == [i \in 1 .. n |-> [f \in F |-> Body(i, f)]]
<1>1. Len(text) \in Nat /\ n \in Nat /\ 1 \in P
  OBVIOUS
<1>2. \A i \in 1 .. Len(text) : i + 1 \in P /\ i < i + 1
  BY <1>1
<1>3. \A i \in 1 .. Len(text) :
        StartsWith(text, <<"quote", "quote">>, i) => i + 2 \in P /\ i < i + 2
  BY <1>1 DEF StartsWith
<1>4. \A i \in P : ~(i > Len(text)) => i \in 1 .. Len(text)
  BY <1>1
<1>5. ASSUME NEW i \in P, NEW f, \A j \in P : i < j => f[j] \in P
      PROVE  Body(i, f) \in P
  <2> HIDE DEF P
  <2> QED
    BY <1>2, <1>3, <1>4, <1>5
<1>6. ASSUME NEW i \in P, NEW f \in F, NEW g \in F, \A j \in P : i < j => f[j] = g[j]
      PROVE  Body(i, f) = Body(i, g)
  <2> HIDE DEF P
  <2> QED
    BY <1>2, <1>3, <1>4, <1>6
<1>7. \E f \in F : f = [i \in 1 .. n |-> Body(i, f)]
  <2> HIDE DEF Body
  <2>1. step \in [1 .. n -> [[1 .. n -> P] -> P]]
    BY <1>5
  <2>2. \A i \in 1 .. n, f \in F : step[i][f] = Body(i, f)
    OBVIOUS
  <2> HIDE DEF step, n
  <2>3. LooksAhead(step, n, P)
    <3> SUFFICES ASSUME NEW i \in P, NEW f \in F, NEW g \in F, \A j \in P : i < j => f[j] = g[j]
                 PROVE  step[i][f] = step[i][g]
      BY <2>1 DEF LooksAhead
    <3>1. Body(i, f) = Body(i, g)
      BY <1>6
    <3>2. step[i][f] = Body(i, f) /\ step[i][g] = Body(i, g)
      BY <2>2
    <3> QED
      BY <3>1, <3>2
  <2> HIDE DEF P
  <2>4. HasSolution(step, n, P)
    BY <1>1, <2>3, DefinedFromTheEnd
  <2> QED
    BY <2>2, <2>4 DEF HasSolution
<1>8. string_end(text) = CHOOSE f : f = [i \in 1 .. n |-> Body(i, f)]
  BY DEF string_end
<1>9. string_end(text) \in F /\ string_end(text) = [i \in 1 .. n |-> Body(i, string_end(text))]
  <2> HIDE DEF Body, n
  <2>1. PICK f \in F : f = [i \in 1 .. n |-> Body(i, f)]
    BY <1>7
  <2>2. string_end(text) = [i \in 1 .. n |-> Body(i, string_end(text))]
    BY <2>1, <1>8
  <2> DEFINE Typed == {j \in 1 .. n : string_end(text)[j] \in P}
  <2>3. ASSUME NEW i \in 1 .. n, \A j \in 1 .. n : i < j => j \in Typed
        PROVE  i \in Typed
    BY <1>5, <2>2, <2>3
  <2>4. \A i \in 1 .. n : i \in Typed
    <3> HIDE DEF Typed
    <3> QED
      BY <1>1, <2>3, FromTheEnd
  <2> QED
    BY <2>2, <2>4
<1>10. \A i \in 1 .. n : string_end(text)[i] = Body(i, string_end(text))
  <2> HIDE DEF Body, n
  <2> QED
    BY <1>9
<1> QED
  BY <1>9, <1>10

\* and that of a delimited identifier, a backslash before the end included.
LEMMA DelimitedEnd ==
    ASSUME NEW S, NEW text \in Seq(S), NEW close
    PROVE  /\ delimited_end(text, close) \in [1 .. Len(text) + 2 -> 1 .. Len(text) + 1]
           /\ \A j \in 1 .. Len(text) + 2 :
                delimited_end(text, close)[j] =
                    IF j > Len(text) THEN Len(text) + 1
                    ELSE IF text[j] = close THEN j + 1
                    ELSE IF text[j] = "escape" THEN delimited_end(text, close)[j + 2]
                    ELSE delimited_end(text, close)[j + 1]
<1> DEFINE n == Len(text) + 2
           P == 1 .. n
           V == 1 .. Len(text) + 1
           F == [1 .. n -> V]
           Body(j, f) == IF j > Len(text) THEN Len(text) + 1
                         ELSE IF text[j] = close THEN j + 1
                         ELSE IF text[j] = "escape" THEN f[j + 2]
                         ELSE f[j + 1]
           step == [i \in 1 .. n |-> [f \in F |-> Body(i, f)]]
<1>1. Len(text) \in Nat /\ n \in Nat /\ 1 \in V
  OBVIOUS
<1>2. \A i \in 1 .. Len(text) : i + 1 \in P /\ i < i + 1 /\ i + 2 \in P /\ i < i + 2 /\ i + 1 \in V
  BY <1>1
<1>3. Len(text) + 1 \in V
  BY <1>1
<1>4. \A i \in P : ~(i > Len(text)) => i \in 1 .. Len(text)
  BY <1>1
<1>5. ASSUME NEW i \in P, NEW f, \A j \in P : i < j => f[j] \in V
      PROVE  Body(i, f) \in V
  <2> HIDE DEF P, V
  <2> QED
    BY <1>2, <1>3, <1>4, <1>5
<1>6. ASSUME NEW i \in P, NEW f \in F, NEW g \in F, \A j \in P : i < j => f[j] = g[j]
      PROVE  Body(i, f) = Body(i, g)
  <2> HIDE DEF P, V
  <2> QED
    BY <1>2, <1>3, <1>4, <1>6
<1>7. \E f \in F : f = [i \in 1 .. n |-> Body(i, f)]
  <2> HIDE DEF Body
  <2>1. step \in [1 .. n -> [[1 .. n -> V] -> V]]
    BY <1>5
  <2>2. \A i \in 1 .. n, f \in F : step[i][f] = Body(i, f)
    OBVIOUS
  <2> HIDE DEF step, n
  <2>3. LooksAhead(step, n, V)
    <3> SUFFICES ASSUME NEW i \in P, NEW f \in F, NEW g \in F, \A j \in P : i < j => f[j] = g[j]
                 PROVE  step[i][f] = step[i][g]
      BY <2>1 DEF LooksAhead
    <3>1. Body(i, f) = Body(i, g)
      BY <1>6
    <3>2. step[i][f] = Body(i, f) /\ step[i][g] = Body(i, g)
      BY <2>2
    <3> QED
      BY <3>1, <3>2
  <2> HIDE DEF V
  <2>4. HasSolution(step, n, V)
    BY <1>1, <2>3, DefinedFromTheEnd
  <2> QED
    BY <2>2, <2>4 DEF HasSolution
<1>8. delimited_end(text, close) = CHOOSE f : f = [i \in 1 .. n |-> Body(i, f)]
  BY DEF delimited_end
<1>9. delimited_end(text, close) \in F /\ delimited_end(text, close) = [i \in 1 .. n |-> Body(i, delimited_end(text, close))]
  <2> HIDE DEF Body, n
  <2>1. PICK f \in F : f = [i \in 1 .. n |-> Body(i, f)]
    BY <1>7
  <2>2. delimited_end(text, close) = [i \in 1 .. n |-> Body(i, delimited_end(text, close))]
    BY <2>1, <1>8
  <2> DEFINE Typed == {j \in 1 .. n : delimited_end(text, close)[j] \in V}
  <2>3. ASSUME NEW i \in 1 .. n, \A j \in 1 .. n : i < j => j \in Typed
        PROVE  i \in Typed
    BY <1>5, <2>2, <2>3
  <2>4. \A i \in 1 .. n : i \in Typed
    <3> HIDE DEF Typed
    <3> QED
      BY <1>1, <2>3, FromTheEnd
  <2> QED
    BY <2>2, <2>4
<1>10. \A i \in 1 .. n : delimited_end(text, close)[i] = Body(i, delimited_end(text, close))
  <2> HIDE DEF Body, n
  <2> QED
    BY <1>9
<1> QED
  BY <1>9, <1>10

\* What is copied from further on, or is no earlier, is no earlier.
LEMMA NoEarlier ==
    ASSUME NEW n \in Nat, NEW f,
           \A i \in 1 .. n :
                f[i] \in Nat /\ (f[i] < i => \E j \in 1 .. n : i < j /\ f[i] = f[j])
    PROVE  \A i \in 1 .. n : i <= f[i]
<1> DEFINE Later == {i \in 1 .. n : i <= f[i]}
<1>1. ASSUME NEW i \in 1 .. n, \A j \in 1 .. n : i < j => j \in Later
      PROVE  i \in Later
  <2>1. CASE ~(f[i] < i)
    BY <2>1
  <2>2. CASE f[i] < i
    <3>1. PICK j \in 1 .. n : i < j /\ f[i] = f[j]
      BY <2>2
    <3> QED
      BY <1>1, <3>1
  <2> QED
    BY <2>1, <2>2
<1>2. \A i \in 1 .. n : i \in Later
  <2> HIDE DEF Later
  <2> QED
    BY <1>1, FromTheEnd
<1> QED
  BY <1>2

\* The ends of literals are past their beginnings.
LEMMA EndsAreLater ==
    ASSUME NEW S, NEW text \in Seq(S), NEW close
    PROVE  /\ \A i \in 1 .. Len(text) + 1 : i <= skip_noise(text)[i]
           /\ \A i \in 1 .. Len(text) + 1 : i <= string_end(text)[i]
           /\ \A i \in 1 .. Len(text) + 1 : i <= delimited_end(text, close)[i]
<1> DEFINE n == Len(text) + 1
<1>1. Len(text) \in Nat /\ n \in Nat
  OBVIOUS
<1>2. ASSUME NEW i \in 1 .. n
      PROVE  LET f == skip_noise(text)
             IN  f[i] \in Nat /\ (f[i] < i => \E j \in 1 .. n : i < j /\ f[i] = f[j])
  <2> DEFINE f == skip_noise(text)
  <2>1. f[i] \in Nat
    <3>1. f \in [1 .. n -> 1 .. n]
      BY SkipNoise
    <3> HIDE DEF f
    <3> QED
      BY <1>1, <3>1
  <2>2. CASE i > Len(text) \/ (text[i] \notin Space /\ ~OpensComment(text, i))
    <3>1. f[i] = IF i > Len(text) THEN i
                 ELSE IF text[i] \in Space THEN f[i + 1]
                 ELSE IF OpensComment(text, i) THEN f[skip_comment(text, i)]
                 ELSE i
      BY SkipNoise
    <3>2. f[i] = i
      <4> HIDE DEF f
      <4> QED
        BY <2>2, <3>1
    <3> QED
      BY <2>1, <3>2
  <2>3. CASE i <= Len(text) /\ text[i] \in Space
    <3>1. f[i] = f[i + 1] /\ i + 1 \in 1 .. n /\ i < i + 1
      BY <1>1, <2>3, SkipNoise
    <3> QED
      BY <2>1, <3>1
  <2>4. CASE i <= Len(text) /\ text[i] \notin Space /\ OpensComment(text, i)
    <3>1. skip_comment(text, i) \in i + 2 .. n
      BY <1>1, <2>4, CommentsEnd DEF OpensComment, StartsWith
    <3>2. f[i] = f[skip_comment(text, i)]
      BY <1>1, <2>4, SkipNoise
    <3>3. skip_comment(text, i) \in 1 .. n /\ i < skip_comment(text, i)
      BY <1>1, <3>1
    <3> QED
      BY <2>1, <3>2, <3>3
  <2> QED
    BY <1>1, <2>2, <2>3, <2>4
<1>3. ASSUME NEW i \in 1 .. n
      PROVE  LET f == string_end(text)
             IN  f[i] \in Nat /\ (f[i] < i => \E j \in 1 .. n : i < j /\ f[i] = f[j])
  <2> DEFINE f == string_end(text)
  <2>1. f[i] \in Nat
    BY <1>1, StringEnd
  <2>2. CASE i > Len(text)
    <3>1. f[i] = i
      BY <2>2, StringEnd
    <3> QED
      BY <2>1, <3>1
  <2>3. CASE i <= Len(text) /\ text[i] # "quote"
    <3>1. f[i] = f[i + 1] /\ i + 1 \in 1 .. n /\ i < i + 1
      BY <1>1, <2>3, StringEnd
    <3> QED
      BY <2>1, <3>1
  <2>4. CASE i <= Len(text) /\ text[i] = "quote" /\ StartsWith(text, <<"quote", "quote">>, i)
    <3>1. i + 2 \in 1 .. n /\ i < i + 2
      BY <1>1, <2>4 DEF StartsWith
    <3>2. f[i] = f[i + 2]
      BY <1>1, <2>4, StringEnd
    <3> QED
      BY <2>1, <3>1, <3>2
  <2>5. CASE i <= Len(text) /\ text[i] = "quote" /\ ~StartsWith(text, <<"quote", "quote">>, i)
    <3>1. f[i] = i + 1
      BY <1>1, <2>5, StringEnd
    <3> QED
      BY <2>1, <3>1
  <2> QED
    BY <1>1, <2>2, <2>3, <2>4, <2>5
<1>4. ASSUME NEW i \in 1 .. n
      PROVE  LET f == delimited_end(text, close)
             IN  f[i] \in Nat /\ (f[i] < i => \E j \in 1 .. n : i < j /\ f[i] = f[j])
  <2> DEFINE f == delimited_end(text, close)
  <2>1. f[i] \in Nat
    BY <1>1, DelimitedEnd
  <2>2. CASE i > Len(text) \/ text[i] = close
    <3>1. f[i] = Len(text) + 1 \/ f[i] = i + 1
      BY <1>1, <2>2, DelimitedEnd
    <3> QED
      BY <1>1, <2>1, <3>1
  <2>3. CASE i <= Len(text) /\ text[i] # close /\ text[i] # "escape"
    <3>1. f[i] = f[i + 1] /\ i + 1 \in 1 .. n /\ i < i + 1
      BY <1>1, <2>3, DelimitedEnd
    <3> QED
      BY <2>1, <3>1
  <2>4. CASE i <= Len(text) /\ text[i] # close /\ text[i] = "escape"
    <3>1. f[i] = f[i + 2] /\ i + 2 \in 1 .. n + 1 /\ i < i + 2
      BY <1>1, <2>4, DelimitedEnd
    <3>2. CASE i + 2 \in 1 .. n
      BY <2>1, <3>1, <3>2
    <3>3. CASE i + 2 = n + 1
      <4>1. f[i + 2] = Len(text) + 1
        BY <1>1, <3>1, <3>3, DelimitedEnd
      <4> QED
        BY <1>1, <2>1, <2>4, <3>1, <4>1
    <3> QED
      BY <1>1, <3>1, <3>2, <3>3
  <2> QED
    BY <1>1, <2>2, <2>3, <2>4
<1> HIDE DEF n
<1>5. \A i \in 1 .. n : i <= skip_noise(text)[i]
  BY <1>1, <1>2, NoEarlier
<1>6. \A i \in 1 .. n : i <= string_end(text)[i]
  BY <1>1, <1>3, NoEarlier
<1>7. \A i \in 1 .. n : i <= delimited_end(text, close)[i]
  BY <1>1, <1>4, NoEarlier
<1> QED
  BY <1>5, <1>6, <1>7 DEF n

\* A word ends at the first symbol that cannot go on with it, or at the end.
LEMMA WordEnd ==
    ASSUME NEW S, NEW text \in Seq(S), NEW i \in 1 .. Len(text), text[i] \in WordStart
    PROVE  /\ word_end(text, i) \in i + 1 .. Len(text) + 1
           /\ \A j \in i .. word_end(text, i) - 1 : text[j] \in WordContinue
           /\ word_end(text, i) <= Len(text) => text[word_end(text, i)] \notin WordContinue
<1> DEFINE found == {j \in i .. Len(text) : text[j] \notin WordContinue}
<1>1. Len(text) \in Nat /\ text[i] \in WordContinue
  BY DEF WordContinue
<1>2. word_end(text, i) = FirstOf(text, found)
  BY DEF word_end
<1>3. found \in SUBSET (1 .. Len(text) + 1)
  BY <1>1
<1>4. /\ FirstOf(text, found) \in 1 .. Len(text) + 1
      /\ found = {} => FirstOf(text, found) = Len(text) + 1
      /\ found # {} => FirstOf(text, found) \in found
      /\ \A k \in found : FirstOf(text, found) <= k
  <2> HIDE DEF found
  <2> QED
    BY <1>3, FirstOfIs
<1>5. CASE found = {}
  <2>1. word_end(text, i) = Len(text) + 1
    BY <1>2, <1>4, <1>5
  <2>2. \A j \in i .. Len(text) : text[j] \in WordContinue
    BY <1>5
  <2> QED
    BY <1>1, <2>1, <2>2
<1>6. CASE found # {}
  <2>1. FirstOf(text, found) \in found
    BY <1>4, <1>6
  <2>2. FirstOf(text, found) # i
    BY <1>1, <2>1
  <2>3. \A j \in i .. FirstOf(text, found) - 1 : text[j] \in WordContinue
    BY <1>1, <1>4, <2>1
  <2> QED
    BY <1>1, <1>2, <2>1, <2>2, <2>3
<1> QED
  BY <1>5, <1>6

\* A token takes at least one symbol and none past the end.
LEMMA NextToken ==
    ASSUME NEW S, NEW text \in Seq(S), NEW i \in 1 .. Len(text)
    PROVE  next_token(text, i) \in i + 1 .. Len(text) + 1
<1>1. Len(text) \in Nat
  OBVIOUS
<1>2. CASE text[i] = "quote"
  <2>1. next_token(text, i) = string_end(text)[i + 1]
    BY <1>2 DEF next_token, skip_single_quoted_string, Closer, WordStart
  <2>2. i + 1 \in 1 .. Len(text) + 1
    BY <1>1
  <2>3. string_end(text)[i + 1] \in 1 .. Len(text) + 1 /\ i + 1 <= string_end(text)[i + 1]
    BY <2>2, StringEnd, EndsAreLater
  <2> QED
    BY <1>1, <2>1, <2>3
<1>3. CASE text[i] # "quote" /\ text[i] \in DOMAIN Closer
  <2>1. next_token(text, i) = delimited_end(text, Closer[text[i]])[i + 1]
    BY <1>3 DEF next_token, skip_delimited, Closer, WordStart
  <2>2. i + 1 \in 1 .. Len(text) + 1 /\ i + 1 \in 1 .. Len(text) + 2
    BY <1>1
  <2> DEFINE close == Closer[text[i]]
  <2>3. delimited_end(text, close)[i + 1] \in 1 .. Len(text) + 1
        /\ i + 1 <= delimited_end(text, close)[i + 1]
    <3> HIDE DEF close
    <3> QED
      BY <2>2, DelimitedEnd, EndsAreLater
  <2> QED
    BY <1>1, <2>1, <2>3
<1>4. CASE text[i] # "quote" /\ text[i] \notin DOMAIN Closer /\ text[i] \in WordStart
  <2>1. next_token(text, i) = word_end(text, i)
    BY <1>4 DEF next_token
  <2> QED
    BY <1>4, <2>1, WordEnd
<1>5. CASE text[i] # "quote" /\ text[i] \notin DOMAIN Closer /\ text[i] \notin WordStart
  <2>1. next_token(text, i) = i + 1
    BY <1>5 DEF next_token
  <2> QED
    BY <1>1, <2>1
<1> QED
  BY <1>2, <1>3, <1>4, <1>5

Verdicts == {"ok", "NotReadOnly", "MultipleStatements"}

\* The scan, too, is defined at every position.
LEMMA ScanTokens ==
    ASSUME NEW S, NEW text \in Seq(S)
    PROVE  /\ scan_tokens(text) \in [1 .. Len(text) + 1 -> Verdicts]
           /\ \A i \in 1 .. Len(text) + 1 :
                scan_tokens(text)[i] =
                    LET skip == skip_noise(text)
                        at == skip[i] IN
                    IF at > Len(text) THEN "ok"
                    ELSE IF is_mutating_keyword(Word(text, at)) THEN "NotReadOnly"
                    ELSE IF text[at] = "semicolon" /\ skip[at + 1] <= Len(text) THEN "MultipleStatements"
                    ELSE scan_tokens(text)[next_token(text, at)]
<1> DEFINE n == Len(text) + 1
           P == 1 .. n
           F == [1 .. n -> Verdicts]
           skip == skip_noise(text)
           Body(i, f) == IF skip[i] > Len(text) THEN "ok"
                         ELSE IF is_mutating_keyword(Word(text, skip[i])) THEN "NotReadOnly"
                         ELSE IF text[skip[i]] = "semicolon" /\ skip[skip[i] + 1] <= Len(text)
                              THEN "MultipleStatements"
                         ELSE f[next_token(text, skip[i])]
           step == [i \in 1 .. n |-> [f \in F |-> Body(i, f)]]
<1>1. Len(text) \in Nat /\ n \in Nat /\ "ok" \in Verdicts
  BY DEF Verdicts
<1>2. \A i \in P : skip[i] \in P /\ i <= skip[i]
  <2>1. skip \in [P -> P]
    BY SkipNoise
  <2>2. \A i \in P : i <= skip[i]
    BY EndsAreLater
  <2> HIDE DEF skip, P
  <2> QED
    BY <2>1, <2>2
<1>3. \A i \in P : ~(skip[i] > Len(text)) =>
        next_token(text, skip[i]) \in P /\ i < next_token(text, skip[i])
  <2>1. ASSUME NEW i \in P, ~(skip[i] > Len(text))
        PROVE  next_token(text, skip[i]) \in P /\ i < next_token(text, skip[i])
    <3> DEFINE at == skip[i]
    <3>1. at \in 1 .. Len(text) /\ i <= at
      <4>1. at \in P /\ i <= at
        BY <1>2
      <4> HIDE DEF at
      <4> QED
        BY <1>1, <2>1, <4>1 DEF at
    <3> HIDE DEF at
    <3>2. next_token(text, at) \in at + 1 .. Len(text) + 1
      BY <3>1, NextToken
    <3>3. next_token(text, at) \in P /\ i < next_token(text, at)
      BY <1>1, <3>1, <3>2
    <3> QED
      BY <3>3 DEF at
  <2> QED
    BY <2>1
<1>5. ASSUME NEW i \in P, NEW f, \A j \in P : i < j => f[j] \in Verdicts
      PROVE  Body(i, f) \in Verdicts
  <2> HIDE DEF P, skip
  <2> QED
    BY <1>3, <1>5 DEF Verdicts
<1>6. ASSUME NEW i \in P, NEW f \in F, NEW g \in F, \A j \in P : i < j => f[j] = g[j]
      PROVE  Body(i, f) = Body(i, g)
  <2> HIDE DEF P, skip
  <2> QED
    BY <1>3, <1>6
<1>7. \E f \in F : f = [i \in 1 .. n |-> Body(i, f)]
  <2> HIDE DEF Body
  <2>1. step \in [1 .. n -> [[1 .. n -> Verdicts] -> Verdicts]]
    BY <1>5
  <2>2. \A i \in 1 .. n, f \in F : step[i][f] = Body(i, f)
    OBVIOUS
  <2> HIDE DEF step, n
  <2>3. LooksAhead(step, n, Verdicts)
    <3> SUFFICES ASSUME NEW i \in P, NEW f \in F, NEW g \in F, \A j \in P : i < j => f[j] = g[j]
                 PROVE  step[i][f] = step[i][g]
      BY <2>1 DEF LooksAhead
    <3>1. Body(i, f) = Body(i, g)
      BY <1>6
    <3>2. step[i][f] = Body(i, f) /\ step[i][g] = Body(i, g)
      BY <2>2
    <3> QED
      BY <3>1, <3>2
  <2> HIDE DEF P
  <2>4. HasSolution(step, n, Verdicts)
    BY <1>1, <2>3, DefinedFromTheEnd
  <2> QED
    BY <2>2, <2>4 DEF HasSolution
<1>8. scan_tokens(text) = CHOOSE f : f = [i \in 1 .. n |-> Body(i, f)]
  BY DEF scan_tokens
<1>9. scan_tokens(text) \in F /\ scan_tokens(text) = [i \in 1 .. n |-> Body(i, scan_tokens(text))]
  <2> HIDE DEF Body, n
  <2>1. PICK f \in F : f = [i \in 1 .. n |-> Body(i, f)]
    BY <1>7
  <2>2. scan_tokens(text) = [i \in 1 .. n |-> Body(i, scan_tokens(text))]
    BY <2>1, <1>8
  <2> DEFINE Typed == {j \in 1 .. n : scan_tokens(text)[j] \in Verdicts}
  <2>3. ASSUME NEW i \in 1 .. n, \A j \in 1 .. n : i < j => j \in Typed
        PROVE  i \in Typed
    BY <1>5, <2>2, <2>3
  <2>4. \A i \in 1 .. n : i \in Typed
    <3> HIDE DEF Typed
    <3> QED
      BY <1>1, <2>3, FromTheEnd
  <2> QED
    BY <2>2, <2>4
<1>10. \A i \in 1 .. n : scan_tokens(text)[i] = Body(i, scan_tokens(text))
  <2> HIDE DEF Body, n
  <2> QED
    BY <1>9
<1> QED
  BY <1>9, <1>10

\* What closes a literal is one of the modes of a literal.
LEMMA ClosesIs ==
    ASSUME NEW x \in DOMAIN Closer \cup {"quote"}
    PROVE  Closes(x) \in Literals
BY DEF Closer, Closes, Literals

\* What may be left of a text.
Left(S) == S \cup {" ", "literal"}

\* The text from i on, in mode m, of what is left further on.
BareStep(text, i, m, f) ==
    IF i > Len(text) THEN <<>>
    ELSE CASE m = "code" /\ StartsWith(text, <<"/", "*">>, i) -> f[i + 2]["block"]
           [] m = "code" /\ StartsWith(text, <<"-", "-">>, i) -> f[i + 2]["line"]
           [] m = "code" /\ text[i] \in DOMAIN Closer \cup {"quote"} ->
                <<"literal">> \o f[i + 1][Closes(text[i])]
           [] m = "block" /\ StartsWith(text, <<"*", "/">>, i) -> <<" ">> \o f[i + 2]["code"]
           [] m = "line" /\ text[i] = "newline" -> <<" ">> \o f[i + 1]["code"]
           [] m \in Literals /\ text[i] = m -> f[i + 1]["code"]
           [] OTHER -> (IF m = "code" THEN <<text[i]>> ELSE <<>>) \o f[i + 1][m]

\* One step of the standard's reading is a text if the steps further on are.
LEMMA BareTyped ==
    ASSUME NEW S, NEW text \in Seq(S), NEW i \in 1 .. Len(text) + 2, NEW m \in Modes, NEW f,
           \A j \in 1 .. Len(text) + 2 : i < j => f[j] \in [Modes -> Seq(Left(S))]
    PROVE  BareStep(text, i, m, f) \in Seq(Left(S))
<1>1. CASE i > Len(text)
  BY <1>1 DEF BareStep
<1>2. CASE i \in 1 .. Len(text)
  <2>1. text[i] \in Left(S) /\ " " \in Left(S) /\ "literal" \in Left(S)
    <3>1. text[i] \in S
      BY <1>2
    <3> QED
      BY <3>1 DEF Left
  <2>2. ASSUME NEW o \in Modes
        PROVE  f[i + 1][o] \in Seq(Left(S)) /\ f[i + 2][o] \in Seq(Left(S))
    <3>1. f[i + 1] \in [Modes -> Seq(Left(S))] /\ f[i + 2] \in [Modes -> Seq(Left(S))]
      BY <1>2
    <3> QED
      BY <3>1
  <2>3. /\ "code" \in Modes /\ "block" \in Modes /\ "line" \in Modes
        /\ \A x \in DOMAIN Closer \cup {"quote"} : Closes(x) \in Modes
    BY ClosesIs DEF Modes
  <2>4. /\ <<" ">> \in Seq(Left(S)) /\ <<"literal">> \in Seq(Left(S))
        /\ <<text[i]>> \in Seq(Left(S)) /\ <<>> \in Seq(Left(S))
    <3>1. ASSUME NEW x \in Left(S)
          PROVE  <<x>> \in Seq(Left(S))
      OBVIOUS
    <3>2. <<" ">> \in Seq(Left(S))
      BY <2>1, <3>1, Zenon
    <3>3. <<"literal">> \in Seq(Left(S))
      BY <2>1, <3>1, Zenon
    <3>4. <<text[i]>> \in Seq(Left(S))
      BY <2>1, <3>1, Zenon
    <3>5. <<>> \in Seq(Left(S))
      OBVIOUS
    <3> QED
      BY <3>2, <3>3, <3>4, <3>5
  <2>5. \A x, y \in Seq(Left(S)) : x \o y \in Seq(Left(S))
    OBVIOUS
  <2> QED
    BY <1>2, <2>2, <2>3, <2>4, <2>5 DEF BareStep
<1> QED
  BY <1>1, <1>2

\* The standard's reading is defined at every position, in every mode.
LEMMA BareFromIs ==
    ASSUME NEW S, NEW text \in Seq(S)
    PROVE  /\ BareFrom(text) \in [1 .. Len(text) + 2 -> [Modes -> Seq(Left(S))]]
           /\ \A i \in 1 .. Len(text) + 2, m \in Modes :
                BareFrom(text)[i][m] = BareStep(text, i, m, BareFrom(text))
<1> DEFINE n == Len(text) + 2
           P == 1 .. n
           V == [Modes -> Seq(Left(S))]
           F == [1 .. n -> V]
           Body(i, f) == [m \in Modes |-> BareStep(text, i, m, f)]
           step == [i \in 1 .. n |-> [f \in F |-> Body(i, f)]]
<1>1. Len(text) \in Nat /\ n \in Nat /\ [m \in Modes |-> <<>>] \in V
  OBVIOUS
<1>5. ASSUME NEW i \in P, NEW f, \A j \in P : i < j => f[j] \in V
      PROVE  Body(i, f) \in V
  BY <1>5, BareTyped
<1>6. ASSUME NEW i \in P, NEW f \in F, NEW g \in F, \A j \in P : i < j => f[j] = g[j]
      PROVE  Body(i, f) = Body(i, g)
  <2> SUFFICES ASSUME NEW m \in Modes
               PROVE  BareStep(text, i, m, f) = BareStep(text, i, m, g)
    OBVIOUS
  <2>1. CASE i > Len(text)
    BY <2>1 DEF BareStep
  <2>2. CASE i \in 1 .. Len(text)
    <3>1. f[i + 1] = g[i + 1] /\ f[i + 2] = g[i + 2]
      BY <1>6, <2>2
    <3> HIDE DEF F
    <3> QED
      BY <3>1 DEF BareStep
  <2> QED
    BY <2>1, <2>2
<1>7. \E f \in F : f = [i \in 1 .. n |-> Body(i, f)]
  <2> HIDE DEF Body
  <2>1. step \in [1 .. n -> [[1 .. n -> V] -> V]]
    BY <1>5
  <2>2. \A i \in 1 .. n, f \in F : step[i][f] = Body(i, f)
    OBVIOUS
  <2> HIDE DEF step, n
  <2>3. LooksAhead(step, n, V)
    <3> SUFFICES ASSUME NEW i \in P, NEW f \in F, NEW g \in F, \A j \in P : i < j => f[j] = g[j]
                 PROVE  step[i][f] = step[i][g]
      BY <2>1 DEF LooksAhead
    <3>1. Body(i, f) = Body(i, g)
      BY <1>6
    <3>2. step[i][f] = Body(i, f) /\ step[i][g] = Body(i, g)
      BY <2>2
    <3> QED
      BY <3>1, <3>2
  <2> HIDE DEF V
  <2>4. HasSolution(step, n, V)
    BY <1>1, <2>3, DefinedFromTheEnd
  <2> QED
    BY <2>2, <2>4 DEF HasSolution
<1>8. BareFrom(text) = CHOOSE f : f = [i \in 1 .. n |-> Body(i, f)]
  BY DEF BareFrom, BareStep
<1>9. BareFrom(text) \in F /\ BareFrom(text) = [i \in 1 .. n |-> Body(i, BareFrom(text))]
  <2> HIDE DEF Body, n, V
  <2>1. PICK f \in F : f = [i \in 1 .. n |-> Body(i, f)]
    BY <1>7
  <2>2. BareFrom(text) = [i \in 1 .. n |-> Body(i, BareFrom(text))]
    BY <2>1, <1>8
  <2> DEFINE Typed == {j \in 1 .. n : BareFrom(text)[j] \in V}
  <2>3. ASSUME NEW i \in 1 .. n, \A j \in 1 .. n : i < j => j \in Typed
        PROVE  i \in Typed
    BY <1>5, <2>2, <2>3
  <2>4. \A i \in 1 .. n : i \in Typed
    <3> HIDE DEF Typed
    <3> QED
      BY <1>1, <2>3, FromTheEnd
  <2> QED
    BY <2>2, <2>4
<1>10. \A i \in 1 .. n : BareFrom(text)[i] = Body(i, BareFrom(text))
  <2> HIDE DEF Body, n, V
  <2> QED
    BY <1>9
<1> QED
  BY <1>9, <1>10

-----------------------------------------------------------------------------
(* What a text says, read from its first symbols on. *)

\* A mutating keyword, something after a semicolon, a query to begin with.
Drops(t) == \E i \in DOMAIN t : IsWord(t, "drop", i)
Continues(t) == \E i, k \in DOMAIN t : t[i] = "semicolon" /\ i < k /\ t[k] \notin Space
Selects(t) == \E i \in DOMAIN t : IsWord(t, "select", i) /\ \A k \in 1 .. i - 1 : t[k] \in Space

\* The symbols of two texts, one after the other.
LEMMA Joined ==
    ASSUME NEW T, NEW x \in Seq(T), NEW y \in Seq(T)
    PROVE  /\ x \o y \in Seq(T)
           /\ Len(x \o y) = Len(x) + Len(y)
           /\ DOMAIN (x \o y) = 1 .. Len(x) + Len(y)
           /\ \A i \in 1 .. Len(x) : (x \o y)[i] = x[i]
           /\ \A j \in 1 .. Len(y) : (x \o y)[Len(x) + j] = y[j]
OBVIOUS

\* Symbols that begin no word hide none that comes after them.
LEMMA WordsPast ==
    ASSUME NEW T, NEW x \in Seq(T), NEW y \in Seq(T), NEW w \in WordStart,
           \A i \in 1 .. Len(x) : x[i] \notin WordStart
    PROVE  /\ \A i \in 1 .. Len(x) : ~IsWord(x \o y, w, i)
           /\ \A j \in 1 .. Len(y) : IsWord(x \o y, w, Len(x) + j) <=> IsWord(y, w, j)
<1> DEFINE z == x \o y
<1>1. Len(x) \in Nat /\ Len(y) \in Nat
  OBVIOUS
<1>2. /\ Len(z) = Len(x) + Len(y)
      /\ \A i \in 1 .. Len(x) : z[i] = x[i]
      /\ \A j \in 1 .. Len(y) : z[Len(x) + j] = y[j]
  BY Joined
<1> HIDE DEF z
<1>3. ASSUME NEW i \in 1 .. Len(x)
      PROVE  ~IsWord(z, w, i)
  BY <1>2 DEF IsWord
<1>4. ASSUME NEW j \in 1 .. Len(y)
      PROVE  IsWord(z, w, Len(x) + j) <=> IsWord(y, w, j)
  <2> DEFINE at == Len(x) + j
             Apart(t, b, i) ==
                \A k \in b .. i - 1 :
                    t[k] \in WordStart => \E l \in k .. i - 1 : t[l] \notin WordContinue
  <2>1. at \in Nat /\ z[at] = y[j] /\ (at < Len(z) <=> j < Len(y))
    BY <1>1, <1>2
  <2>2. j < Len(y) => z[at + 1] = y[j + 1]
    <3>1. j < Len(y) => j + 1 \in 1 .. Len(y) /\ at + 1 = Len(x) + (j + 1)
      BY <1>1
    <3> QED
      BY <1>2, <3>1
  <2>3. ASSUME Apart(y, 1, j)
        PROVE  Apart(z, 1, at)
    <3> SUFFICES ASSUME NEW k \in 1 .. at - 1, z[k] \in WordStart
                 PROVE  \E l \in k .. at - 1 : z[l] \notin WordContinue
      OBVIOUS
    <3>1. ~(k <= Len(x))
      BY <1>1, <1>2
    <3>2. k - Len(x) \in 1 .. j - 1 /\ k - Len(x) \in 1 .. Len(y) /\ k = Len(x) + (k - Len(x))
      BY <1>1, <3>1
    <3>3. y[k - Len(x)] \in WordStart
      BY <1>2, <3>2
    <3>4. PICK l \in k - Len(x) .. j - 1 : y[l] \notin WordContinue
      BY <2>3, <3>2, <3>3
    <3>5. l \in 1 .. Len(y) /\ Len(x) + l \in k .. at - 1
      BY <1>1, <3>2, <3>4
    <3>6. z[Len(x) + l] \notin WordContinue
      BY <1>2, <3>4, <3>5
    <3> QED
      BY <3>5, <3>6
  <2>4. ASSUME Apart(z, 1, at)
        PROVE  Apart(y, 1, j)
    <3> SUFFICES ASSUME NEW k \in 1 .. j - 1, y[k] \in WordStart
                 PROVE  \E l \in k .. j - 1 : y[l] \notin WordContinue
      OBVIOUS
    <3>1. k \in 1 .. Len(y) /\ Len(x) + k \in 1 .. at - 1
      BY <1>1
    <3>2. z[Len(x) + k] \in WordStart
      BY <1>2, <3>1
    <3>3. PICK l \in Len(x) + k .. at - 1 : z[l] \notin WordContinue
      BY <2>4, <3>1, <3>2
    <3>4. l - Len(x) \in k .. j - 1 /\ l - Len(x) \in 1 .. Len(y) /\ l = Len(x) + (l - Len(x))
      BY <1>1, <3>1, <3>3
    <3>5. y[l - Len(x)] \notin WordContinue
      BY <1>2, <3>3, <3>4
    <3> QED
      BY <3>4, <3>5
  <2>5. \A t, i : IsWord(t, w, i) <=>
            /\ t[i] = w
            /\ i < Len(t) => t[i + 1] \notin WordContinue
            /\ Apart(t, 1, i)
    BY DEF IsWord
  <2> HIDE DEF at, Apart
  <2>6. IsWord(z, w, at) <=> IsWord(y, w, j)
    BY <2>1, <2>2, <2>3, <2>4, <2>5
  <2> QED
    BY <2>6 DEF at
<1> QED
  BY <1>3, <1>4 DEF z

\* A whole word is that word and no other, and hides none that comes after it.
LEMMA WordsAfterAWord ==
    ASSUME NEW T, NEW x \in Seq(T), NEW y \in Seq(T), NEW w \in WordStart,
           x # <<>>, x[1] \in WordStart,
           \A i \in 1 .. Len(x) : x[i] \in WordContinue,
           y # <<>> => y[1] \notin WordContinue
    PROVE  /\ IsWord(x \o y, w, 1) <=> x = <<w>>
           /\ \A i \in 2 .. Len(x) : ~IsWord(x \o y, w, i)
           /\ \A j \in 1 .. Len(y) : IsWord(x \o y, w, Len(x) + j) <=> IsWord(y, w, j)
<1> DEFINE z == x \o y
<1>1. Len(x) \in Nat /\ Len(y) \in Nat /\ Len(x) >= 1
  OBVIOUS
<1>2. /\ Len(z) = Len(x) + Len(y)
      /\ \A i \in 1 .. Len(x) : z[i] = x[i]
      /\ \A j \in 1 .. Len(y) : z[Len(x) + j] = y[j]
  BY Joined
<1> HIDE DEF z
<1>3. Len(y) > 0 => y[1] \notin WordContinue /\ z[Len(x) + 1] \notin WordContinue
  <2>1. Len(y) > 0 => y # <<>>
    OBVIOUS
  <2>2. Len(y) > 0 => z[Len(x) + 1] = y[1]
    BY <1>1, <1>2
  <2> QED
    BY <2>1, <2>2
<1>4. IsWord(z, w, 1) <=> x = <<w>>
  <2>1. z[1] = x[1]
    BY <1>1, <1>2
  <2>2. ASSUME x = <<w>>
        PROVE  IsWord(z, w, 1)
    <3>1. Len(x) = 1 /\ x[1] = w
      BY <2>2
    <3> QED
      BY <1>1, <1>2, <1>3, <2>1, <3>1 DEF IsWord
  <2>3. ASSUME IsWord(z, w, 1)
        PROVE  x = <<w>>
    <3>1. z[1] = w /\ (1 < Len(z) => z[2] \notin WordContinue)
      BY <2>3 DEF IsWord
    <3>2. ~(Len(x) > 1)
      <4> SUFFICES ASSUME Len(x) > 1 PROVE FALSE
        OBVIOUS
      <4>1. 2 \in 1 .. Len(x) /\ 1 < Len(z)
        BY <1>1, <1>2
      <4> QED
        BY <1>2, <3>1, <4>1
    <3>3. Len(x) = 1
      <4>1. \A n \in Nat : n >= 1 /\ ~(n > 1) => n = 1
        OBVIOUS
      <4> QED
        BY <1>1, <3>2, <4>1, Zenon
    <3>4. x[1] = w
      BY <2>1, <3>1
    <3> QED
      BY <3>3, <3>4
  <2> QED
    BY <2>2, <2>3
<1>5. ASSUME NEW i \in 2 .. Len(x)
      PROVE  ~IsWord(z, w, i)
  <2>1. z[1] \in WordStart /\ 1 \in 1 .. i - 1
    BY <1>1, <1>2
  <2>2. \A l \in 1 .. i - 1 : z[l] \in WordContinue
    BY <1>1, <1>2
  <2> QED
    BY <2>1, <2>2 DEF IsWord
<1>6. ASSUME NEW j \in 1 .. Len(y)
      PROVE  IsWord(z, w, Len(x) + j) <=> IsWord(y, w, j)
  <2> DEFINE at == Len(x) + j
             Apart(t, b, i) ==
                \A k \in b .. i - 1 :
                    t[k] \in WordStart => \E l \in k .. i - 1 : t[l] \notin WordContinue
  <2>1. at \in Nat /\ z[at] = y[j] /\ (at < Len(z) <=> j < Len(y))
    BY <1>1, <1>2
  <2>2. j < Len(y) => z[at + 1] = y[j + 1]
    <3>1. j < Len(y) => j + 1 \in 1 .. Len(y) /\ at + 1 = Len(x) + (j + 1)
      BY <1>1
    <3> QED
      BY <1>2, <3>1
  <2>3. ASSUME Apart(y, 1, j), y[j] = w
        PROVE  Apart(z, 1, at)
    <3> SUFFICES ASSUME NEW k \in 1 .. at - 1, z[k] \in WordStart
                 PROVE  \E l \in k .. at - 1 : z[l] \notin WordContinue
      OBVIOUS
    <3>1. CASE k <= Len(x)
      <4>1. j # 1
        <5>1. w \in WordContinue
          BY DEF WordContinue
        <5> QED
          BY <1>1, <1>3, <2>3, <5>1
      <4>2. Len(x) + 1 \in k .. at - 1
        BY <1>1, <3>1, <4>1
      <4> QED
        BY <1>1, <1>3, <4>2
    <3>2. CASE ~(k <= Len(x))
      <4>1. k - Len(x) \in 1 .. j - 1 /\ k - Len(x) \in 1 .. Len(y) /\ k = Len(x) + (k - Len(x))
        BY <1>1, <3>2
      <4>2. y[k - Len(x)] \in WordStart
        BY <1>2, <4>1
      <4>3. PICK l \in k - Len(x) .. j - 1 : y[l] \notin WordContinue
        BY <2>3, <4>1, <4>2
      <4>4. l \in 1 .. Len(y) /\ Len(x) + l \in k .. at - 1
        BY <1>1, <4>1, <4>3
      <4>5. z[Len(x) + l] \notin WordContinue
        BY <1>2, <4>3, <4>4
      <4> QED
        BY <4>4, <4>5
    <3> QED
      BY <3>1, <3>2
  <2>4. ASSUME Apart(z, 1, at)
        PROVE  Apart(y, 1, j)
    <3> SUFFICES ASSUME NEW k \in 1 .. j - 1, y[k] \in WordStart
                 PROVE  \E l \in k .. j - 1 : y[l] \notin WordContinue
      OBVIOUS
    <3>1. k \in 1 .. Len(y) /\ Len(x) + k \in 1 .. at - 1
      BY <1>1
    <3>2. z[Len(x) + k] \in WordStart
      BY <1>2, <3>1
    <3>3. PICK l \in Len(x) + k .. at - 1 : z[l] \notin WordContinue
      BY <2>4, <3>1, <3>2
    <3>4. l - Len(x) \in k .. j - 1 /\ l - Len(x) \in 1 .. Len(y) /\ l = Len(x) + (l - Len(x))
      BY <1>1, <3>1, <3>3
    <3>5. y[l - Len(x)] \notin WordContinue
      BY <1>2, <3>3, <3>4
    <3> QED
      BY <3>4, <3>5
  <2>5. \A t, i : IsWord(t, w, i) <=>
            /\ t[i] = w
            /\ i < Len(t) => t[i + 1] \notin WordContinue
            /\ Apart(t, 1, i)
    BY DEF IsWord
  <2> HIDE DEF at, Apart
  <2>6. IsWord(z, w, at) <=> IsWord(y, w, j)
    BY <2>1, <2>2, <2>3, <2>4, <2>5
  <2> QED
    BY <2>6 DEF at
<1> QED
  BY <1>4, <1>5, <1>6 DEF z

\* What the verdict turns on.
Telling == WordStart \cup {"semicolon"}

\* What begins no word and ends no statement changes nothing of what comes after it.
LEMMA PlainFirst ==
    ASSUME NEW T, NEW x \in Seq(T), NEW y \in Seq(T),
           \A i \in 1 .. Len(x) : x[i] \notin Telling
    PROVE  /\ Drops(x \o y) <=> Drops(y)
           /\ Continues(x \o y) <=> Continues(y)
<1> DEFINE z == x \o y
<1>1. Len(x) \in Nat /\ Len(y) \in Nat /\ DOMAIN y = 1 .. Len(y) /\ "drop" \in WordStart
  BY DEF WordStart
<1>2. /\ DOMAIN z = 1 .. Len(x) + Len(y)
      /\ \A i \in 1 .. Len(x) : z[i] = x[i]
      /\ \A j \in 1 .. Len(y) : z[Len(x) + j] = y[j]
      /\ \A i \in 1 .. Len(x) : x[i] \notin WordStart /\ x[i] # "semicolon"
  BY Joined DEF Telling
<1>3. /\ \A i \in 1 .. Len(x) : ~IsWord(z, "drop", i)
      /\ \A j \in 1 .. Len(y) : IsWord(z, "drop", Len(x) + j) <=> IsWord(y, "drop", j)
  BY <1>1, <1>2, WordsPast
<1> HIDE DEF z
<1>4. \A i \in DOMAIN z : i \in 1 .. Len(x) \/ \E j \in 1 .. Len(y) : i = Len(x) + j
  <2> SUFFICES ASSUME NEW i \in DOMAIN z, ~(i \in 1 .. Len(x))
               PROVE  \E j \in 1 .. Len(y) : i = Len(x) + j
    OBVIOUS
  <2>1. i - Len(x) \in 1 .. Len(y) /\ i = Len(x) + (i - Len(x))
    BY <1>1, <1>2
  <2> QED
    BY <2>1
<1>5. \A j \in 1 .. Len(y) : Len(x) + j \in DOMAIN z
  BY <1>1, <1>2
<1>6. Drops(z) <=> Drops(y)
  BY <1>1, <1>3, <1>4, <1>5 DEF Drops
<1>7. ASSUME Continues(z)
      PROVE  Continues(y)
  <2>1. PICK i, k \in DOMAIN z : z[i] = "semicolon" /\ i < k /\ z[k] \notin Space
    BY <1>7 DEF Continues
  <2>2. ~(i \in 1 .. Len(x))
    BY <1>2, <2>1
  <2>3. PICK j \in 1 .. Len(y) : i = Len(x) + j
    BY <1>4, <2>2
  <2>4. ~(k \in 1 .. Len(x))
    BY <1>1, <2>1, <2>3
  <2>5. PICK l \in 1 .. Len(y) : k = Len(x) + l
    BY <1>4, <2>4
  <2>6. j < l /\ y[j] = "semicolon" /\ y[l] \notin Space
    BY <1>1, <1>2, <2>1, <2>3, <2>5
  <2> QED
    BY <1>1, <2>6 DEF Continues
<1>8. ASSUME Continues(y)
      PROVE  Continues(z)
  <2>1. PICK j, l \in 1 .. Len(y) : y[j] = "semicolon" /\ j < l /\ y[l] \notin Space
    BY <1>1, <1>8 DEF Continues
  <2>2. /\ z[Len(x) + j] = "semicolon" /\ z[Len(x) + l] \notin Space
        /\ Len(x) + j < Len(x) + l
    BY <1>1, <1>2, <2>1
  <2> QED
    BY <1>5, <2>2 DEF Continues
<1> QED
  BY <1>6, <1>7, <1>8 DEF z

\* Only a first word "drop" is one more.
LEMMA WordFirst ==
    ASSUME NEW T, NEW x \in Seq(T), NEW y \in Seq(T),
           x # <<>>, x[1] \in WordStart,
           \A i \in 1 .. Len(x) : x[i] \in WordContinue,
           y # <<>> => y[1] \notin WordContinue
    PROVE  /\ Drops(x \o y) <=> x = <<"drop">> \/ Drops(y)
           /\ Continues(x \o y) <=> Continues(y)
<1> DEFINE z == x \o y
<1>1. Len(x) \in Nat /\ Len(y) \in Nat /\ DOMAIN y = 1 .. Len(y) /\ "drop" \in WordStart /\ Len(x) >= 1
  BY DEF WordStart
<1>2. /\ DOMAIN z = 1 .. Len(x) + Len(y)
      /\ \A i \in 1 .. Len(x) : z[i] = x[i]
      /\ \A j \in 1 .. Len(y) : z[Len(x) + j] = y[j]
      /\ \A i \in 1 .. Len(x) : x[i] # "semicolon"
  <2>1. \A c \in WordContinue : c # "semicolon"
    BY DEF WordContinue, WordStart
  <2> QED
    BY <2>1, Joined
<1>3. /\ IsWord(z, "drop", 1) <=> x = <<"drop">>
      /\ \A i \in 2 .. Len(x) : ~IsWord(z, "drop", i)
      /\ \A j \in 1 .. Len(y) : IsWord(z, "drop", Len(x) + j) <=> IsWord(y, "drop", j)
  BY <1>1, WordsAfterAWord
<1> HIDE DEF z
<1>4. \A i \in DOMAIN z : i \in 1 .. Len(x) \/ \E j \in 1 .. Len(y) : i = Len(x) + j
  <2> SUFFICES ASSUME NEW i \in DOMAIN z, ~(i \in 1 .. Len(x))
               PROVE  \E j \in 1 .. Len(y) : i = Len(x) + j
    OBVIOUS
  <2>1. i - Len(x) \in 1 .. Len(y) /\ i = Len(x) + (i - Len(x))
    BY <1>1, <1>2
  <2> QED
    BY <2>1
<1>5. (\A j \in 1 .. Len(y) : Len(x) + j \in DOMAIN z) /\ 1 \in DOMAIN z
  BY <1>1, <1>2
<1>6. Drops(z) <=> x = <<"drop">> \/ Drops(y)
  <2>1. \A i \in 1 .. Len(x) : i = 1 \/ i \in 2 .. Len(x)
    BY <1>1
  <2> QED
    BY <1>1, <1>3, <1>4, <1>5, <2>1 DEF Drops
<1>7. ASSUME Continues(z)
      PROVE  Continues(y)
  <2>1. PICK i, k \in DOMAIN z : z[i] = "semicolon" /\ i < k /\ z[k] \notin Space
    BY <1>7 DEF Continues
  <2>2. ~(i \in 1 .. Len(x))
    BY <1>2, <2>1
  <2>3. PICK j \in 1 .. Len(y) : i = Len(x) + j
    BY <1>4, <2>2
  <2>4. ~(k \in 1 .. Len(x))
    BY <1>1, <2>1, <2>3
  <2>5. PICK l \in 1 .. Len(y) : k = Len(x) + l
    BY <1>4, <2>4
  <2>6. j < l /\ y[j] = "semicolon" /\ y[l] \notin Space
    BY <1>1, <1>2, <2>1, <2>3, <2>5
  <2> QED
    BY <1>1, <2>6 DEF Continues
<1>8. ASSUME Continues(y)
      PROVE  Continues(z)
  <2>1. PICK j, l \in 1 .. Len(y) : y[j] = "semicolon" /\ j < l /\ y[l] \notin Space
    BY <1>1, <1>8 DEF Continues
  <2>2. /\ z[Len(x) + j] = "semicolon" /\ z[Len(x) + l] \notin Space
        /\ Len(x) + j < Len(x) + l
    BY <1>1, <1>2, <2>1
  <2> QED
    BY <1>5, <2>2 DEF Continues
<1> QED
  BY <1>6, <1>7, <1>8 DEF z

\* A statement's end changes nothing for the words; something follows it, or nothing.
LEMMA EndFirst ==
    ASSUME NEW T, "semicolon" \in T, NEW y \in Seq(T)
    PROVE  /\ Drops(<<"semicolon">> \o y) <=> Drops(y)
           /\ Continues(<<"semicolon">> \o y) <=> \E j \in 1 .. Len(y) : y[j] \notin Space
<1> DEFINE x == <<"semicolon">>
           z == x \o y
<1>0. x \in Seq(T) /\ Len(x) = 1 /\ x[1] = "semicolon"
  OBVIOUS
<1> HIDE DEF x
<1>1. /\ Len(y) \in Nat /\ DOMAIN y = 1 .. Len(y) /\ "drop" \in WordStart
      /\ \A i \in 1 .. Len(x) : x[i] \notin WordStart
  BY <1>0 DEF WordStart
<1>2. /\ DOMAIN z = 1 .. 1 + Len(y)
      /\ z[1] = "semicolon"
      /\ \A j \in 1 .. Len(y) : z[1 + j] = y[j]
  BY <1>0, Joined
<1>3. /\ \A i \in 1 .. Len(x) : ~IsWord(z, "drop", i)
      /\ \A j \in 1 .. Len(y) : IsWord(z, "drop", Len(x) + j) <=> IsWord(y, "drop", j)
  BY <1>0, <1>1, WordsPast
<1> HIDE DEF z
<1>4. \A i \in DOMAIN z : i = 1 \/ \E j \in 1 .. Len(y) : i = 1 + j
  <2> SUFFICES ASSUME NEW i \in DOMAIN z, i # 1
               PROVE  \E j \in 1 .. Len(y) : i = 1 + j
    OBVIOUS
  <2>1. i - 1 \in 1 .. Len(y) /\ i = 1 + (i - 1)
    BY <1>1, <1>2
  <2> QED
    BY <2>1
<1>5. (\A j \in 1 .. Len(y) : 1 + j \in DOMAIN z) /\ 1 \in DOMAIN z
  BY <1>1, <1>2
<1>6. Drops(z) <=> Drops(y)
  <2>1. ~IsWord(z, "drop", 1) /\ \A j \in 1 .. Len(y) : IsWord(z, "drop", 1 + j) <=> IsWord(y, "drop", j)
    BY <1>0, <1>3
  <2> QED
    BY <1>1, <1>4, <1>5, <2>1 DEF Drops
<1>7. ASSUME Continues(z)
      PROVE  \E j \in 1 .. Len(y) : y[j] \notin Space
  <2>1. PICK i, k \in DOMAIN z : z[i] = "semicolon" /\ i < k /\ z[k] \notin Space
    BY <1>7 DEF Continues
  <2>2. k # 1
    BY <1>1, <1>2, <2>1
  <2>3. PICK j \in 1 .. Len(y) : k = 1 + j
    BY <1>4, <2>2
  <2> QED
    BY <1>2, <2>1, <2>3
<1>8. ASSUME NEW j \in 1 .. Len(y), y[j] \notin Space
      PROVE  Continues(z)
  <2>1. z[1] = "semicolon" /\ 1 < 1 + j /\ z[1 + j] \notin Space
    BY <1>1, <1>2, <1>8
  <2> QED
    BY <1>5, <2>1 DEF Continues
<1> QED
  BY <1>6, <1>7, <1>8 DEF z, x

-----------------------------------------------------------------------------
(* What is left of a text, read on from a position. *)

\* What the standard leaves of code, by the symbol that comes next.
LEMMA BareCases ==
    ASSUME NEW S, NEW text \in Seq(S), NEW i \in 1 .. Len(text)
    PROVE  LET B == BareFrom(text) IN
           /\ StartsWith(text, <<"/", "*">>, i) => B[i]["code"] = B[i + 2]["block"]
           /\ OpensComment(text, i) /\ ~StartsWith(text, <<"/", "*">>, i) =>
                B[i]["code"] = B[i + 2]["line"]
           /\ ~OpensComment(text, i) /\ text[i] \in DOMAIN Closer \cup {"quote"} =>
                B[i]["code"] = <<"literal">> \o B[i + 1][Closes(text[i])]
           /\ ~OpensComment(text, i) /\ text[i] \notin DOMAIN Closer \cup {"quote"} =>
                B[i]["code"] = <<text[i]>> \o B[i + 1]["code"]
           /\ B[i]["block"] = IF StartsWith(text, <<"*", "/">>, i) THEN <<" ">> \o B[i + 2]["code"]
                              ELSE B[i + 1]["block"]
           /\ B[i]["line"] = IF text[i] = "newline" THEN <<" ">> \o B[i + 1]["code"]
                             ELSE B[i + 1]["line"]
<1> DEFINE B == BareFrom(text)
<1>1. Len(text) \in Nat /\ i \in 1 .. Len(text) + 2 /\ i + 1 \in 1 .. Len(text) + 2 /\ ~(i > Len(text))
  OBVIOUS
<1>2. /\ B \in [1 .. Len(text) + 2 -> [Modes -> Seq(Left(S))]]
      /\ \A m \in Modes : B[i][m] = BareStep(text, i, m, B)
  BY <1>1, BareFromIs
<1>3. \A m \in Modes : <<>> \o B[i + 1][m] = B[i + 1][m]
  <2>1. \A m \in Modes : B[i + 1][m] \in Seq(Left(S))
    BY <1>1, <1>2
  <2>2. \A s \in Seq(Left(S)) : <<>> \o s = s
    OBVIOUS
  <2> QED
    BY <2>1, <2>2
<1>4. /\ "code" \in Modes /\ "block" \in Modes /\ "line" \in Modes
      /\ "code" \notin Literals /\ "block" \notin Literals /\ "line" \notin Literals
      /\ \A m \in Literals : m \in Modes /\ m # "code" /\ m # "block" /\ m # "line"
  BY DEF Modes, Literals
<1> HIDE DEF B
<1>5. /\ StartsWith(text, <<"/", "*">>, i) => B[i]["code"] = B[i + 2]["block"]
      /\ OpensComment(text, i) /\ ~StartsWith(text, <<"/", "*">>, i) => B[i]["code"] = B[i + 2]["line"]
      /\ ~OpensComment(text, i) /\ text[i] \in DOMAIN Closer \cup {"quote"} =>
            B[i]["code"] = <<"literal">> \o B[i + 1][Closes(text[i])]
      /\ ~OpensComment(text, i) /\ text[i] \notin DOMAIN Closer \cup {"quote"} =>
            B[i]["code"] = <<text[i]>> \o B[i + 1]["code"]
  <2>1. B[i]["code"] = BareStep(text, i, "code", B)
    BY <1>2, <1>4
  <2> DEFINE block == StartsWith(text, <<"/", "*">>, i)
             line == StartsWith(text, <<"-", "-">>, i)
             opens == text[i] \in DOMAIN Closer \cup {"quote"}
  <2>2. ~(block /\ line) /\ ~(block /\ opens) /\ ~(line /\ opens)
    BY DEF StartsWith, Closer
  <2>3. BareStep(text, i, "code", B) =
            IF block THEN B[i + 2]["block"]
            ELSE IF line THEN B[i + 2]["line"]
            ELSE IF opens THEN <<"literal">> \o B[i + 1][Closes(text[i])]
            ELSE <<text[i]>> \o B[i + 1]["code"]
    <3>1. CASE block
      BY <1>1, <1>4, <2>2, <3>1 DEF BareStep
    <3>2. CASE line
      BY <1>1, <1>4, <2>2, <3>2 DEF BareStep
    <3>3. CASE opens
      BY <1>1, <1>4, <2>2, <3>3 DEF BareStep
    <3>4. CASE ~block /\ ~line /\ ~opens
      <4>1. BareStep(text, i, "code", B) =
                (IF "code" = "code" THEN <<text[i]>> ELSE <<>>) \o B[i + 1]["code"]
        BY <1>1, <1>4, <3>4 DEF BareStep
      <4> QED
        BY <3>4, <4>1
    <3> QED
      BY <3>1, <3>2, <3>3, <3>4
  <2> QED
    BY <2>1, <2>2, <2>3 DEF OpensComment
<1>6. B[i]["block"] = IF StartsWith(text, <<"*", "/">>, i) THEN <<" ">> \o B[i + 2]["code"]
                      ELSE B[i + 1]["block"]
  <2>1. B[i]["block"] = BareStep(text, i, "block", B)
    BY <1>2, <1>4
  <2> QED
    BY <1>1, <1>3, <1>4, <2>1 DEF BareStep
<1>7. B[i]["line"] = IF text[i] = "newline" THEN <<" ">> \o B[i + 1]["code"] ELSE B[i + 1]["line"]
  <2>1. B[i]["line"] = BareStep(text, i, "line", B)
    BY <1>2, <1>4
  <2> QED
    BY <1>1, <1>3, <1>4, <2>1 DEF BareStep
<1> QED
  BY <1>5, <1>6, <1>7 DEF B

\* Inside a literal nothing is left, until it closes.
LEMMA BareLiteral ==
    ASSUME NEW S, NEW text \in Seq(S), NEW i \in 1 .. Len(text), NEW m \in Literals
    PROVE  BareFrom(text)[i][m] = IF text[i] = m THEN BareFrom(text)[i + 1]["code"]
                                  ELSE BareFrom(text)[i + 1][m]
<1> DEFINE B == BareFrom(text)
<1>1. Len(text) \in Nat /\ i \in 1 .. Len(text) + 2 /\ i + 1 \in 1 .. Len(text) + 2 /\ ~(i > Len(text))
  OBVIOUS
<1>2. m \in Modes /\ m # "code" /\ m # "block" /\ m # "line"
  BY DEF Modes, Literals
<1>3. B[i][m] = BareStep(text, i, m, B)
  BY <1>1, <1>2, BareFromIs
<1>4. <<>> \o B[i + 1][m] = B[i + 1][m]
  <2>1. B[i + 1][m] \in Seq(Left(S))
    BY <1>1, <1>2, BareFromIs
  <2>2. \A s \in Seq(Left(S)) : <<>> \o s = s
    OBVIOUS
  <2> QED
    BY <2>1, <2>2
<1> HIDE DEF B
<1>5. BareStep(text, i, m, B) = IF text[i] = m THEN B[i + 1]["code"] ELSE B[i + 1][m]
  BY <1>1, <1>2, <1>4 DEF BareStep
<1> QED
  BY <1>3, <1>5 DEF B

\* Of no more text nothing is left.
LEMMA BareAtTheEnd ==
    ASSUME NEW S, NEW text \in Seq(S), NEW m \in Modes
    PROVE  BareFrom(text)[Len(text) + 1][m] = <<>> /\ BareFrom(text)[Len(text) + 2][m] = <<>>
<1>1. Len(text) \in Nat /\ Len(text) + 1 \in 1 .. Len(text) + 2 /\ Len(text) + 2 \in 1 .. Len(text) + 2
  OBVIOUS
<1>2. /\ BareFrom(text)[Len(text) + 1][m] = BareStep(text, Len(text) + 1, m, BareFrom(text))
      /\ BareFrom(text)[Len(text) + 2][m] = BareStep(text, Len(text) + 2, m, BareFrom(text))
  BY <1>1, BareFromIs
<1>3. Len(text) + 1 > Len(text) /\ Len(text) + 2 > Len(text)
  BY <1>1
<1>4. \A i, f : i > Len(text) => BareStep(text, i, m, f) = <<>>
  BY DEF BareStep
<1> QED
  BY <1>2, <1>3, <1>4

\* What stays the same from each position to the next is the same at both ends.
LEMMA Carried ==
    ASSUME NEW k \in Nat, NEW a \in 1 .. k, NEW f,
           \A j \in a .. k : j < k => f[j] = f[j + 1]
    PROVE  f[a] = f[k]
<1> DEFINE Same == {j \in 1 .. k : a <= j => f[j] = f[k]}
<1>1. ASSUME NEW i \in 1 .. k, \A j \in 1 .. k : i < j => j \in Same
      PROVE  i \in Same
  <2>1. CASE a <= i /\ i < k
    <3>1. f[i] = f[i + 1] /\ i + 1 \in 1 .. k /\ i < i + 1 /\ a <= i + 1
      BY <2>1
    <3> QED
      BY <1>1, <3>1
  <2>2. CASE ~(a <= i)
    BY <2>2
  <2>3. CASE i = k
    BY <2>3
  <2> QED
    BY <2>1, <2>2, <2>3
<1>2. \A i \in 1 .. k : i \in Same
  <2> HIDE DEF Same
  <2> QED
    BY <1>1, FromTheEnd
<1> QED
  BY <1>2

\* A comment leaves a space, unless the text ends in it.
LEMMA CommentLeaves ==
    ASSUME NEW S, NEW text \in Seq(S), NEW i \in 1 .. Len(text), OpensComment(text, i)
    PROVE  LET B == BareFrom(text)
               past == skip_comment(text, i)
           IN  \/ B[i]["code"] = <<" ">> \o B[past]["code"]
               \/ B[i]["code"] = <<>> /\ B[past]["code"] = <<>>
<1> DEFINE B == BareFrom(text)
           past == skip_comment(text, i)
           n == Len(text) + 1
<1>1. Len(text) \in Nat /\ i < Len(text) /\ i + 2 \in 1 .. n
  BY DEF OpensComment, StartsWith
<1>2. /\ B[n]["code"] = <<>> /\ B[n]["block"] = <<>> /\ B[n]["line"] = <<>>
  BY BareAtTheEnd DEF Modes
<1>3. ASSUME NEW m \in Modes, NEW k \in i + 2 .. n,
             \A j \in i + 2 .. k : j < k => B[j][m] = B[j + 1][m]
      PROVE  B[i + 2][m] = B[k][m]
  <2> DEFINE f == [j \in 1 .. n |-> B[j][m]]
  <2>1. \A j \in i + 2 .. k : f[j] = B[j][m] /\ (j < k => f[j + 1] = B[j + 1][m])
    BY <1>1
  <2> HIDE DEF f, B
  <2>2. k \in Nat /\ i + 2 \in 1 .. k /\ i + 2 \in i + 2 .. k /\ k \in i + 2 .. k
    BY <1>1
  <2>3. f[i + 2] = f[k]
    BY <1>3, <2>1, <2>2, Carried
  <2> QED
    BY <2>1, <2>2, <2>3
<1>4. CASE text[i] = "/"
  <2> DEFINE stars == {k \in i + 2 .. Len(text) : StartsWith(text, <<"*", "/">>, k)}
             found == {j + 2 : j \in stars}
  <2>1. B[i]["code"] = B[i + 2]["block"]
    <3>1. StartsWith(text, <<"/", "*">>, i)
      BY <1>4 DEF OpensComment, StartsWith
    <3> QED
      BY <3>1, BareCases
  <2>2. past = FirstOf(text, found)
    BY <1>4 DEF skip_comment
  <2>3. /\ found = {} => past = n
        /\ found # {} => past \in found
        /\ \A k \in found : past <= k
    <3>1. found \in SUBSET (1 .. Len(text) + 1)
      BY <1>1 DEF StartsWith
    <3> HIDE DEF found, past
    <3> QED
      BY <2>2, <3>1, FirstOfIs
  <2>4. \A j \in i + 2 .. Len(text) : j \notin stars => B[j]["block"] = B[j + 1]["block"]
    <3> SUFFICES ASSUME NEW j \in i + 2 .. Len(text), j \notin stars
                 PROVE  B[j]["block"] = B[j + 1]["block"]
      OBVIOUS
    <3>1. j \in 1 .. Len(text) /\ ~StartsWith(text, <<"*", "/">>, j)
      BY <1>1
    <3> QED
      BY <3>1, BareCases
  <2>5. CASE stars = {}
    <3>1. past = n
      BY <2>3, <2>5
    <3>2. \A j \in i + 2 .. n : j < n => B[j]["block"] = B[j + 1]["block"]
      <4> HIDE DEF B, stars
      <4> QED
        BY <1>1, <2>4, <2>5
    <3>3. B[i + 2]["block"] = B[n]["block"]
      <4>1. n \in i + 2 .. n /\ "block" \in Modes
        BY <1>1 DEF Modes
      <4> HIDE DEF B, n
      <4> QED
        BY <1>3, <3>2, <4>1
    <3> QED
      BY <1>2, <2>1, <3>1, <3>3
  <2>6. CASE stars # {}
    <3>1. found # {}
      BY <2>6
    <3>2. PICK k \in stars : past = k + 2
      BY <2>3, <3>1
    <3>3. k \in 1 .. Len(text) /\ k \in i + 2 .. n /\ StartsWith(text, <<"*", "/">>, k)
      BY <1>1
    <3>4. \A j \in i + 2 .. k : j < k => B[j]["block"] = B[j + 1]["block"]
      <4>1. \A j \in stars : k + 2 <= j + 2
        BY <2>3, <3>2
      <4>2. \A j \in i + 2 .. k : j < k => j \notin stars /\ j \in i + 2 .. Len(text)
        BY <1>1, <3>3, <4>1
      <4> HIDE DEF B, stars
      <4> QED
        BY <2>4, <4>2
    <3>5. B[i + 2]["block"] = B[k]["block"]
      <4>1. "block" \in Modes
        BY DEF Modes
      <4> HIDE DEF B, n
      <4> QED
        BY <1>3, <3>3, <3>4, <4>1
    <3>6. B[k]["block"] = <<" ">> \o B[k + 2]["code"]
      BY <3>3, BareCases
    <3> QED
      BY <2>1, <3>2, <3>5, <3>6
  <2> QED
    BY <2>5, <2>6
<1>5. CASE text[i] # "/"
  <2> DEFINE lines == {k \in i + 2 .. Len(text) : text[k] = "newline"}
             found == {j + 1 : j \in lines}
  <2>1. B[i]["code"] = B[i + 2]["line"]
    <3>1. ~StartsWith(text, <<"/", "*">>, i)
      BY <1>5 DEF StartsWith
    <3> QED
      BY <3>1, BareCases
  <2>2. past = FirstOf(text, found)
    BY <1>5 DEF skip_comment
  <2>3. /\ found = {} => past = n
        /\ found # {} => past \in found
        /\ \A k \in found : past <= k
    <3>1. found \in SUBSET (1 .. Len(text) + 1)
      BY <1>1
    <3> HIDE DEF found, past
    <3> QED
      BY <2>2, <3>1, FirstOfIs
  <2>4. \A j \in i + 2 .. Len(text) : j \notin lines => B[j]["line"] = B[j + 1]["line"]
    <3> SUFFICES ASSUME NEW j \in i + 2 .. Len(text), j \notin lines
                 PROVE  B[j]["line"] = B[j + 1]["line"]
      OBVIOUS
    <3>1. j \in 1 .. Len(text) /\ text[j] # "newline"
      BY <1>1
    <3> QED
      BY <3>1, BareCases
  <2>5. CASE lines = {}
    <3>1. past = n
      BY <2>3, <2>5
    <3>2. \A j \in i + 2 .. n : j < n => B[j]["line"] = B[j + 1]["line"]
      <4> HIDE DEF B, lines
      <4> QED
        BY <1>1, <2>4, <2>5
    <3>3. B[i + 2]["line"] = B[n]["line"]
      <4>1. n \in i + 2 .. n /\ "line" \in Modes
        BY <1>1 DEF Modes
      <4> HIDE DEF B, n
      <4> QED
        BY <1>3, <3>2, <4>1
    <3> QED
      BY <1>2, <2>1, <3>1, <3>3
  <2>6. CASE lines # {}
    <3>1. found # {}
      BY <2>6
    <3>2. PICK k \in lines : past = k + 1
      BY <2>3, <3>1
    <3>3. k \in 1 .. Len(text) /\ k \in i + 2 .. n /\ text[k] = "newline"
      BY <1>1
    <3>4. \A j \in i + 2 .. k : j < k => B[j]["line"] = B[j + 1]["line"]
      <4>1. \A j \in lines : k + 1 <= j + 1
        BY <2>3, <3>2
      <4>2. \A j \in i + 2 .. k : j < k => j \notin lines /\ j \in i + 2 .. Len(text)
        BY <1>1, <3>3, <4>1
      <4> HIDE DEF B, lines
      <4> QED
        BY <2>4, <4>2
    <3>5. B[i + 2]["line"] = B[k]["line"]
      <4>1. "line" \in Modes
        BY DEF Modes
      <4> HIDE DEF B, n
      <4> QED
        BY <1>3, <3>3, <3>4, <4>1
    <3>6. B[k]["line"] = <<" ">> \o B[k + 1]["code"]
      BY <3>3, BareCases
    <3> QED
      BY <2>1, <3>2, <3>5, <3>6
  <2> QED
    BY <2>5, <2>6
<1> QED
  BY <1>4, <1>5

\* Three texts in a row, whichever two are taken first.
LEMMA Regrouped ==
    ASSUME NEW T, NEW x \in Seq(T), NEW y \in Seq(T), NEW z \in Seq(T)
    PROVE  x \o (y \o z) = (x \o y) \o z
OBVIOUS

\* A text over some symbols is one over more.
LEMMA SeqWider ==
    ASSUME NEW T, NEW U, T \subseteq U, NEW x \in Seq(T)
    PROVE  x \in Seq(U)
<1>1. Len(x) \in Nat /\ x \in [1 .. Len(x) -> T]
  OBVIOUS
<1>2. x \in [1 .. Len(x) -> U]
  BY <1>1
<1> QED
  BY <1>1, <1>2

\* A string, with the strings that touch it, leaves a literal for each.
LEMMA StringLeaves ==
    ASSUME NEW S, NEW text \in Seq(S)
    PROVE  \A i \in 1 .. Len(text) + 1 : \E w \in Seq({"literal"}) :
                BareFrom(text)[i]["quote"] = w \o BareFrom(text)[string_end(text)[i]]["code"]
<1> DEFINE B == BareFrom(text)
           n == Len(text) + 1
           end == string_end(text)
           Leaves == {i \in 1 .. n : \E w \in Seq({"literal"}) : B[i]["quote"] = w \o B[end[i]]["code"]}
<1>1. Len(text) \in Nat /\ n \in Nat /\ "quote" \in Modes /\ "code" \in Modes /\ "quote" \in Literals
  BY DEF Modes, Literals
<1>2. \A i \in 1 .. n : end[i] \in 1 .. n
  BY StringEnd
<1>3. \A i \in 1 .. n, m \in Modes : B[i][m] \in Seq(Left(S))
  BY <1>1, BareFromIs
<1>4. \A s \in Seq(Left(S)) : <<>> \o s = s
  OBVIOUS
<1>7. \A i \in 1 .. Len(text) :
        B[i]["quote"] = IF text[i] = "quote" THEN B[i + 1]["code"] ELSE B[i + 1]["quote"]
  BY <1>1, BareLiteral
<1>5. ASSUME NEW i \in 1 .. n, \A j \in 1 .. n : i < j => j \in Leaves
      PROVE  i \in Leaves
  <2>1. CASE i = n
    <3>1. B[n]["quote"] = <<>> /\ B[n]["code"] = <<>> /\ end[n] = n
      BY <1>1, BareAtTheEnd, StringEnd
    <3>2. <<>> \in Seq({"literal"}) /\ <<>> \o <<>> = <<>>
      OBVIOUS
    <3> HIDE DEF n, B, end
    <3> QED
      BY <2>1, <3>1, <3>2
  <2>2. CASE i < n /\ text[i] # "quote"
    <3>1. i \in 1 .. Len(text) /\ i + 1 \in 1 .. n /\ i < i + 1
      BY <1>1, <2>2
    <3>2. B[i]["quote"] = B[i + 1]["quote"]
      BY <1>7, <2>2, <3>1
    <3>3. end[i] = end[i + 1]
      BY <2>2, <3>1, StringEnd
    <3>4. i + 1 \in Leaves
      BY <1>5, <3>1
    <3> HIDE DEF n, B, end
    <3> QED
      BY <3>2, <3>3, <3>4
  <2>3. CASE i < n /\ text[i] = "quote" /\ StartsWith(text, <<"quote", "quote">>, i)
    <3>1. /\ i \in 1 .. Len(text) /\ i + 1 \in 1 .. Len(text) /\ i + 2 \in 1 .. n /\ i < i + 2
          /\ text[i + 1] = "quote"
      BY <1>1, <2>3 DEF StartsWith
    <3>2. B[i]["quote"] = B[i + 1]["code"]
      BY <1>7, <2>3, <3>1
    <3>3. B[i + 1]["code"] = <<"literal">> \o B[i + 2]["quote"]
      <4>1. ~OpensComment(text, i + 1)
        BY <3>1 DEF OpensComment, StartsWith
      <4>2. Closes(text[i + 1]) = "quote" /\ text[i + 1] \in DOMAIN Closer \cup {"quote"}
        BY <3>1 DEF Closes
      <4>3. B[i + 1]["code"] = <<"literal">> \o B[(i + 1) + 1][Closes(text[i + 1])]
        BY <3>1, <4>1, <4>2, BareCases
      <4>4. (i + 1) + 1 = i + 2
        OBVIOUS
      <4> QED
        BY <4>2, <4>3, <4>4
    <3>4. end[i] = end[i + 2]
      BY <2>3, <3>1, StringEnd
    <3>5. PICK w \in Seq({"literal"}) : B[i + 2]["quote"] = w \o B[end[i + 2]]["code"]
      BY <1>5, <3>1
    <3>6. <<"literal">> \o (w \o B[end[i + 2]]["code"]) = (<<"literal">> \o w) \o B[end[i + 2]]["code"]
      <4>1. B[end[i + 2]]["code"] \in Seq(Left(S))
        BY <1>1, <1>2, <1>3, <3>1
      <4>2. w \in Seq(Left(S)) /\ <<"literal">> \in Seq(Left(S))
        <5>1. {"literal"} \subseteq Left(S) /\ <<"literal">> \in Seq({"literal"})
          BY DEF Left
        <5> QED
          BY <5>1, SeqWider
      <4> DEFINE rest == B[end[i + 2]]["code"]
      <4>3. rest \in Seq(Left(S))
        BY <4>1
      <4> HIDE DEF rest
      <4>4. <<"literal">> \o (w \o rest) = (<<"literal">> \o w) \o rest
        BY <4>2, <4>3, Regrouped
      <4> QED
        BY <4>4 DEF rest
    <3>7. <<"literal">> \o w \in Seq({"literal"})
      OBVIOUS
    <3> HIDE DEF n, B, end
    <3> QED
      BY <3>2, <3>3, <3>4, <3>5, <3>6, <3>7
  <2>4. CASE i < n /\ text[i] = "quote" /\ ~StartsWith(text, <<"quote", "quote">>, i)
    <3>1. i \in 1 .. Len(text) /\ i + 1 \in 1 .. n
      BY <1>1, <2>4
    <3>2. B[i]["quote"] = B[i + 1]["code"]
      BY <1>7, <2>4, <3>1
    <3>3. end[i] = i + 1
      BY <2>4, <3>1, StringEnd
    <3>4. B[i + 1]["code"] = <<>> \o B[i + 1]["code"] /\ <<>> \in Seq({"literal"})
      BY <1>1, <1>3, <1>4, <3>1
    <3> HIDE DEF n, B, end
    <3> QED
      BY <3>2, <3>3, <3>4
  <2>5. i = n \/ i < n
    BY <1>1
  <2> HIDE DEF Leaves
  <2> QED
    BY <2>1, <2>2, <2>3, <2>4, <2>5
<1>6. \A i \in 1 .. n : i \in Leaves
  <2> HIDE DEF Leaves
  <2> QED
    BY <1>1, <1>5, FromTheEnd
<1> QED
  BY <1>6

\* A delimited identifier leaves nothing more.
LEMMA DelimitedLeaves ==
    ASSUME NEW S, NEW text \in Seq(S), NEW close \in Literals,
           \A i \in 1 .. Len(text) : text[i] # "escape"
    PROVE  \A i \in 1 .. Len(text) + 1 :
                BareFrom(text)[i][close] = BareFrom(text)[delimited_end(text, close)[i]]["code"]
<1> DEFINE B == BareFrom(text)
           n == Len(text) + 1
           end == delimited_end(text, close)
           Leaves == {i \in 1 .. n : B[i][close] = B[end[i]]["code"]}
<1>1. Len(text) \in Nat /\ n \in Nat /\ close \in Modes /\ "code" \in Modes
  BY DEF Modes
<1>2. \A i \in 1 .. Len(text) : B[i][close] = IF text[i] = close THEN B[i + 1]["code"] ELSE B[i + 1][close]
  BY BareLiteral
<1>3. \A i \in 1 .. Len(text) : end[i] = IF text[i] = close THEN i + 1 ELSE end[i + 1]
  BY <1>1, DelimitedEnd
<1>4. B[n][close] = <<>> /\ B[n]["code"] = <<>> /\ end[n] = n
  BY <1>1, BareAtTheEnd, DelimitedEnd
<1>5. ASSUME NEW i \in 1 .. n, \A j \in 1 .. n : i < j => j \in Leaves
      PROVE  i \in Leaves
  <2>1. CASE i = n
    <3> HIDE DEF n, B, end
    <3> QED
      BY <1>4, <2>1
  <2>2. CASE i \in 1 .. Len(text) /\ text[i] = close
    <3> HIDE DEF n, B, end
    <3> QED
      BY <1>2, <1>3, <2>2
  <2>3. CASE i \in 1 .. Len(text) /\ text[i] # close
    <3>1. i + 1 \in 1 .. n /\ i < i + 1
      BY <1>1, <2>3
    <3>2. i + 1 \in Leaves
      BY <1>5, <3>1
    <3> HIDE DEF n, B, end
    <3> QED
      BY <1>2, <1>3, <2>3, <3>2
  <2>4. i = n \/ i \in 1 .. Len(text)
    BY <1>1
  <2> HIDE DEF Leaves
  <2> QED
    BY <2>1, <2>2, <2>3, <2>4
<1>6. \A i \in 1 .. n : i \in Leaves
  <2> HIDE DEF Leaves
  <2> QED
    BY <1>1, <1>5, FromTheEnd
<1> QED
  BY <1>6

\* Where the noise before a token ends, none begins.
LEMMA NoNoise ==
    ASSUME NEW S, NEW text \in Seq(S)
    PROVE  \A i \in 1 .. Len(text) + 1 :
                LET at == skip_noise(text)[i]
                IN  at <= Len(text) => text[at] \notin Space /\ ~OpensComment(text, at)
<1> DEFINE n == Len(text) + 1
           skip == skip_noise(text)
           Quiet == {i \in 1 .. n : skip[i] <= Len(text) =>
                                    text[skip[i]] \notin Space /\ ~OpensComment(text, skip[i])}
<1>1. Len(text) \in Nat /\ n \in Nat
  OBVIOUS
<1>2. \A i \in 1 .. n : skip[i] = IF i > Len(text) THEN i
                                 ELSE IF text[i] \in Space THEN skip[i + 1]
                                 ELSE IF OpensComment(text, i) THEN skip[skip_comment(text, i)]
                                 ELSE i
  BY SkipNoise
<1> HIDE DEF skip
<1>3. ASSUME NEW i \in 1 .. n, \A j \in 1 .. n : i < j => j \in Quiet
      PROVE  i \in Quiet
  <2>1. CASE i > Len(text)
    <3>1. skip[i] = i
      BY <1>2, <2>1
    <3> QED
      BY <1>1, <2>1, <3>1
  <2>2. ASSUME NEW j \in 1 .. n, i < j, skip[i] = skip[j]
        PROVE  i \in Quiet
    BY <1>3, <2>2
  <2>3. CASE ~(i > Len(text)) /\ text[i] \in Space
    <3>1. i + 1 \in 1 .. n /\ i < i + 1 /\ skip[i] = skip[i + 1]
      BY <1>1, <1>2, <2>3
    <3> HIDE DEF Quiet
    <3> QED
      BY <2>2, <3>1
  <2>4. CASE ~(i > Len(text)) /\ text[i] \notin Space /\ OpensComment(text, i)
    <3>1. skip_comment(text, i) \in i + 2 .. n
      BY <1>1, <2>4, CommentsEnd DEF OpensComment, StartsWith
    <3>2. skip_comment(text, i) \in 1 .. n /\ i < skip_comment(text, i)
      BY <1>1, <3>1
    <3>3. skip[i] = skip[skip_comment(text, i)]
      BY <1>2, <2>4
    <3> HIDE DEF Quiet
    <3> QED
      BY <2>2, <3>2, <3>3
  <2>5. CASE ~(i > Len(text)) /\ text[i] \notin Space /\ ~OpensComment(text, i)
    <3>1. skip[i] = i
      BY <1>2, <2>5
    <3> QED
      BY <2>5, <3>1
  <2> HIDE DEF Quiet
  <2> QED
    BY <2>1, <2>3, <2>4, <2>5
<1>4. \A i \in 1 .. n : i \in Quiet
  <2> HIDE DEF Quiet
  <2> QED
    BY <1>1, <1>3, FromTheEnd
<1> QED
  BY <1>4 DEF skip

\* Noise leaves spaces.
LEMMA NoiseLeaves ==
    ASSUME NEW S, NEW text \in Seq(S)
    PROVE  \A i \in 1 .. Len(text) + 1 : \E w \in Seq(Space) :
                BareFrom(text)[i]["code"] = w \o BareFrom(text)[skip_noise(text)[i]]["code"]
<1> DEFINE B == BareFrom(text)
           n == Len(text) + 1
           T == Left(S) \cup Space
           skip == skip_noise(text)
           Leaves == {i \in 1 .. n : \E w \in Seq(Space) : B[i]["code"] = w \o B[skip[i]]["code"]}
<1>1. Len(text) \in Nat /\ n \in Nat
  OBVIOUS
<1>2. \A i \in 1 .. n : skip[i] = IF i > Len(text) THEN i
                                 ELSE IF text[i] \in Space THEN skip[i + 1]
                                 ELSE IF OpensComment(text, i) THEN skip[skip_comment(text, i)]
                                 ELSE i
  BY SkipNoise
<1>3. \A i \in 1 .. n : skip[i] \in 1 .. n
  BY SkipNoise
<1>4. \A i \in 1 .. n : B[i]["code"] \in Seq(T)
  <2>1. \A i \in 1 .. n : B[i]["code"] \in Seq(Left(S))
    BY <1>1, BareFromIs DEF Modes
  <2>2. Left(S) \subseteq T
    OBVIOUS
  <2> HIDE DEF B, T
  <2> QED
    BY <2>1, <2>2, SeqWider
<1>5. \A s \in Seq(T) : <<>> \o s = s
  OBVIOUS
<1>6. \A c \in Space, w \in Seq(Space), s \in Seq(T) :
        <<c>> \o w \in Seq(Space) /\ <<c>> \o (w \o s) = (<<c>> \o w) \o s
  <2> SUFFICES ASSUME NEW c \in Space, NEW w \in Seq(Space), NEW s \in Seq(T)
               PROVE  <<c>> \o w \in Seq(Space) /\ <<c>> \o (w \o s) = (<<c>> \o w) \o s
    OBVIOUS
  <2>1. <<c>> \in Seq(Space) /\ <<c>> \o w \in Seq(Space)
    OBVIOUS
  <2>2. Space \subseteq T
    OBVIOUS
  <2> HIDE DEF T
  <2>3. <<c>> \in Seq(T) /\ w \in Seq(T)
    BY <2>1, <2>2, SeqWider
  <2> QED
    BY <2>1, <2>3, Regrouped
<1>7. \A i \in 1 .. Len(text) : text[i] \in Space => B[i]["code"] = <<text[i]>> \o B[i + 1]["code"]
  <2> SUFFICES ASSUME NEW i \in 1 .. Len(text), text[i] \in Space
               PROVE  B[i]["code"] = <<text[i]>> \o B[i + 1]["code"]
    OBVIOUS
  <2>1. ~OpensComment(text, i) /\ text[i] \notin DOMAIN Closer \cup {"quote"}
    BY DEF OpensComment, StartsWith, Space, Closer
  <2> QED
    BY <2>1, BareCases
<1>8. \A i \in 1 .. Len(text) : OpensComment(text, i) =>
        \/ B[i]["code"] = <<" ">> \o B[skip_comment(text, i)]["code"]
        \/ B[i]["code"] = <<>> /\ B[skip_comment(text, i)]["code"] = <<>>
  BY CommentLeaves
<1> HIDE DEF skip, B, T
<1>9. ASSUME NEW i \in 1 .. n, \A j \in 1 .. n : i < j => j \in Leaves
      PROVE  i \in Leaves
  <2>1. CASE skip[i] = i
    <3>1. B[i]["code"] = <<>> \o B[skip[i]]["code"] /\ <<>> \in Seq(Space)
      BY <1>4, <1>5, <2>1
    <3> QED
      BY <3>1
  <2>2. ASSUME NEW j \in 1 .. n, i < j, skip[i] = skip[j], NEW c \in Space,
               B[i]["code"] = <<c>> \o B[j]["code"]
        PROVE  i \in Leaves
    <3>1. PICK w \in Seq(Space) : B[j]["code"] = w \o B[skip[j]]["code"]
      BY <1>9, <2>2
    <3>2. B[skip[j]]["code"] \in Seq(T)
      BY <1>3, <1>4
    <3>3. <<c>> \o w \in Seq(Space) /\ B[i]["code"] = (<<c>> \o w) \o B[skip[i]]["code"]
      BY <1>6, <2>2, <3>1, <3>2
    <3> QED
      BY <3>3
  <2>3. CASE ~(i > Len(text)) /\ text[i] \in Space
    <3>1. i \in 1 .. Len(text) /\ i + 1 \in 1 .. n /\ i < i + 1 /\ skip[i] = skip[i + 1]
      BY <1>1, <1>2, <2>3
    <3>2. B[i]["code"] = <<text[i]>> \o B[i + 1]["code"]
      BY <1>7, <2>3, <3>1
    <3> HIDE DEF Leaves
    <3> QED
      BY <2>2, <2>3, <3>1, <3>2
  <2>4. CASE ~(i > Len(text)) /\ text[i] \notin Space /\ OpensComment(text, i)
    <3> DEFINE j == skip_comment(text, i)
    <3>1. j \in i + 2 .. n /\ i \in 1 .. Len(text)
      BY <1>1, <2>4, CommentsEnd DEF OpensComment, StartsWith
    <3>2. j \in 1 .. n /\ i < j
      <4> HIDE DEF j
      <4> QED
        BY <1>1, <3>1
    <3>3. skip[i] = skip[j]
      BY <1>2, <2>4
    <3>4. B[i]["code"] = <<" ">> \o B[j]["code"] \/ (B[i]["code"] = <<>> /\ B[j]["code"] = <<>>)
      BY <1>8, <2>4, <3>1
    <3> HIDE DEF j
    <3>5. CASE B[i]["code"] = <<" ">> \o B[j]["code"]
      <4>1. " " \in Space
        BY DEF Space
      <4> HIDE DEF Leaves
      <4> QED
        BY <2>2, <3>2, <3>3, <3>5, <4>1
    <3>6. CASE B[i]["code"] = <<>> /\ B[j]["code"] = <<>>
      <4>1. PICK w \in Seq(Space) : B[j]["code"] = w \o B[skip[j]]["code"]
        BY <1>9, <3>2
      <4> QED
        BY <3>3, <3>6, <4>1
    <3> QED
      BY <3>4, <3>5, <3>6
  <2>5. CASE i > Len(text) \/ (text[i] \notin Space /\ ~OpensComment(text, i))
    <3>1. skip[i] = i
      BY <1>2, <2>5
    <3> QED
      BY <2>1, <3>1
  <2> HIDE DEF Leaves
  <2> QED
    BY <2>3, <2>4, <2>5
<1>10. \A i \in 1 .. n : i \in Leaves
  <2> HIDE DEF Leaves
  <2> QED
    BY <1>1, <1>9, FromTheEnd
<1> QED
  BY <1>10 DEF B, skip

\* A word leaves itself.
LEMMA WordLeaves ==
    ASSUME NEW S, NEW text \in Seq(S), NEW at \in 1 .. Len(text), text[at] \in WordStart
    PROVE  /\ BareFrom(text)[at]["code"] =
                    Word(text, at) \o BareFrom(text)[word_end(text, at)]["code"]
           /\ Word(text, at) \in Seq(S)
           /\ Word(text, at) # <<>>
           /\ Word(text, at)[1] \in WordStart
           /\ \A i \in 1 .. Len(Word(text, at)) : Word(text, at)[i] \in WordContinue
<1> DEFINE B == BareFrom(text)
           end == word_end(text, at)
           f == [j \in 1 .. end |-> SubSeq(text, at, j - 1) \o B[j]["code"]]
<1>1. /\ Len(text) \in Nat /\ end \in at + 1 .. Len(text) + 1
      /\ \A j \in at .. end - 1 : text[j] \in WordContinue
  BY WordEnd
<1>2. \A j \in 1 .. Len(text) + 1 : B[j]["code"] \in Seq(Left(S))
  BY <1>1, BareFromIs DEF Modes
<1>3. ASSUME NEW j \in at .. end - 1
      PROVE  B[j]["code"] = <<text[j]>> \o B[j + 1]["code"]
  <2>1. j \in 1 .. Len(text) /\ text[j] \in WordContinue
    BY <1>1
  <2>2. ~OpensComment(text, j) /\ text[j] \notin DOMAIN Closer \cup {"quote"}
    BY <2>1 DEF OpensComment, StartsWith, WordContinue, WordStart, Closer
  <2> QED
    BY <2>1, <2>2, BareCases
<1> HIDE DEF B, end
<1>4. ASSUME NEW j \in at .. end - 1
      PROVE  f[j] = f[j + 1]
  <2>1. /\ j \in 1 .. end /\ j + 1 \in 1 .. end /\ j + 1 \in 1 .. Len(text) + 1 /\ (j + 1) - 1 = j
        /\ j \in 1 .. Len(text)
    BY <1>1
  <2> DEFINE before == SubSeq(text, at, j - 1)
             rest == B[j + 1]["code"]
  <2>2. f[j] = before \o (<<text[j]>> \o rest)
    BY <1>3, <2>1
  <2>3. f[j + 1] = SubSeq(text, at, j) \o rest
    BY <2>1
  <2>4. SubSeq(text, at, j) = before \o <<text[j]>>
    BY <1>1, <2>1
  <2>5. before \in Seq(S) /\ <<text[j]>> \in Seq(S) /\ rest \in Seq(Left(S)) /\ S \subseteq Left(S)
    <3>1. before \in Seq(S)
      BY <1>1, <2>1
    <3>2. <<text[j]>> \in Seq(S)
      BY <2>1
    <3>3. rest \in Seq(Left(S))
      BY <1>2, <2>1
    <3> QED
      BY <3>1, <3>2, <3>3 DEF Left
  <2> DEFINE one == <<text[j]>>
  <2> HIDE DEF before, rest, f, one
  <2>6. before \in Seq(Left(S)) /\ one \in Seq(Left(S))
    BY <2>5, SeqWider DEF one
  <2>7. before \o (one \o rest) = (before \o one) \o rest
    BY <2>5, <2>6, Regrouped
  <2> QED
    BY <2>2, <2>3, <2>4, <2>7 DEF one
<1>5. f[at] = f[end]
  <2>1. end \in Nat /\ at \in 1 .. end /\ \A j \in at .. end : j < end => j \in at .. end - 1
    BY <1>1
  <2> HIDE DEF f
  <2> QED
    BY <1>4, <2>1, Carried
<1>6. f[at] = B[at]["code"]
  <2>1. at \in 1 .. end /\ SubSeq(text, at, at - 1) = <<>> /\ at \in 1 .. Len(text) + 1
    BY <1>1
  <2>2. f[at] = SubSeq(text, at, at - 1) \o B[at]["code"]
    BY <2>1
  <2>3. \A s \in Seq(Left(S)) : <<>> \o s = s
    OBVIOUS
  <2> HIDE DEF f
  <2> QED
    BY <1>2, <2>1, <2>2, <2>3
<1>7. f[end] = Word(text, at) \o B[end]["code"]
  <2>1. end \in 1 .. end
    BY <1>1
  <2> QED
    BY <2>1 DEF Word, end
<1>8. /\ Word(text, at) \in Seq(S)
      /\ Word(text, at) # <<>>
      /\ Word(text, at)[1] \in WordStart
      /\ \A i \in 1 .. Len(Word(text, at)) : Word(text, at)[i] \in WordContinue
  <2> DEFINE w == Word(text, at)
  <2>1. w = SubSeq(text, at, end - 1)
    BY DEF Word, end
  <2>2. w \in Seq(S) /\ Len(w) = end - at /\ \A i \in 1 .. end - at : w[i] = text[at + i - 1]
    BY <1>1, <2>1
  <2> HIDE DEF w
  <2>3. 1 \in 1 .. end - at /\ at + 1 - 1 = at
    BY <1>1
  <2>4. w # <<>> /\ w[1] \in WordStart
    <3>1. w[1] = text[at]
      BY <2>2, <2>3
    <3>2. Len(w) # 0
      BY <1>1, <2>2
    <3> QED
      BY <3>1, <3>2
  <2>5. \A i \in 1 .. end - at : w[i] \in WordContinue
    <3> SUFFICES ASSUME NEW i \in 1 .. end - at
                 PROVE  w[i] \in WordContinue
      OBVIOUS
    <3>1. at + i - 1 \in at .. end - 1
      BY <1>1
    <3> QED
      BY <1>1, <2>2, <3>1
  <2> QED
    BY <2>2, <2>4, <2>5 DEF w
<1> QED
  <2> HIDE DEF f
  <2> QED
    BY <1>5, <1>6, <1>7, <1>8 DEF B, end

\* After what is no part of a word, no word goes on.
LEMMA StartsApart ==
    ASSUME NEW S, NEW text \in Seq(S), NEW i \in 1 .. Len(text) + 1,
           i <= Len(text) => text[i] \notin WordContinue
    PROVE  LET rest == BareFrom(text)[i]["code"]
           IN  rest # <<>> => rest[1] \notin WordContinue
<1> DEFINE B == BareFrom(text)
           rest == B[i]["code"]
<1> SUFFICES rest # <<>> => rest[1] \notin WordContinue
  OBVIOUS
<1>1. Len(text) \in Nat
  OBVIOUS
<1>2. ASSUME NEW c, c \notin WordContinue, NEW s \in Seq(Left(S)), rest = <<c>> \o s
      PROVE  rest[1] \notin WordContinue
  <2>1. (<<c>> \o s)[1] = c
    OBVIOUS
  <2> HIDE DEF rest
  <2> QED
    BY <1>2, <2>1
<1>3. \A j \in 1 .. Len(text) + 2, m \in Modes : B[j][m] \in Seq(Left(S))
  BY <1>1, BareFromIs
<1>4. " " \notin WordContinue /\ "literal" \notin WordContinue
  BY DEF WordContinue, WordStart
<1>5. CASE i > Len(text)
  <2>1. i = Len(text) + 1
    BY <1>1, <1>5
  <2>2. rest = <<>>
    BY <2>1, BareAtTheEnd DEF Modes
  <2> QED
    BY <2>2
<1>6. CASE i \in 1 .. Len(text) /\ OpensComment(text, i)
  <2>1. skip_comment(text, i) \in i + 2 .. Len(text) + 1
    BY <1>6, CommentsEnd DEF OpensComment, StartsWith
  <2>2. B[skip_comment(text, i)]["code"] \in Seq(Left(S))
    BY <1>1, <1>3, <2>1 DEF Modes
  <2>3. rest = <<>> \/ rest = <<" ">> \o B[skip_comment(text, i)]["code"]
    BY <1>6, CommentLeaves
  <2> HIDE DEF B, rest
  <2> QED
    BY <1>2, <1>4, <2>2, <2>3
<1>7. CASE i \in 1 .. Len(text) /\ ~OpensComment(text, i) /\ text[i] \in DOMAIN Closer \cup {"quote"}
  <2>1. rest = <<"literal">> \o B[i + 1][Closes(text[i])]
    BY <1>7, BareCases
  <2>2. B[i + 1][Closes(text[i])] \in Seq(Left(S))
    <3>1. Closes(text[i]) \in Modes
      BY <1>7, ClosesIs DEF Modes
    <3> QED
      BY <1>1, <1>3, <1>7, <3>1
  <2> HIDE DEF B, rest
  <2> QED
    BY <1>2, <1>4, <2>1, <2>2
<1>8. CASE i \in 1 .. Len(text) /\ ~OpensComment(text, i) /\ text[i] \notin DOMAIN Closer \cup {"quote"}
  <2>1. rest = <<text[i]>> \o B[i + 1]["code"]
    BY <1>8, BareCases
  <2>2. B[i + 1]["code"] \in Seq(Left(S)) /\ text[i] \notin WordContinue
    BY <1>1, <1>3, <1>8 DEF Modes
  <2> HIDE DEF B, rest
  <2> QED
    BY <1>2, <2>1, <2>2
<1> QED
  BY <1>1, <1>5, <1>6, <1>7, <1>8

\* What a token at `at` leaves, and what is read on from the next.
Token(S, text, at, x) ==
    LET rest == BareFrom(text)[next_token(text, at)]["code"] IN
    /\ x \in Seq(Left(S)) /\ x # <<>>
    /\ BareFrom(text)[at]["code"] = x \o rest
    /\ \/ /\ text[at] \in WordStart
          /\ x = Word(text, at) /\ x[1] \in WordStart
          /\ \A i \in 1 .. Len(x) : x[i] \in WordContinue
          /\ rest # <<>> => rest[1] \notin WordContinue
       \/ text[at] = "semicolon" /\ x = <<"semicolon">> /\ next_token(text, at) = at + 1
       \/ text[at] \notin Telling /\ \A i \in 1 .. Len(x) : x[i] \notin Telling \cup Space

\* Every token leaves something of the kinds Token names.
LEMMA TokenLeaves ==
    ASSUME NEW S, NEW text \in Seq(S), PlainNames(text), NEW at \in 1 .. Len(text),
           text[at] \notin Space, ~OpensComment(text, at)
    PROVE  \E x : Token(S, text, at, x)
<1> DEFINE B == BareFrom(text)
           next == next_token(text, at)
<1>1. Len(text) \in Nat /\ at + 1 \in 1 .. Len(text) + 1 /\ "code" \in Modes
  BY DEF Modes
<1>2. \A j \in 1 .. Len(text) + 1 : B[j]["code"] \in Seq(Left(S))
  BY <1>1, BareFromIs
<1>3. S \subseteq Left(S) /\ {"literal"} \subseteq Left(S)
  BY DEF Left
<1>4. "literal" \notin Telling \cup Space
  BY DEF Telling, WordStart, Space
<1>5. CASE text[at] = "quote"
  <2>1. next = string_end(text)[at + 1]
    BY <1>5 DEF next_token, skip_single_quoted_string, Closer, WordStart
  <2>2. B[at]["code"] = <<"literal">> \o B[at + 1]["quote"]
    <3>1. Closes(text[at]) = "quote" /\ text[at] \in DOMAIN Closer \cup {"quote"}
      BY <1>5 DEF Closes
    <3>2. B[at]["code"] = <<"literal">> \o B[at + 1][Closes(text[at])]
      BY <3>1, BareCases
    <3> QED
      BY <3>1, <3>2
  <2>3. PICK w \in Seq({"literal"}) : B[at + 1]["quote"] = w \o B[next]["code"]
    BY <1>1, <2>1, StringLeaves
  <2> DEFINE one == <<"literal">>
             x == one \o w
             rest == B[next]["code"]
  <2>4. one \in Seq({"literal"}) /\ x \in Seq({"literal"}) /\ x # <<>>
    OBVIOUS
  <2>5. rest \in Seq(Left(S))
    BY <1>2, NextToken
  <2>6. B[at]["code"] = x \o rest
    <3> HIDE DEF one, rest, B
    <3>1. one \in Seq(Left(S)) /\ w \in Seq(Left(S))
      BY <1>3, <2>4, SeqWider
    <3>2. one \o (w \o rest) = (one \o w) \o rest
      BY <2>5, <3>1, Regrouped
    <3> QED
      BY <2>2, <2>3, <3>2 DEF one, rest
  <2>7. x \in Seq(Left(S)) /\ \A i \in 1 .. Len(x) : x[i] \notin Telling \cup Space
    <3> HIDE DEF x
    <3>1. x \in Seq(Left(S))
      BY <1>3, <2>4, SeqWider
    <3>2. \A i \in 1 .. Len(x) : x[i] = "literal"
      BY <2>4
    <3> QED
      BY <1>4, <3>1, <3>2
  <2>8. text[at] \notin Telling
    BY <1>5 DEF Telling, WordStart
  <2> HIDE DEF x
  <2> QED
    BY <2>4, <2>6, <2>7, <2>8 DEF Token
<1>6. CASE text[at] # "quote" /\ text[at] \in DOMAIN Closer
  <2> DEFINE close == Closer[text[at]]
             x == <<"literal">>
  <2>1. next = delimited_end(text, close)[at + 1]
    BY <1>6 DEF next_token, skip_delimited, Closer, WordStart
  <2>2. Closes(text[at]) = close /\ close \in Literals
    BY <1>6, ClosesIs DEF Closes
  <2>3. B[at]["code"] = x \o B[at + 1][close]
    <3>1. text[at] \in DOMAIN Closer \cup {"quote"}
      BY <1>6
    <3>2. B[at]["code"] = <<"literal">> \o B[at + 1][Closes(text[at])]
      BY <3>1, BareCases
    <3> QED
      BY <2>2, <3>2
  <2>4. \A i \in 1 .. Len(text) : text[i] # "escape"
    <3>1. DOMAIN text = 1 .. Len(text)
      OBVIOUS
    <3> QED
      BY <1>6, <3>1 DEF PlainNames
  <2>5. B[at + 1][close] = B[next]["code"]
    <3> HIDE DEF close
    <3> QED
      BY <1>1, <2>1, <2>2, <2>4, DelimitedLeaves
  <2>6. x \in Seq(Left(S)) /\ x # <<>> /\ \A i \in 1 .. Len(x) : x[i] \notin Telling \cup Space
    <3>1. x \in Seq({"literal"}) /\ Len(x) = 1 /\ x[1] = "literal" /\ x # <<>>
      OBVIOUS
    <3> HIDE DEF x
    <3>2. x \in Seq(Left(S))
      BY <1>3, <3>1, SeqWider
    <3> QED
      BY <1>4, <3>1, <3>2
  <2>7. text[at] \notin Telling
    BY <1>6 DEF Telling, WordStart, Closer
  <2> HIDE DEF x
  <2> QED
    BY <2>3, <2>5, <2>6, <2>7 DEF Token
<1>7. CASE text[at] \in WordStart
  <2> DEFINE x == Word(text, at)
  <2>1. next = word_end(text, at)
    BY <1>7 DEF next_token, Closer, WordStart
  <2>2. /\ B[at]["code"] = x \o B[next]["code"]
        /\ x \in Seq(S) /\ x # <<>> /\ x[1] \in WordStart
        /\ \A i \in 1 .. Len(x) : x[i] \in WordContinue
    BY <1>7, <2>1, WordLeaves
  <2>3. x \in Seq(Left(S))
    BY <1>3, <2>2, SeqWider
  <2>4. B[next]["code"] # <<>> => B[next]["code"][1] \notin WordContinue
    <3>1. next \in 1 .. Len(text) + 1 /\ (next <= Len(text) => text[next] \notin WordContinue)
      BY <1>1, <1>7, <2>1, WordEnd
    <3> HIDE DEF next
    <3> QED
      BY <3>1, StartsApart
  <2> QED
    BY <1>7, <2>2, <2>3, <2>4 DEF Token
<1>8. CASE text[at] \notin DOMAIN Closer \cup {"quote"} /\ text[at] \notin WordStart
  <2> DEFINE x == <<text[at]>>
  <2>1. next = at + 1
    BY <1>8 DEF next_token
  <2>2. B[at]["code"] = x \o B[next]["code"]
    <3>1. B[at]["code"] = <<text[at]>> \o B[at + 1]["code"]
      BY <1>8, BareCases
    <3> QED
      BY <2>1, <3>1
  <2>3. x \in Seq(S) /\ x # <<>> /\ Len(x) = 1 /\ x[1] = text[at]
    OBVIOUS
  <2>4. x \in Seq(Left(S))
    <3> HIDE DEF x
    <3> QED
      BY <1>3, <2>3, SeqWider
  <2>5. text[at] # "semicolon" =>
            text[at] \notin Telling /\ \A i \in 1 .. Len(x) : x[i] \notin Telling \cup Space
    <3>1. text[at] # "semicolon" => text[at] \notin Telling
      BY <1>8 DEF Telling
    <3> HIDE DEF x
    <3> QED
      BY <2>3, <3>1
  <2>6. text[at] = "semicolon" => x = <<"semicolon">>
    OBVIOUS
  <2> HIDE DEF x
  <2> QED
    BY <2>1, <2>2, <2>3, <2>4, <2>5, <2>6 DEF Token
<1> QED
  BY <1>5, <1>6, <1>7, <1>8

-----------------------------------------------------------------------------
(* The first word. *)

\* Space before a text changes nothing of whether it begins as a query.
LEMMA SpaceFirst ==
    ASSUME NEW T, NEW x \in Seq(T), NEW y \in Seq(T), \A i \in 1 .. Len(x) : x[i] \in Space
    PROVE  Selects(x \o y) <=> Selects(y)
<1> DEFINE z == x \o y
<1>1. Len(x) \in Nat /\ Len(y) \in Nat /\ DOMAIN y = 1 .. Len(y) /\ "select" \in WordStart
  BY DEF WordStart
<1>2. /\ DOMAIN z = 1 .. Len(x) + Len(y)
      /\ \A i \in 1 .. Len(x) : z[i] = x[i]
      /\ \A j \in 1 .. Len(y) : z[Len(x) + j] = y[j]
  BY Joined
<1>3. /\ \A i \in 1 .. Len(x) : ~IsWord(z, "select", i)
      /\ \A j \in 1 .. Len(y) : IsWord(z, "select", Len(x) + j) <=> IsWord(y, "select", j)
  <2>1. \A c \in Space : c \notin WordStart
    BY DEF Space, WordStart
  <2> QED
    BY <1>1, <2>1, WordsPast
<1> HIDE DEF z
<1>4. ASSUME Selects(z)
      PROVE  Selects(y)
  <2>1. PICK i \in DOMAIN z : IsWord(z, "select", i) /\ \A k \in 1 .. i - 1 : z[k] \in Space
    BY <1>4 DEF Selects
  <2>2. ~(i \in 1 .. Len(x))
    BY <1>3, <2>1
  <2> DEFINE j == i - Len(x)
  <2>3. j \in 1 .. Len(y) /\ i = Len(x) + j
    BY <1>1, <1>2, <2>2
  <2> HIDE DEF j
  <2>4. \A k \in 1 .. j - 1 : y[k] \in Space
    <3> SUFFICES ASSUME NEW k \in 1 .. j - 1
                 PROVE  y[k] \in Space
      OBVIOUS
    <3>1. k \in 1 .. Len(y) /\ Len(x) + k \in 1 .. i - 1
      BY <1>1, <2>3
    <3> QED
      BY <1>2, <2>1, <3>1
  <2> QED
    BY <1>1, <1>3, <2>1, <2>3, <2>4 DEF Selects
<1>5. ASSUME Selects(y)
      PROVE  Selects(z)
  <2>1. PICK j \in 1 .. Len(y) : IsWord(y, "select", j) /\ \A k \in 1 .. j - 1 : y[k] \in Space
    BY <1>1, <1>5 DEF Selects
  <2> DEFINE i == Len(x) + j
  <2>2. i \in DOMAIN z /\ IsWord(z, "select", i)
    BY <1>1, <1>2, <1>3, <2>1
  <2>3. \A k \in 1 .. i - 1 : z[k] \in Space
    <3> SUFFICES ASSUME NEW k \in 1 .. i - 1
                 PROVE  z[k] \in Space
      OBVIOUS
    <3>1. CASE k <= Len(x)
      BY <1>1, <1>2, <3>1
    <3>2. CASE ~(k <= Len(x))
      <4> DEFINE l == k - Len(x)
      <4>1. l \in 1 .. j - 1 /\ l \in 1 .. Len(y) /\ k = Len(x) + l
        BY <1>1, <3>2
      <4> HIDE DEF l
      <4> QED
        BY <1>2, <2>1, <4>1
    <3> QED
      BY <3>1, <3>2
  <2> HIDE DEF i
  <2> QED
    BY <2>2, <2>3 DEF Selects
<1> QED
  BY <1>4, <1>5 DEF z

\* A text selects as its first token does.
LEMMA TokenFirst ==
    ASSUME NEW T, NEW x \in Seq(T), NEW y \in Seq(T), x # <<>>, x[1] \notin Space,
           \/ x[1] \notin WordStart /\ x # <<"select">>
           \/ /\ x[1] \in WordStart
              /\ \A i \in 1 .. Len(x) : x[i] \in WordContinue
              /\ y # <<>> => y[1] \notin WordContinue
    PROVE  Selects(x \o y) <=> x = <<"select">>
<1> DEFINE z == x \o y
<1>1. Len(x) \in Nat /\ Len(y) \in Nat /\ 1 \in 1 .. Len(x) /\ "select" \in WordStart
  BY DEF WordStart
<1>2. DOMAIN z = 1 .. Len(x) + Len(y) /\ z[1] = x[1]
  BY <1>1, Joined
<1>3. CASE x[1] \in WordStart /\ (\A i \in 1 .. Len(x) : x[i] \in WordContinue)
           /\ (y # <<>> => y[1] \notin WordContinue)
  <2>1. IsWord(z, "select", 1) <=> x = <<"select">>
    BY <1>1, <1>3, WordsAfterAWord
  <2> HIDE DEF z
  <2>2. ASSUME Selects(z)
        PROVE  IsWord(z, "select", 1)
    <3>1. PICK i \in DOMAIN z : IsWord(z, "select", i) /\ \A k \in 1 .. i - 1 : z[k] \in Space
      BY <2>2 DEF Selects
    <3>2. ~(1 \in 1 .. i - 1)
      BY <1>2, <3>1
    <3>3. i = 1
      BY <1>1, <1>2, <3>2
    <3> QED
      BY <3>1, <3>3
  <2>3. ASSUME IsWord(z, "select", 1)
        PROVE  Selects(z)
    <3>1. 1 \in DOMAIN z /\ \A k \in 1 .. 1 - 1 : z[k] \in Space
      BY <1>1, <1>2
    <3> QED
      BY <2>3, <3>1 DEF Selects
  <2> QED
    BY <2>1, <2>2, <2>3 DEF z
<1>4. CASE x[1] \notin WordStart /\ x # <<"select">>
  <2> HIDE DEF z
  <2>1. ASSUME Selects(z)
        PROVE  FALSE
    <3>1. PICK i \in DOMAIN z : IsWord(z, "select", i) /\ \A k \in 1 .. i - 1 : z[k] \in Space
      BY <2>1 DEF Selects
    <3>2. ~(1 \in 1 .. i - 1)
      BY <1>2, <3>1
    <3>3. i = 1
      BY <1>1, <1>2, <3>2
    <3>4. z[1] = "select"
      BY <3>1, <3>3 DEF IsWord
    <3> QED
      BY <1>1, <1>2, <1>4, <3>4
  <2> QED
    BY <1>4, <2>1 DEF z
<1> QED
  BY <1>3, <1>4

-----------------------------------------------------------------------------
(* The verdict. *)

\* What has a symbol that is no space goes on.
Empties(t) == \A j \in 1 .. Len(t) : t[j] \in Space

\* What is read on from a position is of no more than spaces when only noise is left.
LEMMA OnlyNoise ==
    ASSUME NEW S, NEW text \in Seq(S), PlainNames(text), NEW i \in 1 .. Len(text) + 1
    PROVE  Empties(BareFrom(text)[i]["code"]) <=> skip_noise(text)[i] > Len(text)
<1> DEFINE B == BareFrom(text)
           at == skip_noise(text)[i]
<1>1. PICK w \in Seq(Space) : B[i]["code"] = w \o B[at]["code"]
  BY NoiseLeaves
<1>2. Len(text) \in Nat /\ at \in 1 .. Len(text) + 1
  <2>1. skip_noise(text) \in [1 .. Len(text) + 1 -> 1 .. Len(text) + 1]
    BY SkipNoise
  <2> QED
    BY <2>1
<1>3. Len(w) \in Nat /\ \A j \in 1 .. Len(w) : w[j] \in Space
  OBVIOUS
<1>4. CASE at > Len(text)
  <2>1. at = Len(text) + 1
    <3> HIDE DEF at
    <3> QED
      BY <1>2, <1>4
  <2>2. B[at]["code"] = <<>>
    BY <2>1, BareAtTheEnd DEF Modes
  <2>3. w \o <<>> = w
    OBVIOUS
  <2> QED
    BY <1>1, <1>3, <1>4, <2>2, <2>3 DEF Empties
<1>5. CASE ~(at > Len(text))
  <2>1. at \in 1 .. Len(text)
    <3> HIDE DEF at
    <3> QED
      BY <1>2, <1>5
  <2>2. text[at] \notin Space /\ ~OpensComment(text, at)
    BY <1>2, <2>1, NoNoise
  <2>3. PICK x : Token(S, text, at, x)
    BY <2>1, <2>2, TokenLeaves
  <2> DEFINE rest == B[next_token(text, at)]["code"]
  <2>4. x \in Seq(Left(S)) /\ x # <<>> /\ x[1] \notin Space /\ B[at]["code"] = x \o rest
    <3>1. x \in Seq(Left(S)) /\ x # <<>> /\ B[at]["code"] = x \o rest
      BY <2>3 DEF Token
    <3>2. x[1] \notin Space
      <4>1. CASE x[1] \in WordStart
        BY <4>1 DEF WordStart, Space
      <4>2. CASE x = <<"semicolon">>
        BY <4>2 DEF Space
      <4>3. CASE \A k \in 1 .. Len(x) : x[k] \notin Telling \cup Space
        <5>1. 1 \in 1 .. Len(x)
          BY <3>1
        <5> QED
          BY <4>3, <5>1
      <4> QED
        BY <2>3, <4>1, <4>2, <4>3 DEF Token
    <3> QED
      BY <3>1, <3>2
  <2>5. rest \in Seq(Left(S))
    <3>1. next_token(text, at) \in 1 .. Len(text) + 2
      <4>1. next_token(text, at) \in at + 1 .. Len(text) + 1
        BY <2>1, NextToken
      <4> HIDE DEF at
      <4> QED
        BY <1>2, <4>1
    <3> QED
      BY <3>1, BareFromIs DEF Modes
  <2> DEFINE T == Left(S) \cup Space
  <2>6. w \in Seq(T) /\ x \in Seq(T) /\ rest \in Seq(T)
    <3>1. Space \subseteq T /\ Left(S) \subseteq T
      OBVIOUS
    <3> HIDE DEF T, rest
    <3> QED
      BY <2>4, <2>5, <3>1, SeqWider
  <2> HIDE DEF rest, T
  <2> DEFINE z == x \o rest
  <2>7. z \in Seq(T) /\ 1 \in 1 .. Len(z) /\ z[1] = x[1]
    <3>1. 1 \in 1 .. Len(x) /\ Len(x) \in Nat /\ Len(rest) \in Nat
      BY <2>4, <2>6
    <3> QED
      BY <2>6, <3>1, Joined
  <2> HIDE DEF z
  <2>8. (w \o z)[Len(w) + 1] = z[1] /\ Len(w) + 1 \in 1 .. Len(w \o z)
    <3>1. Len(w) \in Nat /\ Len(z) \in Nat
      BY <1>3, <2>7
    <3>2. Len(w \o z) = Len(w) + Len(z) /\ \A j \in 1 .. Len(z) : (w \o z)[Len(w) + j] = z[j]
      BY <2>6, <2>7, Joined
    <3> QED
      BY <2>7, <3>1, <3>2
  <2>9. B[i]["code"] = w \o z
    BY <1>1, <2>4 DEF z
  <2>10. ~Empties(w \o z)
    BY <2>4, <2>7, <2>8 DEF Empties
  <2> QED
    BY <1>5, <2>9, <2>10
<1> QED
  BY <1>4, <1>5

\* Scanning on from a position, the code finds no mutating keyword and no second statement
\* exactly when the standard finds none in what is left there.
LEMMA ScanIsTheStandards ==
    ASSUME NEW S, NEW text \in Seq(S), PlainNames(text)
    PROVE  \A i \in 1 .. Len(text) + 1 :
                LET rest == BareFrom(text)[i]["code"]
                IN  scan_tokens(text)[i] = "ok" <=> ~Drops(rest) /\ ~Continues(rest)
<1> DEFINE B == BareFrom(text)
           n == Len(text) + 1
           scan == scan_tokens(text)
           skip == skip_noise(text)
           Fine(t) == ~Drops(t) /\ ~Continues(t)
           T == Left(S) \cup Space
           Agreed == {i \in 1 .. n : scan[i] = "ok" <=> Fine(B[i]["code"])}
<1>1. Len(text) \in Nat /\ n \in Nat
  OBVIOUS
<1>2. \A i \in 1 .. n : B[i]["code"] \in Seq(T)
  <2>1. \A i \in 1 .. n : B[i]["code"] \in Seq(Left(S))
    BY <1>1, BareFromIs DEF Modes
  <2>2. Left(S) \subseteq T
    OBVIOUS
  <2> HIDE DEF B, T
  <2> QED
    BY <2>1, <2>2, SeqWider
<1>3. \A i \in 1 .. n : skip[i] \in 1 .. n /\ i <= skip[i]
  BY SkipNoise, EndsAreLater
<1>4. ASSUME NEW i \in 1 .. n, \A j \in 1 .. n : i < j => j \in Agreed
      PROVE  i \in Agreed
  <2> DEFINE at == skip[i]
  <2>1. PICK w \in Seq(Space) : B[i]["code"] = w \o B[at]["code"]
    BY NoiseLeaves
  <2>2. Fine(B[i]["code"]) <=> Fine(B[at]["code"])
    <3> DEFINE y == B[at]["code"]
    <3>1. w \in Seq(T) /\ \A k \in 1 .. Len(w) : w[k] \notin Telling
      <4>1. Space \subseteq T /\ \A c \in Space : c \notin Telling
        BY DEF Space, Telling, WordStart
      <4>2. \A k \in 1 .. Len(w) : w[k] \in Space
        OBVIOUS
      <4> HIDE DEF T
      <4> QED
        BY <4>1, <4>2, SeqWider
    <3>2. y \in Seq(T)
      BY <1>2, <1>3
    <3> HIDE DEF y, T
    <3>3. (Drops(w \o y) <=> Drops(y)) /\ (Continues(w \o y) <=> Continues(y))
      BY <3>1, <3>2, PlainFirst
    <3> QED
      BY <2>1, <3>3 DEF y
  <2>3. scan[i] = IF at > Len(text) THEN "ok"
                  ELSE IF is_mutating_keyword(Word(text, at)) THEN "NotReadOnly"
                  ELSE IF text[at] = "semicolon" /\ skip[at + 1] <= Len(text) THEN "MultipleStatements"
                  ELSE scan[next_token(text, at)]
    BY ScanTokens
  <2>4. CASE at > Len(text)
    <3>1. at = Len(text) + 1
      <4> HIDE DEF at, skip
      <4> QED
        BY <1>1, <1>3, <2>4 DEF at
    <3>2. B[at]["code"] = <<>>
      BY <3>1, BareAtTheEnd DEF Modes
    <3>3. Fine(<<>>)
      BY DEF Drops, Continues
    <3> QED
      BY <2>2, <2>3, <2>4, <3>2, <3>3
  <2>5. CASE ~(at > Len(text))
    <3> DEFINE next == next_token(text, at)
               rest == B[next]["code"]
    <3>1. at \in 1 .. Len(text) /\ i <= at
      <4>1. at \in 1 .. n /\ i <= at
        BY <1>3
      <4> HIDE DEF at
      <4> QED
        BY <1>1, <2>5, <4>1
    <3>2. text[at] \notin Space /\ ~OpensComment(text, at)
      BY <3>1, NoNoise
    <3>3. PICK x : Token(S, text, at, x)
      BY <3>1, <3>2, TokenLeaves
    <3>4. next \in 1 .. n /\ i < next /\ (scan[next] = "ok" <=> Fine(rest))
      <4>1. next \in at + 1 .. n
        BY <3>1, NextToken
      <4>2. next \in 1 .. n /\ i < next
        <5> HIDE DEF at, next
        <5> QED
          BY <1>1, <3>1, <4>1
      <4>3. next \in Agreed
        BY <1>4, <4>2
      <4> HIDE DEF next, scan
      <4> QED
        BY <4>2, <4>3
    <3>5. rest \in Seq(T) /\ x \in Seq(T) /\ x # <<>> /\ B[at]["code"] = x \o rest
      <4>1. rest \in Seq(T)
        BY <1>2, <3>4
      <4>2. x \in Seq(Left(S)) /\ Left(S) \subseteq T
        BY <3>3 DEF Token
      <4>3. x \in Seq(T)
        <5> HIDE DEF T
        <5> QED
          BY <4>2, SeqWider
      <4> QED
        BY <3>3, <4>1, <4>3 DEF Token
    <3>6. CASE /\ text[at] \in WordStart
               /\ x = Word(text, at) /\ x[1] \in WordStart
               /\ \A k \in 1 .. Len(x) : x[k] \in WordContinue
               /\ rest # <<>> => rest[1] \notin WordContinue
      <4>1. (Drops(x \o rest) <=> x = <<"drop">> \/ Drops(rest)) /\ (Continues(x \o rest) <=> Continues(rest))
        <5> HIDE DEF rest, T
        <5> QED
          BY <3>5, <3>6, WordFirst
      <4>2. text[at] # "semicolon"
        BY <3>6 DEF WordStart
      <4>3. scan[i] = IF x = <<"drop">> THEN "NotReadOnly" ELSE scan[next]
        BY <2>3, <2>5, <3>6, <4>2 DEF is_mutating_keyword
      <4>4. scan[i] = "ok" <=> Fine(x \o rest)
        <5> HIDE DEF scan, rest, next
        <5> QED
          BY <3>4, <4>1, <4>3
      <4> QED
        BY <2>2, <3>5, <4>4
    <3>7. CASE text[at] = "semicolon" /\ x = <<"semicolon">> /\ next = at + 1
      <4>1. Word(text, at) # <<"drop">>
        <5>1. word_end(text, at) = at
          BY <3>7 DEF word_end, WordStart
        <5>2. Word(text, at) = <<>>
          BY <3>1, <5>1 DEF Word
        <5> QED
          BY <5>2
      <4>2. (Drops(x \o rest) <=> Drops(rest)) /\ (Continues(x \o rest) <=> ~Empties(rest))
        <5>1. "semicolon" \in T
          <6>1. x[1] \in T /\ x[1] = "semicolon"
            <7> HIDE DEF T
            <7>1. 1 \in 1 .. Len(x)
              BY <3>7
            <7> QED
              BY <3>5, <3>7, <7>1
          <6> QED
            BY <6>1
        <5> HIDE DEF rest, T
        <5> QED
          BY <3>5, <3>7, <5>1, EndFirst DEF Empties
      <4>3. Empties(rest) <=> skip[at + 1] > Len(text)
        BY <3>4, <3>7, OnlyNoise
      <4>4. Empties(rest) => ~Continues(rest)
        <5>1. DOMAIN rest = 1 .. Len(rest)
          <6> HIDE DEF rest, T
          <6> QED
            BY <3>5
        <5> HIDE DEF rest
        <5> QED
          BY <5>1 DEF Empties, Continues
      <4>5. skip[at + 1] \in Nat
        BY <1>1, <1>3, <3>4, <3>7
      <4>6. scan[i] = IF skip[at + 1] <= Len(text) THEN "MultipleStatements" ELSE scan[next]
        BY <2>3, <2>5, <3>7, <4>1 DEF is_mutating_keyword
      <4>7. scan[i] = "ok" <=> Fine(x \o rest)
        <5> HIDE DEF scan, rest, next, skip
        <5> QED
          BY <1>1, <3>4, <4>2, <4>3, <4>4, <4>5, <4>6
      <4> QED
        BY <2>2, <3>5, <4>7
    <3>8. CASE text[at] \notin Telling /\ \A k \in 1 .. Len(x) : x[k] \notin Telling \cup Space
      <4>1. Word(text, at) # <<"drop">>
        <5>1. word_end(text, at) = at
          BY <3>8 DEF word_end, Telling
        <5>2. Word(text, at) = <<>>
          BY <3>1, <5>1 DEF Word
        <5> QED
          BY <5>2
      <4>2. (Drops(x \o rest) <=> Drops(rest)) /\ (Continues(x \o rest) <=> Continues(rest))
        <5> HIDE DEF rest, T
        <5> QED
          BY <3>5, <3>8, PlainFirst
      <4>3. scan[i] = scan[next]
        BY <2>3, <2>5, <3>8, <4>1 DEF is_mutating_keyword, Telling
      <4>4. scan[i] = "ok" <=> Fine(x \o rest)
        <5> HIDE DEF scan, rest, next
        <5> QED
          BY <3>4, <4>2, <4>3
      <4> QED
        BY <2>2, <3>5, <4>4
    <3> QED
      BY <3>3, <3>6, <3>7, <3>8 DEF Token
  <2> QED
    BY <2>4, <2>5
<1>5. \A i \in 1 .. n : i \in Agreed
  <2> HIDE DEF Agreed
  <2> QED
    BY <1>1, <1>4, FromTheEnd
<1> QED
  BY <1>5

\* The first word the code finds is the first word of what is left.
LEMMA FirstWordIsTheStandards ==
    ASSUME NEW S, NEW text \in Seq(S), PlainNames(text)
    PROVE  Word(text, skip_noise(text)[1]) = <<"select">> <=> Selects(Bare(text))
<1> DEFINE B == BareFrom(text)
           at == skip_noise(text)[1]
           T == Left(S) \cup Space
<1>1. Len(text) \in Nat /\ 1 \in 1 .. Len(text) + 1 /\ at \in 1 .. Len(text) + 1
  <2>1. skip_noise(text) \in [1 .. Len(text) + 1 -> 1 .. Len(text) + 1]
    BY SkipNoise
  <2> QED
    BY <2>1
<1>2. \A i \in 1 .. Len(text) + 1 : B[i]["code"] \in Seq(T)
  <2>1. \A i \in 1 .. Len(text) + 1 : B[i]["code"] \in Seq(Left(S))
    BY <1>1, BareFromIs DEF Modes
  <2>2. Left(S) \subseteq T
    OBVIOUS
  <2> HIDE DEF B, T
  <2> QED
    BY <2>1, <2>2, SeqWider
<1>3. Selects(Bare(text)) <=> Selects(B[at]["code"])
  <2>1. PICK w \in Seq(Space) : B[1]["code"] = w \o B[at]["code"]
    BY <1>1, NoiseLeaves
  <2> DEFINE y == B[at]["code"]
  <2>2. w \in Seq(T) /\ \A k \in 1 .. Len(w) : w[k] \in Space
    <3>1. Space \subseteq T
      OBVIOUS
    <3> HIDE DEF T
    <3> QED
      BY <3>1, SeqWider
  <2>3. y \in Seq(T)
    BY <1>1, <1>2
  <2> HIDE DEF y, T
  <2>4. Selects(w \o y) <=> Selects(y)
    BY <2>2, <2>3, SpaceFirst
  <2> QED
    BY <2>1, <2>4 DEF y, Bare
<1>4. CASE at > Len(text)
  <2>1. at = Len(text) + 1
    <3> HIDE DEF at
    <3> QED
      BY <1>1, <1>4
  <2>2. B[at]["code"] = <<>>
    BY <2>1, BareAtTheEnd DEF Modes
  <2>3. ~Selects(<<>>)
    BY DEF Selects
  <2>4. Word(text, at) = <<>>
    <3>1. word_end(text, at) = at
      BY <1>4 DEF word_end
    <3> HIDE DEF at
    <3> QED
      BY <1>1, <2>1, <3>1 DEF Word
  <2> QED
    BY <1>3, <2>2, <2>3, <2>4
<1>5. CASE ~(at > Len(text))
  <2>1. at \in 1 .. Len(text)
    <3> HIDE DEF at
    <3> QED
      BY <1>1, <1>5
  <2>2. text[at] \notin Space /\ ~OpensComment(text, at)
    BY <1>1, <2>1, NoNoise
  <2>3. PICK x : Token(S, text, at, x)
    BY <2>1, <2>2, TokenLeaves
  <2> DEFINE next == next_token(text, at)
             rest == B[next]["code"]
  <2>4. x \in Seq(T) /\ x # <<>> /\ B[at]["code"] = x \o rest
    <3>1. x \in Seq(Left(S)) /\ Left(S) \subseteq T
      BY <2>3 DEF Token
    <3>2. x \in Seq(T)
      <4> HIDE DEF T
      <4> QED
        BY <3>1, SeqWider
    <3> QED
      BY <2>3, <3>2 DEF Token
  <2>5. rest \in Seq(T)
    <3>1. next \in at + 1 .. Len(text) + 1
      BY <2>1, NextToken
    <3>2. next \in 1 .. Len(text) + 1
      <4> HIDE DEF at, next
      <4> QED
        BY <1>1, <2>1, <3>1
    <3> QED
      BY <1>2, <3>2
  <2>6. \A c \in WordStart : c \notin Space
    BY DEF WordStart, Space
  <2>7. 1 \in 1 .. Len(x)
    <3> HIDE DEF T
    <3> QED
      BY <2>4
  <2>8. CASE /\ text[at] \in WordStart
             /\ x = Word(text, at) /\ x[1] \in WordStart
             /\ \A k \in 1 .. Len(x) : x[k] \in WordContinue
             /\ rest # <<>> => rest[1] \notin WordContinue
    <3>1. Selects(x \o rest) <=> x = <<"select">>
      <4> HIDE DEF rest, T
      <4> QED
        BY <2>4, <2>5, <2>6, <2>8, TokenFirst
    <3> QED
      BY <1>3, <2>4, <2>8, <3>1
  <2>9. CASE text[at] \notin WordStart /\ x[1] \notin WordStart /\ x[1] \notin Space
    <3>1. x # <<"select">>
      BY <2>9 DEF WordStart
    <3>2. Selects(x \o rest) <=> x = <<"select">>
      <4> HIDE DEF rest, T
      <4> QED
        BY <2>4, <2>5, <2>9, <3>1, TokenFirst
    <3>3. Word(text, at) = <<>>
      <4>1. word_end(text, at) = at
        BY <2>9 DEF word_end
      <4> QED
        BY <2>1, <4>1 DEF Word
    <3> QED
      BY <1>3, <2>4, <3>1, <3>2, <3>3
  <2>10. CASE text[at] = "semicolon" /\ x = <<"semicolon">>
    <3>1. text[at] \notin WordStart /\ x[1] \notin WordStart /\ x[1] \notin Space
      BY <2>10 DEF WordStart, Space
    <3> QED
      BY <2>9, <3>1
  <2>11. CASE text[at] \notin Telling /\ \A k \in 1 .. Len(x) : x[k] \notin Telling \cup Space
    <3>1. text[at] \notin WordStart /\ x[1] \notin WordStart /\ x[1] \notin Space
      BY <2>7, <2>11 DEF Telling
    <3> QED
      BY <2>9, <3>1
  <2> QED
    BY <2>3, <2>8, <2>10, <2>11 DEF Token
<1> QED
  BY <1>4, <1>5

\* The scanner (execution.rs) lets a text pass exactly when the standard reads it as one
\* query: whatever its length, its quotes, its comments and its nesting.
THEOREM ScannerReadsTheStandard ==
    ASSUME NEW S, NEW text \in Seq(S), PlainNames(text)
    PROVE  validate_read_only(text) = "ok" <=> SingleQuery(text)
<1> DEFINE t == Bare(text)
<1>1. 1 \in 1 .. Len(text) + 1
  OBVIOUS
<1>2. scan_tokens(text)[1] = "ok" <=> ~Drops(t) /\ ~Continues(t)
  BY <1>1, ScanIsTheStandards DEF Bare
<1>3. Word(text, skip_noise(text)[1]) = <<"select">> <=> Selects(t)
  BY FirstWordIsTheStandards
<1>4. SingleQuery(text) <=> Selects(t) /\ ~Drops(t) /\ ~Continues(t)
  <2> HIDE DEF t
  <2>1. ~Continues(t) <=> \A i, k \in DOMAIN t : t[i] = "semicolon" /\ i < k => t[k] \in Space
    BY DEF Continues
  <2> QED
    BY <2>1 DEF SingleQuery, Selects, Drops, t
<1>5. validate_read_only(text) =
            IF Word(text, skip_noise(text)[1]) # <<"select">> THEN "NotReadOnly" ELSE scan_tokens(text)[1]
  BY DEF validate_read_only
<1> QED
  <2> HIDE DEF t
  <2> QED
    BY <1>2, <1>3, <1>4, <1>5

===============================================================================
