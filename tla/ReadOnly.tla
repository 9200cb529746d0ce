------------------------------- MODULE ReadOnly -------------------------------
(***************************************************************************)
(* Is a text one read-only statement?  The scanner of                      *)
(* src/src/execution.rs, and the text read the standard's way.             *)
(*                                                                         *)
(* A text is a sequence of symbols, the semicolon and quotes by name,      *)
(* and three symbols that stand for the letters of SELECT or WITH          *)
(* ("select"), of one of the eight mutating keywords ("drop") and of any   *)
(* other name ("a").  A word is a run of word symbols, so "drop" next to   *)
(* "a" is a name.                                                          *)
(***************************************************************************)
EXTENDS Naturals, Sequences

Space == {" ", "newline"}
WordStart == {"select", "drop", "a"}
WordContinue == WordStart \cup {"0"}

\* What closes the identifier that another symbol opens.
Closer == [dquote |-> "dquote", tick |-> "tick", bracket |-> "close"]

-----------------------------------------------------------------------------
(* The scanner.  A position is 1 .. Len(text) + 1. *)

StartsWith(text, mark, i) == i < Len(text) /\ text[i] = mark[1] /\ text[i + 1] = mark[2]

\* The least of the positions `at`, or the end.
FirstOf(text, at) == IF at = {} THEN Len(text) + 1 ELSE CHOOSE j \in at : \A k \in at : j <= k

\* The position of the first symbol past the comment that opens at i.
skip_comment(text, i) ==
    LET ends == IF text[i] = "/"
                THEN {j + 2 : j \in {k \in i + 2 .. Len(text) : StartsWith(text, <<"*", "/">>, k)}}
                ELSE {j + 1 : j \in {k \in i + 2 .. Len(text) : text[k] = "newline"}}
    IN  FirstOf(text, ends)

\* Whitespace and comments.
skip_noise(text) ==
    LET skip[i \in 1 .. Len(text) + 1] ==
            IF i > Len(text) THEN i
            ELSE IF text[i] \in Space THEN skip[i + 1]
            ELSE IF \/ StartsWith(text, <<"/", "*">>, i)
                    \/ StartsWith(text, <<"-", "-">>, i) THEN skip[skip_comment(text, i)]
            ELSE i
    IN  skip

\* Past the word that begins at i, or i itself.
word_end(text, i) ==
    IF i > Len(text) \/ text[i] \notin WordStart THEN i
    ELSE FirstOf(text, {j \in i .. Len(text) : text[j] \notin WordContinue})

Word(text, i) == SubSeq(text, i, word_end(text, i) - 1)

\* Mutant: a string ends at the first backslash or quote.
skip_string_to_escape(text, i) ==
    FirstOf(text, {j + 1 : j \in {k \in i + 1 .. Len(text) : text[k] \in {"quote", "escape"}}})

\* Past the end of a string literal, from a position inside it; a doubled quote
\* stays inside.
string_end(text) ==
    LET inside[j \in 1 .. Len(text) + 1] ==
            IF j > Len(text) THEN j
            ELSE IF text[j] # "quote" THEN inside[j + 1]
            ELSE IF StartsWith(text, <<"quote", "quote">>, j) THEN inside[j + 2]
            ELSE j + 1
    IN  inside

skip_single_quoted_string(text, i) == string_end(text)[i + 1]

\* Past the end of an identifier that `close` ends; a backslash takes the next
\* symbol along.
delimited_end(text, close) ==
    LET inside[j \in 1 .. Len(text) + 2] ==
            IF j > Len(text) THEN Len(text) + 1
            ELSE IF text[j] = close THEN j + 1
            ELSE IF text[j] = "escape" THEN inside[j + 2]
            ELSE inside[j + 1]
    IN  inside

skip_delimited(text, i) == delimited_end(text, Closer[text[i]])[i + 1]

\* The position after the token at i, where no noise begins.
next_token(text, i) ==
    CASE text[i] = "quote" -> skip_single_quoted_string(text, i)
      [] text[i] \in DOMAIN Closer -> skip_delimited(text, i)
      [] text[i] \in WordStart -> word_end(text, i)
      [] OTHER -> i + 1

is_mutating_keyword(word) == word = <<"drop">>

\* Reading on where a token may begin: "ok", or why the text is rejected.
scan_tokens(text) ==
    LET skip == skip_noise(text)
        scan[i \in 1 .. Len(text) + 1] ==
            LET at == skip[i] IN
            IF at > Len(text) THEN "ok"
            ELSE IF is_mutating_keyword(Word(text, at)) THEN "NotReadOnly"
            ELSE IF text[at] = "semicolon" /\ skip[at + 1] <= Len(text) THEN "MultipleStatements"
            ELSE scan[next_token(text, at)]
    IN  scan

validate_read_only(text) ==
    IF Word(text, skip_noise(text)[1]) # <<"select">> THEN "NotReadOnly" ELSE scan_tokens(text)[1]

-----------------------------------------------------------------------------
(* The standard's reading: what is left of a text without its comments,    *)
(* with a "literal" in the place of each string or delimited identifier.   *)

Closes(x) == IF x = "quote" THEN x ELSE Closer[x]

\* What a text is in the middle of: code, a comment, or a literal, which its
\* closing symbol stands for.
Literals == {"quote", "dquote", "tick", "close"}
Modes == {"code", "line", "block"} \cup Literals

\* The text from position i on, where it stands in mode m.
BareFrom(text) ==
    LET bare[i \in 1 .. Len(text) + 2] ==
          [m \in Modes |->
            IF i > Len(text) THEN <<>>
            ELSE CASE m = "code" /\ StartsWith(text, <<"/", "*">>, i) -> bare[i + 2]["block"]
                   [] m = "code" /\ StartsWith(text, <<"-", "-">>, i) -> bare[i + 2]["line"]
                   [] m = "code" /\ text[i] \in DOMAIN Closer \cup {"quote"} ->
                        <<"literal">> \o bare[i + 1][Closes(text[i])]
                   [] m = "block" /\ StartsWith(text, <<"*", "/">>, i) ->
                        <<" ">> \o bare[i + 2]["code"]
                   [] m = "line" /\ text[i] = "newline" -> <<" ">> \o bare[i + 1]["code"]
                   [] m \in Literals /\ text[i] = m -> bare[i + 1]["code"]
                   [] OTHER -> (IF m = "code" THEN <<text[i]>> ELSE <<>>) \o bare[i + 1][m]]
    IN  bare

Bare(text) == BareFrom(text)[1]["code"]

\* At position i of t stands the word w, alone: no name goes on after it, and
\* none that began before goes on to it.
IsWord(t, w, i) ==
    /\ t[i] = w
    /\ i < Len(t) => t[i + 1] \notin WordContinue
    /\ \A k \in 1 .. i - 1 :
        t[k] \in WordStart => \E l \in k .. i - 1 : t[l] \notin WordContinue

\* One statement, which is a query, and no mutating keyword anywhere in it.
SingleQuery(text) ==
    LET t == Bare(text)
    IN  /\ \E i \in DOMAIN t : IsWord(t, "select", i) /\ \A k \in 1 .. i - 1 : t[k] \in Space
        /\ \A i \in DOMAIN t : ~IsWord(t, "drop", i)
        /\ \A i, k \in DOMAIN t : t[i] = "semicolon" /\ i < k => t[k] \in Space

\* No backslash beside a delimited identifier, no closing bracket doubled: how
\* such names are read differs from engine to engine.
PlainNames(text) ==
    \A i \in DOMAIN text :
        /\ text[i] = "escape" => \A j \in DOMAIN text : text[j] \notin DOMAIN Closer
        /\ ~StartsWith(text, <<"close", "close">>, i)

=============================================================================
