------------------------------ MODULE CComments ------------------------------
(***************************************************************************)
(* The C text helpers of cachereader/C.py: strip_comments, a Mealy        *)
(* machine over the bytes of a C source; iter_lines, which numbers the    *)
(* lines of its output and merges backslash-continued ones; is_identifier *)
(* and to_identifier.                                                      *)
(*                                                                         *)
(* A text is a sequence of one-character strings.  A result of           *)
(* strip_comments is [out, err]: the bytes it yields, and the ValueError  *)
(* it raises after the last of them ("none", "string", "char" or          *)
(* "comment", for the three messages).                                    *)
(***************************************************************************)
EXTENDS Integers, Sequences

LOCAL INSTANCE SequencesExt
LOCAL INSTANCE FiniteSetsExt

\* The states of strip_comments' machine, and the key None of transition_out.
FsmStates == {"CODE", "STRING", "STRING_ESCAPE", "CHAR", "CHAR_ESCAPE", "SLASH",
              "LINECOMMENT", "BLOCKCOMMENT", "BLOCKASTER", "BLOCKNEWLINE"}
AnyState == "None"

\* Mutant: a star after a star goes back to the comment body, so "**/"
\* no longer closes the comment.
BlockAsterRowStarResets == ("/" :> "CODE") @@ ("" :> "BLOCKCOMMENT") @@ ("\n" :> "BLOCKNEWLINE")

\* BLOCKASTER's row: "/" ends the comment, "*" stays, a newline is kept.
BlockAsterRow == ("/" :> "CODE") @@ ("*" :> "BLOCKASTER") @@ ("" :> "BLOCKCOMMENT") @@ ("\n" :> "BLOCKNEWLINE")

\* The transitions dict: per state, the next state for a byte, "" for any
\* other byte.
Transitions ==
    [s \in FsmStates |->
       CASE s = "CODE"          -> ("\"" :> "STRING") @@ ("'" :> "CHAR") @@ ("/" :> "SLASH")
         [] s = "STRING"        -> ("\"" :> "CODE") @@ ("\\" :> "STRING_ESCAPE")
         [] s = "STRING_ESCAPE" -> ("" :> "STRING")
         [] s = "CHAR"          -> ("'" :> "CODE") @@ ("\\" :> "CHAR_ESCAPE")
         [] s = "CHAR_ESCAPE"   -> ("" :> "CHAR")
         [] s = "SLASH"         -> ("/" :> "LINECOMMENT") @@ ("*" :> "BLOCKCOMMENT") @@ ("" :> "CODE")
         [] s = "LINECOMMENT"   -> ("\n" :> "CODE")
         [] s = "BLOCKCOMMENT"  -> ("*" :> "BLOCKASTER") @@ ("\n" :> "BLOCKNEWLINE")
         [] s = "BLOCKASTER"    -> BlockAsterRow
         [] s = "BLOCKNEWLINE"  -> ("\n" :> "BLOCKNEWLINE") @@ ("*" :> "BLOCKASTER") @@ ("" :> "BLOCKCOMMENT")]

\* trans.get(byte, trans.get('', state))
FsmNext(s, c) ==
    LET t == Transitions[s]
    IN  IF c \in DOMAIN t THEN t[c] ELSE IF "" \in DOMAIN t THEN t[""] ELSE s

\* transition_out: silent yields nothing, default the byte, slash '/' and
\* the byte.
TransitionOut ==
    (<<"CODE", "SLASH">> :> "silent") @@ (<<"SLASH", "CODE">> :> "slash")
    @@ (<<"SLASH", "BLOCKCOMMENT">> :> "silent") @@ (<<"SLASH", "LINECOMMENT">> :> "silent")
    @@ (<<"LINECOMMENT", "LINECOMMENT">> :> "silent") @@ (<<"LINECOMMENT", "CODE">> :> "default")
    @@ (<<"BLOCKCOMMENT", "BLOCKNEWLINE">> :> "default") @@ (<<"BLOCKASTER", "BLOCKNEWLINE">> :> "default")
    @@ (<<"BLOCKNEWLINE", "BLOCKNEWLINE">> :> "default") @@ (<<"BLOCKCOMMENT", AnyState>> :> "silent")
    @@ (<<"BLOCKASTER", AnyState>> :> "silent") @@ (<<"BLOCKNEWLINE", AnyState>> :> "silent")

\* Mutant: the newline ending a line comment is swallowed with it.
OutFnEatsNewline(s, n) ==
    LET keys == <<<<s, n>>, <<s, AnyState>>, <<AnyState, n>>>>
        hit  == {i \in 1..3 : keys[i] \in DOMAIN TransitionOut}
    IN  IF s = "LINECOMMENT" THEN "silent"
        ELSE IF hit = {} THEN "default" ELSE TransitionOut[keys[Min(hit)]]

\* The output function for a transition: (state, next), then (state, None),
\* then (None, next), then default; and what it yields for the byte.
OutFn(s, n) ==
    LET keys == <<<<s, n>>, <<s, AnyState>>, <<AnyState, n>>>>
        hit  == {i \in 1..3 : keys[i] \in DOMAIN TransitionOut}
    IN  IF hit = {} THEN "default" ELSE TransitionOut[keys[Min(hit)]]

Yielded(fn, c) == CASE fn = "silent" -> << >> [] fn = "default" -> <<c>> [] fn = "slash" -> <<"/", c>>

\* One byte: the output of the transition to n, then the state moves on.
FsmMove(acc, c, n) == [st |-> n, out |-> acc.out \o Yielded(OutFn(acc.st, n), c)]

FsmStep(acc, c) == FsmMove(acc, c, FsmNext(acc.st, c))

\* The ValueError of a final state, when throw_final is set.
FinalError(st, throwFinal) ==
    IF ~throwFinal THEN "none"
    ELSE IF st \in {"STRING", "STRING_ESCAPE"} THEN "string"
    ELSE IF st \in {"CHAR", "CHAR_ESCAPE"} THEN "char"
    ELSE IF st \in {"BLOCKCOMMENT", "BLOCKASTER", "BLOCKNEWLINE"} THEN "comment"
    ELSE "none"

StripComments(text, throwFinal) ==
    LET r == FoldLeft(FsmStep, [st |-> "CODE", out |-> << >>], text)
    IN  [out |-> r.out, err |-> FinalError(r.st, throwFinal)]

----------------------------------------------------------------------------
(* iter_lines: the lines of strip_comments' output (throw_final unset by  *)
(* default), right-stripped; a line ending in a backslash is continued,   *)
(* without it, by the next, and the parts are joined with a space.  Each  *)
(* logical line is yielded with the number of its last physical line,    *)
(* then the pending parts once more with the last number.                 *)

Whitespace == {" ", "\t", "\r"}

\* iter_lines_raw: the output split at every newline; the last line is
\* yielded even when empty.
RawLines(out) ==
    FoldLeft(LAMBDA acc, c : IF c = "\n" THEN Append(acc, << >>)
                             ELSE [acc EXCEPT ![Len(acc)] = Append(@, c)],
             << << >> >>, out)

RStrip(l) == SubSeq(l, 1, Min({k \in 0..Len(l) : \A i \in (k + 1)..Len(l) : l[i] \in Whitespace}))

\* ' '.join(parts)
JoinParts(ps) == IF ps = << >> THEN << >>
                 ELSE FoldLeft(LAMBDA a, p : a \o <<" ">> \o p, Head(ps), Tail(ps))

LineStepCont(acc, n, l, cont) ==
    LET parts == Append(acc.next, IF cont THEN Front(l) ELSE l)
    IN  IF cont THEN [acc EXCEPT !.next = parts, !.no = n]
        ELSE [items |-> Append(acc.items, <<n, JoinParts(parts)>>), next |-> << >>, no |-> n]

IterLinesFrom(lines) ==
    LET r == FoldLeft(LAMBDA acc, n : LineStepCont(acc, n, RStrip(lines[n]),
                                          RStrip(lines[n]) # << >> /\ Last(RStrip(lines[n])) = "\\"),
                      [items |-> << >>, next |-> << >>, no |-> 0], [n \in 1..Len(lines) |-> n])
    IN  Append(r.items, <<r.no, JoinParts(r.next)>>)

IterLines(text) == IterLinesFrom(RawLines(StripComments(text, FALSE).out))

----------------------------------------------------------------------------
(* is_identifier and to_identifier, over texts.                           *)

KEYWORDS == {"auto", "break", "case", "char", "const", "continue", "default", "do",
             "double", "else", "enum", "extern", "float", "for", "goto", "if", "int",
             "long", "register", "return", "short", "signed", "sizeof", "static",
             "struct", "switch", "typedef", "union", "unsigned", "void", "volatile", "while"}

Letters == {"a", "b", "c", "d", "e", "f", "g", "h", "i", "j", "k", "l", "m", "n", "o", "p", "q",
            "r", "s", "t", "u", "v", "w", "x", "y", "z", "A", "B", "C", "D", "E", "F", "G", "H",
            "I", "J", "K", "L", "M", "N", "O", "P", "Q", "R", "S", "T", "U", "V", "W", "X", "Y", "Z"}
ID_FIRST == {"_"} \cup Letters
ID_OTHER == ID_FIRST \cup {"0", "1", "2", "3", "4", "5", "6", "7", "8", "9"}

Str(t) == FoldLeft(LAMBDA a, c : a \o c, "", t)

\* The characters accepted at position i: ID_FIRST first, ID_OTHER after.
Accept(i) == IF i = 1 THEN ID_FIRST ELSE ID_OTHER

IsIdentifier(t) == t # << >> /\ Str(t) \notin KEYWORDS /\ \A i \in DOMAIN t : t[i] \in Accept(i)

\* Mutant: accept is never widened to ID_OTHER.
ToIdentifierFirstOnly(t) ==
    IF t = << >> THEN <<"_">> ELSE IF Str(t) \in KEYWORDS THEN Append(t, "_")
    ELSE [i \in DOMAIN t |-> IF t[i] \in ID_FIRST THEN t[i] ELSE "_"]

ToIdentifier(t) ==
    IF t = << >> THEN <<"_">> ELSE IF Str(t) \in KEYWORDS THEN Append(t, "_")
    ELSE [i \in DOMAIN t |-> IF t[i] \in Accept(i) THEN t[i] ELSE "_"]

----------------------------------------------------------------------------
(***************************************************************************)
(* The reference: what strip_comments' docstring promises, as a lexer.   *)
(* A string or character literal runs to the first closing quote not     *)
(* escaped by an odd run of backslashes, and is kept; "//" drops up to    *)
(* the newline; "/*" drops up to the first "*/" after it, keeping its     *)
(* newlines; an unclosed literal or block comment is a ValueError.        *)
(* odd marks a slash of code directly before a quote or the end: the      *)
(* machine's SLASH state goes back to CODE on any byte but "/" and "*",   *)
(* so it does not see the literal that quote opens, and a final slash is  *)
(* never yielded (C.py:140).                                              *)
(***************************************************************************)
Quotes == {"\"", "'"}

Newlines(t) == SelectSeq(t, LAMBDA c : c = "\n")

\* The end of the literal t opens: a quote like t[1], after an even run of
\* backslashes that are not the opening quote.
LitEnds(t) ==
    {k \in 2..Len(t) : /\ t[k] = t[1]
                       /\ \E j \in 0..(k - 2) : /\ j % 2 = 0
                                                /\ \A i \in (k - j)..(k - 1) : t[i] = "\\"
                                                /\ (k - j - 1 = 1 \/ t[k - j - 1] # "\\")}

Lexed(pre, r) == [r EXCEPT !.out = pre \o @]

RECURSIVE RefStrip(_)
RefStrip(t) ==
    IF t = << >> THEN [out |-> << >>, err |-> "none", odd |-> FALSE]
    ELSE IF t[1] \in Quotes
    THEN IF LitEnds(t) = {} THEN [out |-> t, err |-> IF t[1] = "'" THEN "char" ELSE "string", odd |-> FALSE]
         ELSE Lexed(SubSeq(t, 1, Min(LitEnds(t))), RefStrip(SubSeq(t, Min(LitEnds(t)) + 1, Len(t))))
    ELSE IF Len(t) >= 2 /\ t[1] = "/" /\ t[2] = "/"
    THEN IF Newlines(t) = << >> THEN [out |-> << >>, err |-> "none", odd |-> FALSE]
         ELSE RefStrip(SubSeq(t, Min({i \in DOMAIN t : t[i] = "\n"}), Len(t)))
    ELSE IF Len(t) >= 2 /\ t[1] = "/" /\ t[2] = "*"
    THEN IF \A i \in 3..(Len(t) - 1) : ~(t[i] = "*" /\ t[i + 1] = "/")
         THEN [out |-> Newlines(t), err |-> "comment", odd |-> FALSE]
         ELSE LET e == Min({i \in 3..(Len(t) - 1) : t[i] = "*" /\ t[i + 1] = "/"})
              IN  Lexed(Newlines(SubSeq(t, 1, e)), RefStrip(SubSeq(t, e + 2, Len(t))))
    ELSE LET r == RefStrip(Tail(t))
         IN  [out |-> <<t[1]>> \o r.out, err |-> r.err,
              odd |-> r.odd \/ (t[1] = "/" /\ (Len(t) = 1 \/ t[2] \in Quotes))]

(***************************************************************************)
(* strip_comments yields exactly the text its docstring promises, comment *)
(* tokens inside literals, escapes, runs of stars and newlines inside    *)
(* block comments included, and raises ValueError exactly for an unclosed *)
(* literal or block comment; texts with a slash of code before a quote or *)
(* at the end are left to the hazard recorded at C.py:140.               *)
(***************************************************************************)
StripAgreesWithLexer(texts) ==
    \A t \in texts :
        \A r \in {RefStrip(t)} :
            ~r.odd => StripComments(t, TRUE) = [out |-> r.out, err |-> r.err]

(***************************************************************************)
(* Line numbers survive comment removal: whatever the text (unclosed      *)
(* literals and comments, continued lines and misread slashes included), *)
(* iter_lines numbers its lines within the text's physical lines, in     *)
(* order, and its last number is the number of physical lines, as every *)
(* newline, in code, literal or comment, reaches the output.             *)
(***************************************************************************)
LineCountKept(texts) ==
    \A t \in texts :
        \A ls \in {IterLines(t)} :
            /\ ls[Len(ls)][1] = Len(Newlines(t)) + 1
            /\ \A i \in 1..(Len(ls) - 1) : 1 <= ls[i][1] /\ ls[i][1] <= ls[i + 1][1]

(***************************************************************************)
(* to_identifier always gives an identifier is_identifier accepts, and   *)
(* leaves exactly the identifiers unchanged.                              *)
(***************************************************************************)
ToIdentifierIsIdentifier(texts) ==
    \A t \in texts :
        \A u \in {ToIdentifier(t)} : IsIdentifier(u) /\ (u = t <=> IsIdentifier(t))

====
