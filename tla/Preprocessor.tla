---------------------------- MODULE Preprocessor ----------------------------
(***************************************************************************)
(* HPreprocessor: the set, call, if and foreach lines of a configuration   *)
(* are expanded, before HConfig reads what is left, by going over all the  *)
(* lines five times -- set, call, set, substitute, blocks -- and again as  *)
(* long as a line begins with one of the four keywords.                    *)
(*                                                                         *)
(* A line is its kind (its keyword, "close" for "}", "text" otherwise) and *)
(* the words after it; a word is a literal or a reference, $name.  Words   *)
(* with a reference inside are left out.                                   *)
(***************************************************************************)
EXTENDS Integers, Sequences, SequencesExt

CONSTANTS Programs,   \* the configurations: [main : Seq(Line), files : names -> Seq(Line)]
          Begins      \* the pairs <<word, pattern>> of literals of which "begins" holds

Keywords == {"set", "foreach", "call", "if"}
Literal(s) == [ref |-> FALSE, s |-> s]
Reference(s) == [ref |-> TRUE, s |-> s]

VARIABLES prog,   \* the configuration
          pass,   \* 1..5: the pass; 0: between two calls of preprocess; 6: done
          copied, \* what is left of lines_copied
          lines,  \* lines_
          mv      \* mv_: the values of the variables that are set

vars == <<prog, pass, copied, lines, mv>>

Init ==
    /\ prog \in Programs
    /\ pass = 0 /\ copied = <<>> /\ lines = prog.main
    /\ mv = <<>>

(***************************************************************************)
(* Substitution.                                                           *)
(***************************************************************************)
Known(w, m) == w.ref /\ w.s \in DOMAIN m

\* A word: the words of its value, which are substituted in turn; a variable set
\* to nothing stays as it is.
RECURSIVE SubstituteWord(_, _)
SubstituteWord(w, m) ==
    IF Known(w, m) /\ m[w.s] # <<>>
    THEN FlattenSeq([i \in DOMAIN m[w.s] |-> SubstituteWord(m[w.s][i], m)])
    ELSE <<w>>

SubstituteWords(ws, m) == FlattenSeq([i \in DOMAIN ws |-> SubstituteWord(ws[i], m)])

\* A line: as before if it is one word or has no known reference; otherwise each
\* reference is replaced once, by nothing if it is set to nothing, and the words
\* that result are substituted.
Substitute(line, m) ==
    LET once == FlattenSeq([i \in DOMAIN line.w |->
                              IF Known(line.w[i], m) THEN m[line.w[i].s] ELSE <<line.w[i]>>])
    IN  IF line.k = "text" /\ Len(line.w) = 1
        THEN [line EXCEPT !.w = SubstituteWords(@, m)]
        ELSE IF \E w \in Range(line.w) : Known(w, m)
        THEN [line EXCEPT !.w = SubstituteWords(once, m)]
        ELSE line

(***************************************************************************)
(* The lines with a keyword.                                               *)
(***************************************************************************)
Bind(m, name, val) == [n \in DOMAIN m \cup {name} |-> IF n = name THEN val ELSE m[n]]

\* set: a name that is a reference itself makes a key no reference can name.
ProcessSet(m, line) ==
    IF line.w[1].ref THEN m
    ELSE Bind(m, line.w[1].s, SubstituteWords(Tail(line.w), m))

\* call: the lines of the file, if it is found.
FileOf(line, m, files) ==
    LET file == SubstituteWord(line.w[1], m)
    IN  IF Len(file) = 1 /\ ~ file[1].ref /\ file[1].s \in DOMAIN files
        THEN files[file[1].s] ELSE <<>>
ProcessCall(line, m, files) ==
    LET file == FileOf(line, m, files)
    IN  [i \in DOMAIN file |-> Substitute(file[i], m)]

\* The block that the first line of s opens ends at the first line at which as
\* many brackets are closed as opened.
Opened(s) == Len(SelectSeq(s, LAMBDA x : x.k \in {"if", "else", "foreach"}))
Closed(s) == Len(SelectSeq(s, LAMBDA x : x.k = "close"))
Balanced(s, n) == Opened(SubSeq(s, 1, n)) = Closed(SubSeq(s, 1, n))
EndOfBlock(s, n) == n > 0 /\ Balanced(s, n) /\ \A k \in 1..(n - 1) : ~ Balanced(s, k)
After(s, n) == SubSeq(s, n + 1, Len(s))

\* The else block after an if block of n lines has e lines, if there is one.
ElseBlock(s, n, e) ==
    IF n < Len(s) /\ s[n + 1].k = "else" THEN EndOfBlock(After(s, n), e) ELSE e = 0

GetCond(line) ==
    /\ Len(line.w) = 2 /\ ~ line.w[1].ref /\ ~ line.w[2].ref
    /\ <<line.w[1].s, line.w[2].s>> \in Begins

\* foreach: the body for each word of the list, the token replaced by the word.
ProcessForeach(header, body) ==
    LET token == header.w[1].s
        Copy(word) == [i \in DOMAIN body |->
                         [body[i] EXCEPT !.w = SubstituteWords(@, [n \in {token} |-> <<word>>])]]
    IN  FlattenSeq([i \in 1..(Len(header.w) - 1) |-> Copy(header.w[i + 1])])

(***************************************************************************)
(* The passes, line by line.                                               *)
(***************************************************************************)
NeedsProcessingMutant ==
    /\ pass = 0
    /\ IF \E x \in Range(lines) : x.k \in Keywords \ {"if"}
       THEN pass' = 1 /\ copied' = lines /\ lines' = <<>>
       ELSE pass' = 6 /\ UNCHANGED <<copied, lines>>
    /\ UNCHANGED <<prog, mv>>
NeedsProcessing ==
    /\ pass = 0
    /\ IF \E x \in Range(lines) : x.k \in Keywords
       THEN pass' = 1 /\ copied' = lines /\ lines' = <<>>
       ELSE pass' = 6 /\ UNCHANGED <<copied, lines>>
    /\ UNCHANGED <<prog, mv>>

NextPass ==
    /\ pass \in 1..5 /\ copied = <<>>
    /\ IF pass = 5 THEN pass' = 0 /\ UNCHANGED <<copied, lines>>
       ELSE pass' = pass + 1 /\ copied' = lines /\ lines' = <<>>
    /\ UNCHANGED <<prog, mv>>

At(p) == pass = p /\ copied # <<>>

SetPass ==
    /\ At(1) \/ At(3)
    /\ IF Head(copied).k = "set"
       THEN mv' = ProcessSet(mv, Head(copied)) /\ UNCHANGED lines
       ELSE lines' = Append(lines, Head(copied)) /\ UNCHANGED mv
    /\ copied' = Tail(copied) /\ UNCHANGED <<prog, pass>>

CallPass ==
    /\ At(2)
    /\ lines' = lines \o (IF Head(copied).k = "call"
                          THEN ProcessCall(Head(copied), mv, prog.files)
                          ELSE <<Head(copied)>>)
    /\ copied' = Tail(copied) /\ UNCHANGED <<prog, pass, mv>>

SubstitutePass ==
    /\ At(4)
    /\ lines' = Append(lines, Substitute(Head(copied), mv))
    /\ copied' = Tail(copied) /\ UNCHANGED <<prog, pass, mv>>

\* The lines of a block are substituted when they are gathered; the first and the
\* last are its brackets.
Gathered(s, from, to) == [i \in 1..(to - from - 1) |-> Substitute(s[from + i], mv)]

ProcessIf ==
    /\ At(5) /\ Head(copied).k = "if"
    /\ \E n \in DOMAIN copied :
         /\ EndOfBlock(copied, n)
         /\ \E e \in 0..(Len(copied) - n) :
              /\ ElseBlock(copied, n, e)
              /\ lines' = lines \o (IF GetCond(Substitute(Head(copied), mv))
                                    THEN Gathered(copied, 1, n)
                                    ELSE Gathered(copied, n + 1, n + e))
              /\ copied' = After(copied, n + e)
    /\ UNCHANGED <<prog, pass, mv>>

ForeachBlock ==
    /\ At(5) /\ Head(copied).k = "foreach"
    /\ \E n \in DOMAIN copied :
         /\ EndOfBlock(copied, n)
         /\ lines' = lines \o ProcessForeach(Substitute(Head(copied), mv), Gathered(copied, 1, n))
         /\ copied' = After(copied, n)
    /\ UNCHANGED <<prog, pass, mv>>

OtherLine ==
    /\ At(5) /\ Head(copied).k \notin {"if", "foreach"}
    /\ lines' = Append(lines, Head(copied))
    /\ copied' = Tail(copied) /\ UNCHANGED <<prog, pass, mv>>

Next ==
    \/ NeedsProcessing \/ NextPass
    \/ SetPass \/ CallPass \/ SubstitutePass
    \/ ProcessIf \/ ForeachBlock \/ OtherLine

\* The constructor runs to its end.
Spec == Init /\ [][Next]_vars /\ WF_vars(Next)

(***************************************************************************)
(* What a configuration means when it is read from its first line to its   *)
(* last: m holds the variables set so far, and those of the loops around.  *)
(***************************************************************************)
RECURSIVE Flatten(_, _, _)
Flatten(s, m, files) ==
    IF s = <<>> THEN <<>>
    ELSE LET line == Substitute(Head(s), m)
             n == CHOOSE n \in DOMAIN s : EndOfBlock(s, n)
             e == CHOOSE e \in 0..(Len(s) - n) : ElseBlock(s, n, e)
             body == IF line.k = "foreach" \/ GetCond(line) THEN SubSeq(s, 2, n - 1)
                     ELSE SubSeq(s, n + 2, n + e - 1)
         IN  CASE line.k = "set" -> Flatten(Tail(s), ProcessSet(m, Head(s)), files)
               [] line.k = "call" -> Flatten(FileOf(Head(s), m, files) \o Tail(s), m, files)
               [] line.k = "if" -> Flatten(body \o After(s, n + e), m, files)
               [] line.k = "foreach" ->
                    FlattenSeq([i \in 1..(Len(line.w) - 1) |->
                                  Flatten(body, Bind(m, line.w[1].s, <<line.w[i + 1]>>), files)])
                      \o Flatten(After(s, n), m, files)
               [] line.k \notin Keywords -> <<line>> \o Flatten(Tail(s), m, files)

\* The lines of s with the called files in their place, and how deep each line is
\* in calls.
RECURSIVE Inlined(_, _, _)
Inlined(s, files, deep) ==
    FlattenSeq([i \in DOMAIN s |->
        IF s[i].k = "call" /\ ~ s[i].w[1].ref /\ s[i].w[1].s \in DOMAIN files
        THEN Inlined(files[s[i].w[1].s], files, deep + 1)
        ELSE <<[line |-> s[i], deep |-> deep]>>])

Mentions(line, name) == Reference(name) \in Range(line.w)

\* Configurations that mean the same in five passes as read in order: calls name
\* their file; a variable is set once, to something, before it is mentioned, not
\* in a block, and in the configuration itself or in a file it calls; and no loop
\* runs over the name of a variable or of another loop.
SetsOutsideBlocks(p) ==
    LET L == Inlined(p.main, p.files, 0)
        flat == [i \in DOMAIN L |-> L[i].line]
    IN  \A i \in DOMAIN L : flat[i].k = "set" =>
            Balanced(flat, i)
SetsBeforeUse(p) ==
    LET L == Inlined(p.main, p.files, 0)
        flat == [i \in DOMAIN L |-> L[i].line]
    IN  /\ \A i \in DOMAIN L : flat[i].k = "set" =>
             /\ L[i].deep <= 1 /\ ~ flat[i].w[1].ref /\ Len(flat[i].w) > 1
             /\ \A j \in 1..i : ~ Mentions(flat[j], flat[i].w[1].s)
        /\ \A i, j \in DOMAIN L :
             /\ flat[i].k = "set" /\ flat[j].k \in {"set", "foreach"} /\ i # j
                  => flat[i].w[1] # flat[j].w[1]
             /\ flat[i].k = "foreach" /\ flat[j].k = "foreach" /\ i # j
                  => flat[i].w[1] # flat[j].w[1]
        /\ \A i \in DOMAIN L : flat[i].k # "call"

(***************************************************************************)
(* Properties.                                                             *)
(***************************************************************************)
\* The passes end, and what they leave is what the configuration means when it is
\* read in order, if it keeps to the rules above.
FlattensAsRead ==
    <>(/\ pass = 6
       /\ SetsOutsideBlocks(prog) /\ SetsBeforeUse(prog) =>
            lines = Flatten(prog.main, <<>>, prog.files))

\* What src/README.md says of if: the lines of the branch that is not taken are
\* not included, a set among them neither.
ConditionalInclusion ==
    pass = 6 /\ SetsBeforeUse(prog)
             /\ (\A l \in Range(Inlined(prog.main, prog.files, 0)) : l.line.k # "foreach") =>
        lines = Flatten(prog.main, <<>>, prog.files)
=============================================================================
