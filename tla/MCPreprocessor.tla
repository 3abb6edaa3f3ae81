--------------------------- MODULE MCPreprocessor ---------------------------
(***************************************************************************)
(* Configurations of up to three statements and two files, a and b.        *)
(* Statements set a variable, call a file, test a variable, loop over a    *)
(* list or over a variable, nest blocks, and write lines with references.  *)
(***************************************************************************)
EXTENDS Preprocessor

A == Literal("a")  B == Literal("b")  K == Literal("k")  U == Literal("u")
X == Reference("x")  Y == Reference("y")  T == Reference("t")  V == Reference("v")

Line(k, w) == [k |-> k, w |-> w]
Text(w) == <<Line("text", w)>>
Set(name, val) == <<Line("set", <<Literal(name)>> \o val)>>
Call(f) == <<Line("call", <<f>>)>>
Close == <<Line("close", <<>>)>>
If(w, p, s) == <<Line("if", <<w, p>>)>> \o s \o Close
IfElse(w, p, s, r) == If(w, p, s) \o <<Line("else", <<>>)>> \o r \o Close
Foreach(token, list, s) == <<Line("foreach", <<Literal(token)>> \o list)>> \o s \o Close

Statements == {
    <<>>, Text(<<X>>), Text(<<A, X>>),
    Set("x", <<U>>), Set("x", <<K, U>>), Set("y", <<X>>), Set("x", <<>>),
    Call(A), Call(B), Call(X),
    If(X, U, Call(B)),
    If(X, U, Set("y", <<K>>)),
    IfElse(X, U, Text(<<Y>>), Foreach("t", <<A, B>>, Text(<<T, X>>))),
    Foreach("t", <<X>>, Text(<<A, T>>)),
    Foreach("t", <<U, K>>, IfElse(T, U, Text(<<T>>), Text(<<B, Y>>))),
    Foreach("t", <<A, B>>, Foreach("v", <<T, K>>, Text(<<T, V>>)) \o Call(B)) }

FilesA == { <<>>, Set("x", <<U>>) \o Text(<<Y>>), Set("y", <<K>>),
            Call(B) \o If(Y, K, Text(<<B>>)) }
FilesB == { <<>>, Text(<<X, T>>), Set("y", <<K>>) }

First == { <<>>, Text(<<X>>), Set("x", <<U>>), Call(A) }

TheFiles == { f \in [{"a", "b"} -> FilesA \cup FilesB] : f["a"] \in FilesA /\ f["b"] \in FilesB }
ThePrograms == [main : {r \o s \o t : r \in First, s, t \in Statements}, files : TheFiles]
TheBegins == {<<"u", "u">>, <<"k", "k">>}
=============================================================================
