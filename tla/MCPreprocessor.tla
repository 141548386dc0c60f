----------------------------- MODULE MCPreprocessor -----------------------------
(* Small sources: groups without headers, headers with little around them, *)
(* and comments and packing.                                               *)
EXTENDS Preprocessor

L(kind, arg) == [kind |-> kind, arg |-> arg, comment |-> "none"]
C(kind, arg, comment) == [kind |-> kind, arg |-> arg, comment |-> comment]
Cond(macro, want) == [macro |-> macro, want |-> want]
Named(name, quoted) == [via |-> <<>>, name |-> name, quoted |-> quoted]

text == L("text", <<>>)
if0 == L("if", Cond("N", TRUE))
if1 == L("if", Cond("N", FALSE))
elif0 == L("elif", Cond("N", TRUE))
elif1 == L("elif", Cond("N", FALSE))
else == L("else", <<>>)
endif == L("endif", <<>>)

(* One header can be reached as a/h, as a/./h and as b/../a/h.             *)
main == Path(<<"a">>, "m")
ha == Path(<<"a">>, "h")
haDot == Path(<<"a", ".">>, "h")
haUp == Path(<<"b", "..", "a">>, "h")
hb == Path(<<"b">>, "h")
paths == {main, ha, haDot, haUp, hb}
dirs == <<<<"a">>, <<"b">>, <<"b", "..", "a">>>>

UpTo(n, S) == UNION {[1..k -> S] : k \in 0..n}
Alone(texts) == {(main :> t) : t \in texts}

conditionals == {if0, if1, elif0, elif1, else, endif}
Groups == Alone({<<first>> \o rest : first \in {if0, if1}, rest \in UpTo(4, conditionals)})
            \union Alone(UpTo(3, {text, if0, elif0, else, endif}))

Guard(inner) == <<L("if", Cond("H", FALSE)), L("define", "H")>> \o inner \o <<endif>>
nexth == L("include_next", Named("h", FALSE))
HeadersA == {<<text>>, <<C("once", <<>>, "opens"), C("text", <<>>, "closes"), nexth>>, Guard(<<text, nexth>>), <<L("once", <<>>), text, nexth>>,
             <<text, L("include", Named("h", TRUE)), text>>, <<if1, text, nexth>>,
             <<L("line", [number |-> 2, name |-> hb]), nexth, text>>}
HeadersB == {<<text, L("define", "N")>>, <<L("once", <<>>), L("include", Named("h", FALSE)), text>>,
             Guard(<<L("include", Named("m", FALSE)), text>>), <<nexth>>}
dotted == L("include", [via |-> <<".">>, name |-> "h", quoted |-> TRUE])
Mains == UpTo(3, {L("include", Named("h", TRUE)), L("include", Named("h", FALSE)), nexth, dotted,
                  L("line", [number |-> 1, name |-> main]), L("undef", "H"), if0, else})
Headers == {main :> m @@ ha :> a @@ haDot :> a @@ haUp :> a @@ hb :> b :
               m \in Mains, a \in HeadersA, b \in HeadersB}

Comments == Alone(UpTo(3, {text, C("text", <<>>, "opens"), C("define", "N", "opens"),
                           C("text", <<>>, "closes"), C("endif", <<>>, "closes"), if0, L("error", <<>>)}))
Packs == Alone(UpTo(4, {text, L("pack", [op |-> "save"]), L("pack", [op |-> "pop"])}
                         \union {L("pack", [op |-> "set", n |-> n]) : n \in {1, 3}}
                         \union {L("pack", [op |-> "push", n |-> n]) : n \in {2, 3}}))

programs == Groups \union Headers \union Comments \union Packs
=============================================================================
