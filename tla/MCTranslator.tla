----------------------------- MODULE MCTranslator -----------------------------
\* Two films of two and one line; service a comes first and refuses one line.
EXTENDS Translator

MCCuesOf == 1 :> 2 @@ 2 :> 1
MCChains == {<<"a", "b">>, <<"b">>, <<>>}
MCChain0 == <<"a", "b">>
MCRefuses == {<<"a", 1, 1>>, <<"b", 2, 1>>}
MCFits == "a" :> 1 @@ "b" :> 2
MCCool == <<1, 2>>
=============================================================================
