--------------------------- MODULE MCResolveState ---------------------------
(* Two terminals; up to three reductions in every order of the chain.      *)
EXTENDS ResolveState
MCTerms == 1 .. 2
MCRuleLengths == {<<1>>, <<2>>, <<0, 2>>, <<2, 1>>, <<2, 2>>, <<1, 2, 3>>, <<3, 2, 2>>, <<2, 3, 2>>}
=============================================================================
