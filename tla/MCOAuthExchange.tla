--------------------------- MODULE MCOAuthExchange ---------------------------
(***************************************************************************)
(* OAuthServer with two requests over two codes: one user, one store, the  *)
(* exchanges of a code and the sweeper in every order.                     *)
(***************************************************************************)
EXTENDS OAuthServer, TLC

CONSTANTS alice, pw, console, cli, uri, ch, v1, v2, hush

mcUsers == {alice}
mcPasswords == {pw}
mcSecrets == {hush, NoSecret}
mcClientObjects == {[secret |-> hush, redirectURIs |-> {uri}]}
mcPrefixOf == {<<uri, uri>>}
mcMatching == {<<v1, ch>>}
mcBootStore == <<[username |-> alice, password |-> pw]>>
mcStores == {mcBootStore}
mcSymmetry == Permutations(Reqs) \cup Permutations(CodeIds) \cup Permutations(TokenIds)
==============================================================================
