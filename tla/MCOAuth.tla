------------------------------- MODULE MCOAuth -------------------------------
(***************************************************************************)
(* OAuthServer with one user, who is in one store and not in the other,    *)
(* one public client and no PKCE: for the runs about the htpasswd Secret,  *)
(* the lock of the user store, and byoidc mode.                            *)
(***************************************************************************)
EXTENDS OAuthServer, TLC

CONSTANTS alice, pw, console, uri

mcUsers == {alice}
mcPasswords == {pw}
mcClientObjects == {[secret |-> NoSecret, redirectURIs |-> {uri}]}
mcPrefixOf == {<<uri, uri>>}
mcBootStore == <<[username |-> alice, password |-> pw]>>
mcStores == {mcBootStore, << >>}
mcSymmetry == Permutations(Reqs) \cup Permutations(CodeIds)
==============================================================================
