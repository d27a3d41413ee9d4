----------------------------- MODULE MCWebClient -----------------------------
(***************************************************************************)
(* Small instances of WebClient: pages of 6 bytes, so that the first page  *)
(* of a stash holds 2 and the others 5 of them.                            *)
(***************************************************************************)
EXTENDS WebClient

AllSketches == {"noipClient", "pachube", "stashTest"}
Hosts == {"get", "noip", "host"}
OneOrTwoPages == {<<65>>, <<66, 67, 68>>}
=============================================================================
