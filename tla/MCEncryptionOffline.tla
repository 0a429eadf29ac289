------------------------ MODULE MCEncryptionOffline ------------------------
(***************************************************************************)
(* Instance of EncryptionOffline and TagSearch for TLC: programs that use  *)
(* the maps of the object and programs that search a ciphertext.  The      *)
(* search reads the ciphertext and nothing of the maps, so the operations  *)
(* on these are interleaved with the search of the empty ciphertext only.  *)
(***************************************************************************)
EXTENDS TagSearch

useMaps == in = <<>> /\ Next /\ UNCHANGED searchVars

MCNext == SearchNext \/ useMaps

MCSpec ==
  SearchInit /\ [][MCNext]_<<vars, searchVars>> /\ WF_<<vars, searchVars>>(SearchNext)
============================================================================
