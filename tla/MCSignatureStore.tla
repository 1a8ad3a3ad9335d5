-------------------------- MODULE MCSignatureStore --------------------------
(***************************************************************************)
(* Small stores.  Scans, contents, versions of ffmpeg and names of         *)
(* generations are interchangeable: no definition tells one from another.  *)
(***************************************************************************)
EXTENDS SignatureStore, TLC

Symmetry ==
  Permutations(Proc) \cup Permutations(Content) \cup Permutations(Tool) \cup Permutations(Gen)
=============================================================================
