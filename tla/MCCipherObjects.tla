--------------------------- MODULE MCCipherObjects ---------------------------
(* Instance of CipherObjects: two pairs, two objects, two keys. *)
EXTENDS CipherObjects, TLC

MCTypes == {{"cbc", "chacha20"}, {"chacha20"}, {}}
MCZeroSecrets == {{1}}
MCTextLens == {5, 31}

MCSymmetry == Permutations(Vars) \cup Permutations(Objs)
==============================================================================
