---------------------------- MODULE MCFileStore ----------------------------
(* FileStore for TLC: neither the callers nor the blocks are told apart. *)
EXTENDS FileStore, TLC

Symmetry == Permutations(Client) \cup Permutations(Block)
=============================================================================
