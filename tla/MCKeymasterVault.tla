--------------------------- MODULE MCKeymasterVault ---------------------------
(* Small vaults for TLC.                                                   *)
EXTENDS KeymasterVault, TLC

Interchangeable == Permutations(Names) \cup Permutations(Servers)
================================================================================
