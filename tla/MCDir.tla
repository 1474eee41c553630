-------------------------------- MODULE MCDir --------------------------------
(* Small instances of Dir; the names of files are interchangeable.           *)
EXTENDS Dir, TLC

NameSymmetry == Permutations(FileNames)
=============================================================================
