------------------------ MODULE MCDirectoryPublication ------------------------
(* An instance of DirectoryPublication; the model files are interchangeable.*)
EXTENDS DirectoryPublication, TLC

Symmetry == Permutations(Files)
=============================================================================
