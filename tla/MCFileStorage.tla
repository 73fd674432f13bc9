--------------------------- MODULE MCFileStorage ---------------------------
(* An instance of FileStorage for TLC. *)
EXTENDS FileStorage, TLC

CONSTANTS logo, photo, images, a, b, x, y, z

\* One object in the root, one in a directory below it.
OneBelow == [p \in Path |-> IF p = logo THEN Root ELSE images]

Symmetry == Permutations(Call) \cup Permutations(Data)
=============================================================================
