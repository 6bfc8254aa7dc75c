------------------------------- MODULE MCVfs --------------------------------
EXTENDS Vfs, TLC
MCFsList == {"tmpfs"}
MCNames == {"tmpfs", "other"}    \* a file system and a name that is none
Symmetry == Permutations(Objects)
=============================================================================
