--------------------------- MODULE MCCachedFilelike ---------------------------
(* Small instances of CachedFilelike for TLC.                              *)
EXTENDS CachedFilelike

\* Reads at both ends of the file, within a block, across blocks, of a whole cache.
MCReads == {<<0, 1>>, <<1, 3>>, <<4, 5>>, <<5, 7>>, <<8, 9>>}
=============================================================================
