-------------------------- MODULE MCPrefetchStream --------------------------
(* Small instances of PrefetchStream for TLC.                              *)
EXTENDS PrefetchStream

\* An empty file, and files whose last piece is full or not.
MCSizes == {0, 3, 6, 9}
\* A file longer than everything the stream may hold.
MCLongFile == {14}
=============================================================================
