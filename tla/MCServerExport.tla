--------------------------- MODULE MCServerExport ---------------------------
(* Small instances of ServerExport for TLC.                                *)
EXTENDS ServerExport
=============================================================================
