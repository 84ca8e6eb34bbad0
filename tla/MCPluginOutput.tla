--------------------------- MODULE MCPluginOutput ----------------------------
(* A bound of three bytes leaves room for lines below, at and beyond it in *)
(* a stream of seven, cut into chunks of up to four.                       *)
EXTENDS PluginOutput
=============================================================================
