--------------------------- MODULE MCCommandServer ---------------------------
(* Two threads are enough for one to act between two steps of another; of  *)
(* three hosts one is current, one being closed and one still reporting.   *)
EXTENDS CommandServer
=============================================================================
