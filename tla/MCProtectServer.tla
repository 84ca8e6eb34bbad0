--------------------------- MODULE MCProtectServer ---------------------------
(* Two processes can be two plugins, a plugin and one it forked, or        *)
(* strangers; from a forked one the walk reaches the core in its last      *)
(* iteration.  Descriptors for two connections and one socket more, so     *)
(* that both Accept and a message can find the table full.                 *)
EXTENDS ProtectServer
=============================================================================
