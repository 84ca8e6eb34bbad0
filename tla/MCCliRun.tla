------------------------------ MODULE MCCliRun -------------------------------
(* The helper's reader and two plugins that fail; room for one signal, as  *)
(* upstream has.                                                           *)
EXTENDS CliRun, TLC

CONSTANTS d, p, q

MCReport == {d, p, q}
MCServiceOf == (d :> "dns") @@ (p :> "plugins") @@ (q :> "plugins")

=============================================================================
