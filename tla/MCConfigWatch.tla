--------------------------- MODULE MCConfigWatch ---------------------------
(***************************************************************************)
(* An instance of ConfigWatch for TLC.                                     *)
(***************************************************************************)
EXTENDS ConfigWatch

MCCfg == <<1, 2, 3>>

=============================================================================
