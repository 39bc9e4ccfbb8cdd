----------------------------- MODULE MCIndicators -----------------------------
(***************************************************************************)
(* Two clients, a prompt and a notice.                                     *)
(***************************************************************************)
EXTENDS IndicatorsProps

CONSTANTS mainApplication, inputLogic, prompt, notice, default
=============================================================================
