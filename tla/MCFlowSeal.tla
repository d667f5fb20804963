----------------------------- MODULE MCFlowSeal -----------------------------
(***************************************************************************)
(* Instances of FlowSeal for TLC, and the plausible slips its properties   *)
(* must notice.                                                            *)
(***************************************************************************)
EXTENDS FlowSeal
=============================================================================
