---------------------------- MODULE MCRenderQueue ----------------------------
(* The instance of RenderQueue that TLC checks.                              *)
EXTENDS RenderQueue
=============================================================================
