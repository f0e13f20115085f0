--------------------------- MODULE MCRenderProxy ---------------------------
(* A few operations of either mode on the way to the device.                *)
EXTENDS RenderProxy
=============================================================================
