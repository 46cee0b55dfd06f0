----------------------------- MODULE MCRenderRun -----------------------------
(* RenderRun for TLC: any frame may fail, any kind of relay. *)
EXTENDS RenderRun

AnyFrame == 0 .. Total - 1
AnyRelay == {"none", "track", "progress"}
=============================================================================
