-------------------------- MODULE MCRenderPipeline --------------------------
(* RenderPipeline for TLC: the rendering of any frame may fail. *)
EXTENDS RenderPipeline

AnyFrame == 0 .. Total - 1
=============================================================================
