-------------------------- MODULE MCRenderContext --------------------------
(***************************************************************************)
(* Two worlds with up to two surfaces, two lights with shadows, two crop   *)
(* windows of an image of three by three pixels in buckets of two by two.  *)
(***************************************************************************)
EXTENDS RenderContext

MCCrops == {[xMin |-> 0, yMin |-> 0, xMax |-> 3, yMax |-> 3],
            [xMin |-> 1, yMin |-> 1, xMax |-> 3, yMax |-> 2]}

\* All drivers are there; the one with scanlines is missing; it has no methods and
\* there are no shadow maps.
Behind(scanlines, shadow) ==
  [e \in Drivers |-> IF e = "scanlines" THEN scanlines ELSE IF e = "shadow" THEN shadow ELSE "driver"]
MCFaults == {Behind("driver", "driver"), Behind("missing", "driver"), Behind("hollow", "missing")}
=============================================================================
