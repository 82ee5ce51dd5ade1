-------------------------- MODULE MappingBuffersMC --------------------------
(* Instances of MappingBuffers: the three products, two pixels to a fill. *)
EXTENDS MappingBuffers
=============================================================================
