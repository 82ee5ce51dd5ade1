------------------------------ MODULE ReadoutMC ------------------------------
(* Small boards: blocks of two words, spectra of one to three of them. *)
EXTENDS Readout

MCLengths == {1, 3}
=============================================================================
