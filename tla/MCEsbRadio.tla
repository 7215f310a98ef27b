----------------------------- MODULE MCEsbRadio -----------------------------
(***************************************************************************)
(* Model checking of the radio's life: pairing, its reset by the user, the *)
(* writer's recovery and the clock, with a receiver that is found and one  *)
(* that is given by the user.                                              *)
(***************************************************************************)
EXTENDS EsbRadio
=============================================================================
