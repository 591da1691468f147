------------------------------ MODULE MCReviews ------------------------------
(***************************************************************************)
(* A small instance of Reviews for TLC.                                    *)
(***************************************************************************)
EXTENDS Reviews
=============================================================================
