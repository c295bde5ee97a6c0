-------------------------------- MODULE Store --------------------------------
(***************************************************************************)
(* What the modules share about documents: get_document answers None for a *)
(* document that is not there (backend/db/persistence.py). None is a value *)
(* of its own, never a document.                                           *)
(***************************************************************************)
CONSTANT None
=============================================================================
