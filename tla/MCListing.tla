----------------------------- MODULE MCListing -----------------------------
(* Small pages, so that a listing has several. *)
EXTENDS Listing
=============================================================================
