---------------------------- MODULE MCHumanReview ----------------------------
(* Overlapping runs of one decision and concurrent reviewers. *)
EXTENDS HumanReview
=============================================================================
