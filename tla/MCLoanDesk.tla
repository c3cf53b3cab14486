----------------------------- MODULE MCLoanDesk -----------------------------
(* An underwriter, two seniors and an admin; a condition the borrower owes. *)
EXTENDS LoanDesk, TLC

CONSTANTS uw, senior1, senior2, admin

AllRoles ==
    uw :> "underwriter" @@ senior1 :> "senior_uw" @@ senior2 :> "senior_uw" @@ admin :> "admin"

DeskRoles == [u \in Users |-> AllRoles[u]]

DeskAssignees == [c \in Conditions |-> "borrower"]
=============================================================================
