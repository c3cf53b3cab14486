--------------------------- MODULE MCExceptionDesk ---------------------------
(* One signal, a manager and an officer, and a file of each level. *)
EXTENDS ExceptionDesk, TLC

CONSTANTS manager, officer

Officers == (manager :> "uw_manager" @@ officer :> "senior_credit_officer")

Bare == [liquid |-> 0, piti |-> 20, ltv |-> 95, score |-> 640, floor |-> 0, tenure |-> 12,
         debts |-> 4, income |-> 10]

(* Five points are the ltv's; two more are reserves that round up to six   *)
(* months, and two a score 40 above the floor that applies.                *)
SampleFiles ==
    {Bare, [Bare EXCEPT !.ltv = 90], [Bare EXCEPT !.ltv = 80],
     [Bare EXCEPT !.ltv = 80, !.score = 680, !.floor = 640, !.liquid = 119]}
=============================================================================
