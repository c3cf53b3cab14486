---------------------------- MODULE MCSqsConsumer ----------------------------
(* Triggers of each kind and two polls that take them in pairs. *)
EXTENDS SqsConsumer, TLC

CONSTANTS m1, m2, m3

OneOfEach ==
    (m1 :> "valid" @@ m2 :> "incomplete" @@ m3 :> "garbled")
=============================================================================
