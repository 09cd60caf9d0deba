--------------------------- MODULE MCWorkGraphBoard ---------------------------
(***************************************************************************)
(* Instances of WorkGraphBoard: two updates of one board, one of which     *)
(* takes any course that its proposer and the Parent may give it while the *)
(* other is approved, one name for the journals, an edit and a kill.       *)
(***************************************************************************)
EXTENDS WorkGraphBoard, TLC

CONSTANTS u1, u2

Approval == {<<"proposed", "none">>, <<"reviewed", "approve">>}
MCByHand == u1 :> Approval \cup {<<"reviewed", "reject">>, <<"rejected", "reject">>,
                                 <<"applied", "approve">>, <<"reconciled", "approve">>,
                                 <<"superseded", "supersede">>} @@
            u2 :> Approval
===============================================================================
