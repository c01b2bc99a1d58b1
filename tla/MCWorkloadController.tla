------------------------ MODULE MCWorkloadController ------------------------
EXTENDS WorkloadController, TLC

CONSTANTS loose, tight, scale, wipe, op1, op2, alice, none, nobody

(* Under both policies scale is fine; wipe is what the packs look at: the  *)
(* loose policy asks a human, the tight one denies.  The tight policy also *)
(* asks a human for scale.                                                 *)
Clean == [inv |-> FALSE, packErr |-> FALSE, packDeny |-> FALSE, packApproval |-> FALSE, threshold |-> TRUE]

MCLayersOf ==
  (loose :> (scale :> Clean @@ wipe :> [Clean EXCEPT !.packApproval = TRUE]))
  @@ (tight :> (scale :> [Clean EXCEPT !.threshold = FALSE] @@ wipe :> [Clean EXCEPT !.packDeny = TRUE]))
MCPolicies == {loose, tight}
MCActions == {scale, wipe}
MCNone == {}
MCTight == {tight}
MCLoose == {loose}
MCOneOp == {op1}
MCTwoOps == {op1, op2}
MCUsers == {alice}
=============================================================================
