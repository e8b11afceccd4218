-------------------------- MODULE MCVideoDetectApi --------------------------
(***************************************************************************)
(* Three concurrent calls of the endpoint: two of one job and one of       *)
(* another job for the same video, object version and policy.              *)
(***************************************************************************)
EXTENDS VideoDetectApi, TLC

CONSTANTS j1, j2, k1, v1, r1, r2, r3

MCKeyOf == j1 :> k1 @@ j2 :> k1
MCVideoOf == j1 :> v1 @@ j2 :> v1
MCJobOf == r1 :> j1 @@ r2 :> j1 @@ r3 :> j2
=============================================================================
