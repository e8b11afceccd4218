--------------------------- MODULE MCVideoPipeline ---------------------------
(***************************************************************************)
(* Instances of the pipeline.  The races instance sends two calls for one  *)
(* job and one for another job with the same key to two workers; the       *)
(* single instance sends one call for one job.                             *)
(***************************************************************************)
EXTENDS VideoPipeline, TLC

CONSTANTS j1, j2, k1, v1, r1, r2, r3, w1, w2

SameKey == j1 :> k1 @@ j2 :> k1
SameVideo == j1 :> v1 @@ j2 :> v1
RacingJobOf == r1 :> j1 @@ r2 :> j1 @@ r3 :> j2

OneKey == j1 :> k1
OneVideo == j1 :> v1
OneJobOf == r1 :> j1

\* Workers do the same, and so do the two requests for j1.
RacesSymmetry == Permutations(Workers) \cup Permutations({r1, r2})

\* A failing call or a crash, not both, and a failing call with at most two
\* messages.
OneTrouble == faults + crashes <= 1 /\ (faults = 1 => Len(stream) <= 2)
=============================================================================
