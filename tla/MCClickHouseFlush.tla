-------------------------- MODULE MCClickHouseFlush --------------------------
(***************************************************************************)
(* Two results of one video, the second with a storage action the flush    *)
(* schema rejects, and a ban of that video.                                *)
(***************************************************************************)
EXTENDS ClickHouseFlush, TLC

CONSTANTS r1, r2, v1, x1

MCVideoOf == r1 :> v1 @@ r2 :> v1
MCBanOf == x1 :> v1
MCRejected == {<<"storage_actions", r2>>}
=============================================================================
