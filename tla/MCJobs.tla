------------------------------- MODULE MCJobs -------------------------------
(***************************************************************************)
(* Instances of Jobs for TLC.  Three scripts stand for the kinds the       *)
(* server has: sync_video saves on a stop and clears its flag as it        *)
(* starts, kinopub does neither, user is unguarded and runs without log    *)
(* capture.                                                                *)
(***************************************************************************)
EXTENDS Jobs

CONSTANTS sync_video, kinopub, user

MCSteps == <<sync_video, kinopub>>
MCOneStep == <<sync_video>>
=============================================================================
