---------------------------- MODULE MCPipeline ----------------------------
(***************************************************************************)
(* A small instance of the stages of one run: a verified document that only *)
(* the CMO may read, so that the same number means another document to the  *)
(* other agents, and an unverified one.                                     *)
(***************************************************************************)
EXTENDS StagePipeline, TLC

CONSTANTS dv, du, url1

TwoDocuments == <<dv, du>>
OnePage == <<url1>>
VerifiedForCmo ==
  (dv :> {"CMO"}) @@ (du :> {"CMO", "INTELLIGENCE", "CREATIVE", "PERFORMANCE", "CONTENT"})
=============================================================================
