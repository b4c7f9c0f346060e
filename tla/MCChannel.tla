------------------------------ MODULE MCChannel ------------------------------
(***************************************************************************)
(* The contract on a small instance: one token, and two channels between   *)
(* one buyer and one seller, told apart by their salts.                    *)
(***************************************************************************)
EXTENDS AimiMicropayChannel
=============================================================================
