------------------------------- MODULE MCTunnel -------------------------------
(***************************************************************************)
(* The instance of Tunnel that TLC checks; MCTunnel.cfg has its bounds.    *)
(***************************************************************************)
EXTENDS Tunnel
===============================================================================
