------------------------------ MODULE MCXERC20 ------------------------------
(* A small instance of XERC20 for TLC. *)
EXTENDS XERC20

CONSTANTS adapter, none

WatchMint == <<"mint", adapter>>
=============================================================================
