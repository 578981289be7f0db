------------------------------ MODULE MCOutbox ------------------------------
(***************************************************************************)
(* One reminder and one notification of an audited action; the timer and   *)
(* one administrator scan; two attempts stand for the five of the code.    *)
(***************************************************************************)
EXTENDS Outbox

CONSTANTS reminder, notice, timer, admin, none
=============================================================================
