---- MODULE MCSessionSettings ----
(***************************************************************************)
(* Values for the constants of SessionSettings: a setter is called with a  *)
(* value below every valid one, with the least valid one, and with another.*)
(***************************************************************************)
EXTENDS SessionSettings

MCValues == {-5, 0, 2}
==================================
