----------------------------- MODULE MCOrderDesk -----------------------------
(***************************************************************************)
(* Two customers that place orders, and a reader that asks for the record  *)
(* of one of them.                                                         *)
(***************************************************************************)
EXTENDS OrderDesk

MCReadList == <<1>>
=============================================================================
