----------------------------- MODULE MCPopover -----------------------------
(* Popover, with the sessions of AppSession under it, for TLC. *)
EXTENDS Popover
=============================================================================
