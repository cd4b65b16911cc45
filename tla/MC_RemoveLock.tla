----------------------------- MODULE MC_RemoveLock -----------------------------
(***************************************************************************)
(* Three users of one remove lock: enough for a holder, a late acquirer    *)
(* and a third party between them while REMOVE drains.                     *)
(***************************************************************************)
EXTENDS RemoveLock
================================================================================
