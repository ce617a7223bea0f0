--------------------------- MODULE MCNotification ---------------------------
(* An instance of Notification for TLC: one kind the backend refuses.  No    *)
(* symmetry: it would be unsound with the liveness property.                 *)
EXTENDS Notification
=============================================================================
