--------------------------- MODULE MCNotification ---------------------------
(* Instance of NotificationLifecycle for TLC.                              *)
EXTENDS NotificationLifecycle
=============================================================================
