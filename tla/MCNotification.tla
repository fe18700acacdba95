--------------------------- MODULE MCNotification ---------------------------
(***************************************************************************)
(* Every alert provider, with two recipients where it has several.         *)
(***************************************************************************)
EXTENDS NotificationProperties

MCTypes == DOMAIN AlertProviders
MCAllFaults == {"refused", "lost", "garbled", "unwritten", "restart"}
=============================================================================
