------------------------------ MODULE MCWebIoSync ------------------------------
(* Markers, commands and plan for the checks of WebIoSync.                       *)
EXTENDS WebIoSync
=============================================================================
