------------------------ MODULE MCMonitoringClient ------------------------
(***************************************************************************)
(* Small instances of MonitoringClient, with the surfaces that show it.    *)
(***************************************************************************)
EXTENDS MonitoringViews
=============================================================================
