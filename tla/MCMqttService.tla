--------------------------- MODULE MCMqttService ---------------------------
(* Small instances of MqttService for TLC.                                  *)
EXTENDS MqttService, TLC
=============================================================================
