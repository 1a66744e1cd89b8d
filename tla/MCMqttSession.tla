--------------------------- MODULE MCMqttSession ---------------------------
(* The MQTT session with a log queue of one entry and few actions. *)
EXTENDS MqttSession
=============================================================================
