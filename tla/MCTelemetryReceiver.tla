------------------------ MODULE MCTelemetryReceiver ------------------------
EXTENDS TelemetryReceiver
============================================================================
