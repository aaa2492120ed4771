--------------------------- MODULE MCAgentBackup ---------------------------
EXTENDS AgentBackup

MCScenarios == {{"restart", "retention"}, {"restart", "stop"}, {"reconnect"}}
=============================================================================
