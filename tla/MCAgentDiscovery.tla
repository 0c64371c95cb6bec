-------------------------- MODULE MCAgentDiscovery --------------------------
EXTENDS AgentDiscovery
=============================================================================
