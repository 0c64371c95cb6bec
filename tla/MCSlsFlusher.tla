---------------------------- MODULE MCSlsFlusher ----------------------------
EXTENDS SlsFlusher
MCEndpoints == 1 .. 2
MCChunkLogs == <<1, 2>>
MCSplitByType == {2}
MCAgentType == <<"claude", "cursor">>
=============================================================================
