------------------------- MODULE MCPipelineManager -------------------------
EXTENDS PipelineManager
CONSTANTS p, q
MCNames == {p, q}
=============================================================================
