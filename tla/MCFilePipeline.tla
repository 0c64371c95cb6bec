--------------------------- MODULE MCFilePipeline ---------------------------
EXTENDS FilePipeline
MCInodes == 1 .. 2
=============================================================================
