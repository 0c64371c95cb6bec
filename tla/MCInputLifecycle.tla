-------------------------- MODULE MCInputLifecycle --------------------------
EXTENDS InputLifecycle
=============================================================================
