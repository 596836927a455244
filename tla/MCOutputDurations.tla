-------------------------- MODULE MCOutputDurations --------------------------
EXTENDS OutputDurations, TLC
=============================================================================
