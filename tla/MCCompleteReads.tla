---------------------------- MODULE MCCompleteReads ----------------------------
EXTENDS CompleteReads
================================================================================
