----------------------------- MODULE MCDaytime -----------------------------
EXTENDS Daytime
============================================================================
