---------------------------- MODULE MCDatagrams ----------------------------
EXTENDS Datagrams
============================================================================
