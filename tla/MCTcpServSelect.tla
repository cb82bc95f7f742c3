--------------------------- MODULE MCTcpServSelect --------------------------
EXTENDS TcpServSelect

============================================================================
