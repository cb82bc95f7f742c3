--------------------------- MODULE MCSocketStream ---------------------------
EXTENDS SocketStream
=============================================================================
