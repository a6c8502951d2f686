--------------------------- MODULE MCPrintQueue ---------------------------
EXTENDS PrintQueue
===========================================================================
