--------------------------- MODULE MCPbftService ---------------------------
EXTENDS MCPbft, PbftService
=============================================================================
