----------------------------- MODULE MCWsClient -----------------------------
\* Small instances of WsClient: its constants are model values in the configurations.
EXTENDS WsClient

=============================================================================
