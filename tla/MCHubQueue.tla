----------------------------- MODULE MCHubQueue -----------------------------
\* Small instances of HubQueue: its constants are model values in the configurations.
EXTENDS HubQueue

=============================================================================
