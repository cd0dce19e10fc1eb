------------------------------ MODULE MCLogger ------------------------------
\* Small instances of Logger: its constants are model values in the configuration.
EXTENDS Logger

=============================================================================
