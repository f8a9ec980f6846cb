------------------------------ MODULE MCGuardian ------------------------------
\* Instances of Guardian for TLC: requests, callers and contents are model
\* values.
EXTENDS Guardian

=============================================================================
