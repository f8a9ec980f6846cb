----------------------------- MODULE MCStateStore -----------------------------
\* Instances of StateStore for TLC: the processes are model values, the records
\* numbers.
EXTENDS StateStore

=============================================================================
