---------------------------- MODULE MCHeavyExport ----------------------------
\* Three exports over one slot and one place in the queue, and two downloads.
EXTENDS HeavyExport

=============================================================================
