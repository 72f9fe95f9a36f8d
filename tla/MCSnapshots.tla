------------------------------ MODULE MCSnapshots ------------------------------
EXTENDS Snapshots
=============================================================================
