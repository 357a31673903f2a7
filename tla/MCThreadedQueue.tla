--------------------------- MODULE MCThreadedQueue ---------------------------
\* The queue for TLC: the constants get their values in the .cfg files.
EXTENDS ThreadedQueue
=============================================================================
