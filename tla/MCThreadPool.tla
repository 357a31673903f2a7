---------------------------- MODULE MCThreadPool ----------------------------
\* The thread pool for TLC: the constants get their values in the .cfg files.
EXTENDS ThreadPool
=============================================================================
