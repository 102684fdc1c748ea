---------------------------- MODULE MCWorkerDebug ----------------------------
EXTENDS WorkerDebug
=============================================================================
