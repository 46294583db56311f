---------------------------- MODULE MCThreadPool ----------------------------
(* Small instances of ThreadPool: the constants are in the configurations.  *)
EXTENDS ThreadPool
=============================================================================
