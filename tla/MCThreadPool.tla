---------------------------- MODULE MCThreadPool ----------------------------
(* The thread pool for TLC: with the default of one thread, with two that  *)
(* may not become more, and with one thread for each of two processors, of *)
(* which one is there from the start, and serialized.                      *)
EXTENDS ThreadPool

Pool(size, max, processors, serialize) ==
    [Size |-> size, SizeMax |-> max, nProcessors |-> processors, Serialize |-> serialize]

Pools == {Pool(0, 0, 2, FALSE), Pool(2, 1, 1, FALSE), Pool(1, -1, 2, TRUE)}
=============================================================================
