-------------------------- MODULE MCThreadLifecycle -------------------------
(* Model of ThreadLifecycle: thread 1 copies to buffers twice, thread 0 not.  *)
EXTENDS ThreadLifecycle

MCMaxDmas == [t \in 0 .. 1 |-> 2 * t]
=============================================================================
