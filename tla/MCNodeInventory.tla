-------------------------- MODULE MCNodeInventory ---------------------------
(* The instance of NodeInventory for TLC.                                  *)
EXTENDS NodeInventory

A100    == [type |-> "gpu", model |-> "a100", count |-> 1]
Untyped == [type |-> "gpu", model |-> "", count |-> 1]
Shards  == [type |-> "shard", model |-> "a100", count |-> 4]

\* Three nodes.  Two may look alike in the partition they share: one lists its
\* features in another order and is in a second partition.  The third is in a
\* hidden partition only and has GPUs of two kinds.
Cluster ==
  [n1 |-> [parts |-> {"cpu"}, features |-> <<"ib", "avx">>, cpus |-> 2, gres |-> <<A100>>],
   n2 |-> [parts |-> {"cpu", "debug"}, features |-> <<"avx", "ib">>, cpus |-> 4, gres |-> <<A100>>],
   n3 |-> [parts |-> {"test"}, features |-> <<"ib">>, cpus |-> 2,
           gres |-> <<A100, Untyped, Shards>>]]

\* Of a node that is listed and one that is not.
Both == {{"n1", "n3"}}
=============================================================================
