--------------------- MODULE MCZookeeperLatestJobWorker ---------------------
EXTENDS ZookeeperLatestJobWorker, TLC
CONSTANTS s1, s2, k1
\* s1 and s2 are two connections of one agent process.
KeyOfBoth == s1 :> k1 @@ s2 :> k1
=============================================================================
