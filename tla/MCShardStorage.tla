--------------------------- MODULE MCShardStorage ---------------------------
(* Small instances of the durable shard.                                   *)
EXTENDS ShardStorage

OneKey == {CHOOSE k \in Keys : TRUE}

\* fsync mode losing power, batch mode losing power, fsync mode being killed,
\* and everything that can go wrong together.
MCSetups ==
    { [batch |-> FALSE, crashes |-> {"power"}, faults |-> {"dirsync"},
       keys |-> Keys, maxLog |-> 4],
      [batch |-> FALSE, crashes |-> {"power"}, faults |-> {"flush", "snapshot"},
       keys |-> Keys, maxLog |-> 3],
      [batch |-> TRUE, crashes |-> {"power"}, faults |-> {},
       keys |-> Keys, maxLog |-> 3],
      [batch |-> FALSE, crashes |-> {"kill"}, faults |-> {"flush", "snapshot"},
       keys |-> OneKey, maxLog |-> 3],
      [batch |-> FALSE, crashes |-> CrashKinds, faults |-> FaultKinds,
       keys |-> OneKey, maxLog |-> 2] }
=============================================================================
