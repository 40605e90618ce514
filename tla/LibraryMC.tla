----------------------------- MODULE LibraryMC -----------------------------
(* `a` owns the disk, `b` mounts it over NFS: a fleet of both with one      *)
(* model; the same when both report one address, so that the server of the *)
(* mount names neither; and `a` alone with two models (two pages of        *)
(* models.list), of which one is in a cache that engines mount whole.      *)
EXTENDS Library
MCAddress == [a |-> {"10.0.0.1"}, b |-> {"10.0.0.2", "192.168.0.2"}]
MCShared == [a |-> {"10.0.0.1"}, b |-> {"10.0.0.1", "10.0.0.2"}]
MCServer == [a |-> "", b |-> "10.0.0.1"]
MCWorlds ==
  {[hosts |-> {"a", "b"}, models |-> {1}, address |-> MCAddress, cached |-> {}, events |-> 2],
   [hosts |-> {"a", "b"}, models |-> {1}, address |-> MCShared, cached |-> {1}, events |-> 1],
   [hosts |-> {"a"}, models |-> {1, 2}, address |-> MCAddress, cached |-> {1}, events |-> 2]}
=============================================================================
