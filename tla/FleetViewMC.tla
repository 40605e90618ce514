----------------------------- MODULE FleetViewMC -----------------------------
(* Two machines with a docker bridge of one address; b mounts a's models,   *)
(* or the export of a machine that is no host, over NFS or CIFS.  One root  *)
(* of b leads through the mount, one is a link into it, one a link out of   *)
(* it and one a link to another place in it.                                *)
M(at, server, export) == [at |-> at, fs |-> "nfs", server |-> server, export |-> export]
MCOrder == <<"a", "b">>
Disk == [M(<<>>, "none", <<>>) EXCEPT !.fs = "ext4"]
Cifs == [M(<<"mnt">>, "10.0.0.1", <<"srv">>) EXCEPT !.fs = "cifs"]
MCAddress == [a |-> {"10.0.0.1", "172.17.0.1"}, b |-> {"10.0.0.2", "172.17.0.1"}]
MCMounts == [a |-> {{Disk}},
             b |-> {{Disk, Cifs}, {Disk, M(<<"mnt">>, "10.0.0.1", <<"srv", "models">>)}, {Disk, M(<<"mnt">>, "172.17.0.1", <<"srv">>)},
                    {Disk, M(<<"mnt">>, "10.0.0.1", <<"srv">>), M(<<"mnt", "models">>, "10.0.0.9", <<"x">>)}}]
Root(id, path, real) == [id |-> id, path |-> path, real |-> real]
MCRoots == [a |-> {Root("m", <<"srv", "models">>, <<"srv", "models">>)},
            b |-> {Root("n", <<"mnt", "models">>, <<"mnt", "models">>), Root("l", <<"data">>, <<"mnt", "models">>),
                   Root("o", <<"mnt", "models", "o">>, <<"data">>), Root("i", <<"mnt", "models", "x">>, <<"mnt", "y">>)}]
==============================================================================
