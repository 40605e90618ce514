---------------------------- MODULE NodePolicyMC ----------------------------
(* Documents for the model checker: a good one, and ones with one or two    *)
(* things wrong, over a few roots and scripts.                             *)
EXTENDS Sequences

LinkPath == <<"data", "link">>
HomeDir == <<"home", "u">>

Root(id, path) == [id |-> id, path |-> path, absolute |-> TRUE, dots |-> FALSE, bad |-> {}]
Doc(mode, rs, ss, bad) == [mode |-> mode, roots |-> rs, scripts |-> ss, bad |-> bad]
Action(n, bad) == [name |-> n, bad |-> bad]
Script(n, as, status, bad) == [name |-> n, actions |-> as, status |-> status, bad |-> bad]

Hf == <<"data", "hf">>
MCDocs == {Doc("manage", <<Root("r", LinkPath)>>, <<>>, {}), Doc("manage", <<>>, <<>>, {"max_shm_gib"})}

Good == [kind |-> "file", type |-> "regular", writable |-> "none", owner |-> "root", dir_writable |-> "none", dir_owner |-> "root"]
MCAttrs == {Good, [Good EXCEPT !.owner = "me", !.dir_writable = "group"]}

MCDrafts ==
  {Doc("manage", <<Root("r", p)>>, <<>>, {}) :
     p \in {Hf, LinkPath, <<"data">>, <<"etc", "ecnode", "x">>, HomeDir, HomeDir \o <<".ssh">>, <<"etc">>}}
  \cup {Doc("manage", <<>>, <<>>, b) : b \in {{}, {"mode"}, {"version", "port_range"}, {"max_shm_gib"}}}
  \cup {Doc("monitor", <<Root("r", Hf), Root("r", <<"etc">>)>>, <<>>, {"allow_pull"}),
        Doc("manage", <<[Root("r", Hf) EXCEPT !.bad = {"label"}]>>, <<>>, {}),
        Doc("manage", <<[Root("r", HomeDir) EXCEPT !.bad = {"label"}], Root("r", Hf)>>, <<>>, {"allow_pull"}),
        Doc("manage", <<Root("a", Hf), Root("b", LinkPath), Root("a", HomeDir)>>, <<>>, {}),
        Doc("manage", <<[Root("r", <<"etc", "ecnode">>) EXCEPT !.bad = {"writable"}]>>, <<>>, {}),
        Doc("manage", <<[Root("r", Hf) EXCEPT !.dots = TRUE, !.bad = {"kind"}]>>, <<>>, {}),
        Doc("manage", <<>>, <<Script("s", <<Action("up", {})>>, "up", {})>>, {}),
        Doc("manage", <<>>, <<Script("s", <<Action("up", {})>>, "down", {"timeout_s"})>>, {}),
        Doc("manage", <<>>, <<Script("s", <<Action("up", {}), Action("up", {"argv"})>>, "", {"containers"})>>, {}),
        Doc("manage", <<>>, <<Script("s", <<>>, "", {}), Script("s", <<Action("a", {"args"})>>, "", {})>>, {}),
        Doc("manage", <<Root("a", Hf)>>, <<Script("s", <<Action("a", {"program", "args"})>>, "", {})>>, {"allow_delete"})}
=============================================================================
