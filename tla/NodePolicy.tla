----------------------------- MODULE NodePolicy -----------------------------
(***************************************************************************)
(* The policy file of a node: where it is found, who may own it, what it   *)
(* may say, how it is reloaded while requests run, and what a model root   *)
(* it names may lead to when it is used.  The hub's mirror of the          *)
(* validator (the editor's Validate button) is checked against the node's. *)
(*                                                                         *)
(* A path is the sequence of its names.  One symbolic link, `Link`, is on  *)
(* the machine; somebody may retarget it at any time.                      *)
(***************************************************************************)
EXTENDS Naturals, Sequences, FiniteSets, SequencesExt

CONSTANTS
  Docs,        \* policy documents an administrator puts in place
  Drafts,      \* documents somebody pastes into the editor
  Attrs,       \* what stat says of a file and its directory
  Threads,     \* handler threads of the node
  MaxWrites,   \* bound: how often a policy file is replaced or removed
  MaxRetargets \* bound: how often the link is retargeted

VARIABLES
  files,    \* per candidate path: the file there, or NoFile
  link,     \* what the symbolic link points to
  store,    \* PolicyStore: the policy in force and the identity it was read at
  due,      \* recheck_s passed since `checked`
  thread,   \* per thread: pc and what it holds
  writes, retargets

vars == <<files, link, store, due, thread, writes, retargets>>

Etc  == <<"etc", "ecnode", "policy.json">>
Home == <<"home", "u">>
User == Home \o <<".config", "ecnode", "policy.json">>
Link == <<"data", "link">>
Targets == {<<"data", "hf">>, <<>>, Home \o <<".config">>}
NoFile == [kind |-> "none"]

----------------------------------------------------------------------------
(* Paths.                                                                  *)

inside(child, root) == IsPrefix(root, child)

Real(p) == IF IsPrefix(Link, p) THEN link \o SubSeq(p, Len(Link) + 1, Len(p)) ELSE p

path_forms(p, follow) == IF follow THEN {p, Real(p)} ELSE {p}

Forbidden ==
  {<<>>} \cup {<<d>> : d \in {"etc", "home", "var", "usr", "tmp", "opt"}} \cup {<<"var", "lib">>}

(* What the node knows and the hub's mirror does not: its home directory,   *)
(* where the policy file is, and where links lead.                          *)
OnNode(path) == [home |-> {Home}, path |-> {path}, follow |-> TRUE]
OnHub == [home |-> {}, path |-> {}, follow |-> FALSE]

protected_dirs(who) ==
  {<<"etc", "ecnode">>} \cup {Front(p) : p \in who.path} \cup
  UNION {{h \o <<".ssh">>, h \o <<".config", "ecnode">>, h \o <<".local", "state", "ecnode">>} : h \in who.home}

too_broad(forms, who) ==
  forms \cap (Forbidden \cup UNION {path_forms(h, who.follow) : h \in who.home}) # {}

check_root_overlap(norm, who) ==
  LET forms == path_forms(norm, who.follow)
      homes == UNION {path_forms(h, who.follow) : h \in who.home}
      dirs  == UNION {path_forms(d, who.follow) : d \in protected_dirs(who)}
  IN  /\ ~ \E r \in forms, h \in homes : inside(h, r)
      /\ ~ \E r \in forms, d \in dirs : inside(r, d) \/ inside(d, r)

----------------------------------------------------------------------------
(* Documents.  `bad` holds the simple fields whose value is refused; roots  *)
(* and scripts are lists.  A result is "ok" or the first thing wrong.       *)

\* The simple fields of a policy, before and after its lists, in the order
\* they are looked at.
PolicyFields == <<"object", "keys", "version", "mode", "docker", "engine_images", "gateway_image",
                  "engine_network", "port_range", "discovery_ports">>
LimitFields == <<"external_control", "max_shm_gib", "allow_pull", "allow_delete", "allow_ipc_host">>

\* A document as it is decoded: a list of roots, and of scripts with actions.
RootType == [id : STRING, path : Seq(STRING), absolute : BOOLEAN, dots : BOOLEAN, bad : SUBSET STRING]
ActionType == [name : STRING, bad : SUBSET STRING]
ScriptType == [name : STRING, actions : Seq(ActionType), status : STRING, bad : SUBSET STRING]
DocType == [mode : STRING, roots : Seq(RootType), scripts : Seq(ScriptType), bad : SUBSET STRING]

\* What the documents and the files of the model may say.
PolicyConstants ==
  /\ Drafts \subseteq DocType
  /\ \A d \in Docs : d.mode \in {"monitor", "manage"} /\ d.bad \subseteq ToSet(PolicyFields) \cup ToSet(LimitFields)
  /\ \A d \in Docs : \A i \in DOMAIN d.roots : d.roots[i].path \in Seq(STRING)
  /\ \A a \in Attrs : a.kind \in {"file", "symlink"}
  /\ MaxWrites \in Nat

FirstBad(order, bad) == SelectInSeq(order, LAMBDA f : f \in bad)

Sections(order, bad) == IF FirstBad(order, bad) = 0 THEN "ok" ELSE order[FirstBad(order, bad)]

Then(a, b) == IF a # "ok" THEN a ELSE b

Earlier(list, i, name) == \E j \in 1..(i - 1) : list[j][name] = list[i][name]

FirstWrong(results) ==
  LET wrong == SelectInSeq(results, LAMBDA c : c # "ok")
  IN  IF wrong = 0 THEN "ok" ELSE results[wrong]

EachOf(list, Check(_)) == FirstWrong([i \in DOMAIN list |-> Check(i)])

root_path(r, who) ==
  IF ~r.absolute THEN "path"
  ELSE IF r.dots THEN "segments"
  ELSE IF too_broad(path_forms(r.path, who.follow), who) THEN "broad"
  ELSE IF ~check_root_overlap(r.path, who) THEN "overlap"
  ELSE "ok"

model_root(rs, i, who) ==
  Then(Sections(<<"object", "keys", "id">>, rs[i].bad),
  Then(IF Earlier(rs, i, "id") THEN "root.twice" ELSE "ok",
  Then(Sections(<<"kind">>, rs[i].bad),
  Then(root_path(rs[i], who), Sections(<<"writable", "label">>, rs[i].bad)))))

script_action(as, i) ==
  Then(Sections(<<"object", "keys", "name">>, as[i].bad),
  Then(IF Earlier(as, i, "name") THEN "action.twice" ELSE "ok",
       Sections(<<"argv", "program", "args", "label", "confirm", "danger">>, as[i].bad)))

script(ss, i) ==
  LET s == ss[i] IN
  Then(Sections(<<"object", "keys", "name">>, s.bad),
  Then(IF Earlier(ss, i, "name") THEN "script.twice" ELSE "ok",
  Then(Sections(<<"containers">>, s.bad),
  Then(EachOf(s.actions, LAMBDA j : script_action(s.actions, j)),
  Then(IF \A j \in DOMAIN s.actions : s.status \notin {"", s.actions[j].name} THEN
         (IF s.status = "" THEN "ok" ELSE "status_action") ELSE "ok",
       Sections(<<"timeout_s", "label", "engine", "description">>, s.bad))))))

(* policy.rs parse *)
parse(doc, who) ==
  Then(Sections(PolicyFields, doc.bad),
  Then(EachOf(doc.roots, LAMBDA i : model_root(doc.roots, i, who)),
  Then(EachOf(doc.scripts, LAMBDA i : script(doc.scripts, i)),
       Sections(LimitFields, doc.bad))))

(* policy_check.rs: the hub's own copy *)
mirror_root(rs, i) ==
  LET r == rs[i] IN
  IF r.bad \cap {"object", "keys", "id"} # {} THEN Sections(<<"object", "keys", "id">>, r.bad)
  ELSE IF \E j \in 1..(i - 1) : rs[j].id = r.id THEN "root.twice"
  ELSE IF "kind" \in r.bad THEN "kind"
  ELSE IF ~r.absolute THEN "path"
  ELSE IF r.dots THEN "segments"
  ELSE IF r.path \in Forbidden THEN "broad"
  ELSE IF inside(r.path, Front(Etc)) \/ inside(Front(Etc), r.path) THEN "overlap"
  ELSE Sections(<<"writable", "label">>, r.bad)

mirror_action(as, i) ==
  IF as[i].bad \cap {"object", "keys", "name"} # {} THEN Sections(<<"object", "keys", "name">>, as[i].bad)
  ELSE IF as[i].name \in {as[j].name : j \in 1..(i - 1)} THEN "action.twice"
  ELSE Sections(<<"argv", "program", "args", "label", "confirm", "danger">>, as[i].bad)

mirror_scriptLate(ss, i) ==
  IF ss[i].bad \cap {"object", "keys", "name", "containers", "timeout_s"} # {}
    THEN Sections(<<"object", "keys", "name", "containers", "timeout_s">>, ss[i].bad)
    ELSE EachOf(ss[i].actions, LAMBDA j : mirror_action(ss[i].actions, j))

mirror_script(ss, i) ==
  LET s == ss[i]
      action == EachOf(s.actions, LAMBDA j : mirror_action(s.actions, j))
  IN  IF s.bad \cap {"object", "keys", "name"} # {} THEN Sections(<<"object", "keys", "name">>, s.bad)
      ELSE IF s.name \in {ss[j].name : j \in 1..(i - 1)} THEN "script.twice"
      ELSE IF "containers" \in s.bad THEN "containers"
      ELSE IF action # "ok" THEN action
      ELSE IF s.status # "" /\ s.status \notin {s.actions[j].name : j \in DOMAIN s.actions} THEN "status_action"
      ELSE Sections(<<"timeout_s", "label", "engine", "description">>, s.bad)

check_policy(doc) ==
  Then(Sections(PolicyFields, doc.bad),
  Then(EachOf(doc.roots, LAMBDA i : mirror_root(doc.roots, i)),
  Then(EachOf(doc.scripts, LAMBDA i : mirror_script(doc.scripts, i)),
       Sections(LimitFields, doc.bad))))

----------------------------------------------------------------------------
(* Loading.                                                                *)

(* `read` is history: which file the policy was made from (0: none)        *)
monitor_policy(path, read) == [mode |-> "monitor", path |-> path, doc |-> [roots |-> <<>>], read |-> read]

candidate == IF files[Etc] # NoFile THEN Etc ELSE IF files[User] # NoFile THEN User ELSE <<>>

Stamp(path) == IF path = <<>> \/ files[path] = NoFile THEN 0 ELSE files[path].id

(* A file others could have written is not obeyed; /etc must be root's alone *)
file_problem(path, a) ==
  LET system == path = Etc
      mine(owner) == owner = "root" \/ (owner = "me" /\ ~system)
  IN  \/ a.type # "regular"
      \/ a.writable \in {"group", "world"}
      \/ ~mine(a.owner)
      \/ a.dir_writable \in (IF system THEN {"group", "world"} ELSE {"world"})
      \/ ~mine(a.dir_owner)

loadUnchecked(path) ==
  IF path = <<>> \/ files[path] = NoFile THEN monitor_policy(path, 0)
  ELSE LET f == files[path] IN [mode |-> f.doc.mode, path |-> path, doc |-> f.doc, read |-> f.id]

(* load_with after candidate and file_stamp: open without following, fstat, *)
(* the owner and the modes, read, decode, parse.                           *)
load(path) ==
  IF path = <<>> \/ files[path] = NoFile THEN monitor_policy(path, 0)
  ELSE LET f == files[path] IN
       IF f.kind # "file" \/ file_problem(path, f.attr) \/ parse(f.doc, OnNode(path)) # "ok"
         THEN monitor_policy(path, f.id)
         ELSE [mode |-> f.doc.mode, path |-> path, doc |-> f.doc, read |-> f.id]

Idle == [pc |-> "idle"]

Init ==
  /\ files = [p \in {Etc, User} |-> NoFile]
  /\ link = <<"data", "hf">>
  /\ store = [policy |-> monitor_policy(<<>>, 0), stamp |-> 0]
  /\ due = FALSE
  /\ thread = [t \in Threads |-> Idle]
  /\ writes = 0 /\ retargets = 0

(* The administrator puts a file in place or removes it.                   *)
Write ==
  /\ writes < MaxWrites
  /\ writes' = writes + 1
  /\ \E p \in {Etc, User} :
       \/ \E d \in Docs, a \in Attrs :
            files' = [files EXCEPT ![p] = [kind |-> a.kind, doc |-> d, attr |-> a, id |-> writes + 1]]
       \/ files[p] # NoFile /\ files' = [files EXCEPT ![p] = NoFile]
  /\ UNCHANGED <<link, store, due, thread, retargets>>

Retarget ==
  /\ retargets < MaxRetargets
  /\ retargets' = retargets + 1
  /\ link' \in Targets \ {link}
  /\ UNCHANGED <<files, store, due, thread, writes>>

(* recheck_s seconds pass                                                  *)
Elapse == ~due /\ due' = TRUE /\ UNCHANGED <<files, link, store, thread, writes, retargets>>

Set(t, r) == thread' = [thread EXCEPT ![t] = r]

(* PolicyStore::current, one action per critical section or look at the disk *)
Current(t) ==
  /\ thread[t].pc = "idle"
  /\ due' = FALSE
  /\ Set(t, [pc |-> IF due THEN "identity" ELSE "use"])
  /\ UNCHANGED <<files, link, store, writes, retargets>>

Identity(t) ==
  /\ thread[t].pc = "identity"
  /\ Set(t, [pc |-> "compare", path |-> candidate, stamp |-> Stamp(candidate)])
  /\ UNCHANGED <<files, link, store, due, writes, retargets>>

Compare(t) ==
  /\ thread[t].pc = "compare"
  /\ Set(t, [pc |-> IF thread[t].path = store.policy.path /\ thread[t].stamp = store.stamp
                      THEN "use" ELSE "load"])
  /\ UNCHANGED <<files, link, store, due, writes, retargets>>

LoadStamp(t) ==
  /\ thread[t].pc = "load"
  /\ Set(t, [pc |-> "read", path |-> candidate, stamp |-> Stamp(candidate)])
  /\ UNCHANGED <<files, link, store, due, writes, retargets>>

LoadRead(t) ==
  /\ thread[t].pc = "read"
  /\ Set(t, [pc |-> "publish", stamp |-> thread[t].stamp, policy |-> load(thread[t].path)])
  /\ UNCHANGED <<files, link, store, due, writes, retargets>>

PublishNow(t) ==
  /\ thread[t].pc = "publish"
  /\ store' = [policy |-> thread[t].policy, stamp |-> Stamp(thread[t].policy.path)]
  /\ Set(t, [pc |-> "use"])
  /\ UNCHANGED <<files, link, due, writes, retargets>>

Publish(t) ==
  /\ thread[t].pc = "publish"
  /\ store' = [policy |-> thread[t].policy, stamp |-> thread[t].stamp]
  /\ Set(t, [pc |-> "use"])
  /\ UNCHANGED <<files, link, due, writes, retargets>>

(* the policy is read under the lock; an operation resolves a root of it   *)
Use(t) ==
  /\ thread[t].pc = "use"
  /\ Set(t, [pc |-> "root", policy |-> store.policy])
  /\ UNCHANGED <<files, link, store, due, writes, retargets>>

(* confine.rs open_root with policy.rs recheck_root_real                   *)
recheck_broad(real, path) == ~too_broad({real}, OnNode(path))

recheck_root_real(real, path) ==
  /\ ~too_broad({real}, OnNode(path))
  /\ check_root_overlap(real, OnNode(path))

OpenRoot(t) ==
  /\ thread[t].pc = "root"
  /\ LET p == thread[t].policy IN
     \/ \E i \in DOMAIN p.doc.roots :
          LET real == Real(p.doc.roots[i].path) IN
          Set(t, IF recheck_root_real(real, p.path) THEN [pc |-> "granted", real |-> real] ELSE Idle)
     \/ p.doc.roots = <<>> /\ Set(t, Idle)
  /\ UNCHANGED <<files, link, store, due, writes, retargets>>

Done(t) ==
  /\ thread[t].pc = "granted"
  /\ Set(t, Idle)
  /\ UNCHANGED <<files, link, store, due, writes, retargets>>

Step(t) ==
  Current(t) \/ Identity(t) \/ Compare(t) \/ LoadStamp(t) \/ LoadRead(t) \/ Publish(t) \/ Use(t) \/ OpenRoot(t) \/ Done(t)

Next == Write \/ Retarget \/ Elapse \/ \E t \in Threads : Step(t)

\* Time passes and every thread runs (a thread always has a step, so this is
\* its weak fairness).
Fairness == WF_vars(Elapse) /\ \A t \in Threads : []<><<Step(t)>>_vars

Spec == Init /\ [][Next]_vars /\ Fairness

----------------------------------------------------------------------------
(* Properties.                                                             *)

(* A node in manage mode obeys a file that was acceptable when it was read: *)
(* regular, not writable or owned by others, every field valid.  Anything   *)
(* else runs in monitor mode, without roots.                                *)
TypeOK ==
  /\ files \in [{Etc, User} -> {NoFile} \cup [kind : {"file", "symlink"}, doc : Docs, attr : Attrs, id : 1..MaxWrites]]
  /\ link \in Targets
  /\ store.policy.mode \in {"monitor", "manage"} /\ store.stamp \in 0..MaxWrites
  /\ store.policy.mode = "manage" => store.policy.doc.bad = {}
  /\ due \in BOOLEAN
  /\ \A t \in Threads : thread[t].pc \in {"idle", "identity", "compare", "load", "read", "publish", "use", "root", "granted"}

(* Whatever the links on a root's path are made to point to, and however    *)
(* the policy changes, no operation is given a root from which the hub      *)
(* could reach a policy file, or the home directory that holds one: a hub   *)
(* that writes models never writes the rules it is bound by (audit F2).     *)
RootsHoldNoPolicy ==
  \A t \in Threads : thread[t].pc = "granted" =>
    LET r == thread[t].real IN
    ~inside(Home, r) /\ \A p \in {Etc, User} : ~inside(p, r) /\ ~inside(r, Front(p))

(* The editor's Validate answers what the node's own parse would answer on  *)
(* a machine of which nothing is known (no home, no policy path, no links), *)
(* and the node's answer is another only when the first thing it finds      *)
(* wrong is a root that is too broad or overlaps there, and is not without  *)
(* that knowledge.  The answers depend on the document and the link alone:  *)
(* they are compared before any write.                                     *)
OnlyNodeRefuses(r, who) ==
  LET found == root_path(r, who) IN found \in {"broad", "overlap"} /\ found # root_path(r, OnHub)
MirrorAgrees ==
  writes = 0 =>
  \A d \in Drafts :
    /\ check_policy(d) = parse(d, OnHub)
    /\ \A p \in {Etc, User} :
         LET node == parse(d, OnNode(p)) IN
         \/ node = check_policy(d)
         \/ \E i \in DOMAIN d.roots : OnlyNodeRefuses(d.roots[i], OnNode(p)) /\ node = root_path(d.roots[i], OnNode(p))

(* Once the files stay as they are, the policy in force becomes the one     *)
(* made from the file that is then on disk and stays it, whatever loads     *)
(* raced before: no thread publishes an older load over it for good.        *)
InForce == store.policy.path = candidate /\ store.policy.read = Stamp(candidate)
PolicyConverges == <>[]InForce
=============================================================================
