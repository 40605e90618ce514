----------------------------- MODULE Placement ------------------------------
(* From the files on a machine to what an engine's container can read: the  *)
(* node lists its model roots, the hub folds the machines' lists into one   *)
(* library, finds the copy a machine would load, builds the run spec for it *)
(* and checks it, and the node checks it again before it starts the         *)
(* container. Meanwhile a machine's policy may be edited and a token may     *)
(* appear in its Hugging Face home, and the hub acts on what it last heard. *)
(*                                                                         *)
(* Left out: the order in which the library shows copies (any of the copies *)
(* it may choose is tried), GPUs other than how many, labels, and the       *)
(* lengths and characters of names, which both ends check alike but for     *)
(* what README.md says.                                                    *)
EXTENDS ModelFiles

CONSTANTS
  Hosts, Engines,
  Nfs,              \* [host -> set of mounts [mount |-> path, server |-> host, export |-> path]]
  Trees,            \* the file trees to begin with: [host -> set of files]
  Policies,         \* [host -> the policies it may have: [roots |-> records [id, path, kind], ipc |-> BOOLEAN]]
  TokenFile,        \* where a login puts its token: a path
  AnyCoordinates,   \* TRUE: a request may name a copy by another machine's root and path
  MaxEdits          \* bound on edits of policies and logins together

VARIABLES
  tree,      \* [host -> set of files]: its own disks
  policy,    \* [host -> the policy the node acts on]
  facts,     \* [host -> the policy the hub last heard of]
  listing,   \* [host -> the entries the hub last fetched]
  listed,    \* [host -> the policy that listing was made under]
  view,      \* the hub's library: the copies, each with the ways the machines reach it
  job,       \* the launch under way: its request, its spec, and how it ended
  edits

vars == <<tree, policy, facts, listing, listed, view, job, edits>>

MountDest == <<"model">>
HfHome == <<"hf">>
OllamaDest == <<"ollama", "models">>

(* What a machine sees: its disks, and what it imports. A link that leads   *)
(* out of the exported directory leads nowhere on the importing side.      *)
Nowhere == <<"nowhere">>
Moved(m, p) == IF IsStrictPrefix(m.export, p) THEN m.mount \o Below(m.export, p) ELSE Nowhere
Imported(h) ==
  UNION {{[f EXCEPT !.at = Moved(m, f.at), !.to = Moved(m, f.to)]
            : f \in {g \in tree[m.server] : IsStrictPrefix(m.export, g.at)}} : m \in Nfs[h]}
Sees(h) == tree[h] \cup Imported(h)

-----------------------------------------------------------------------------
(* The library.                                                            *)
RootsOf(h) == facts[h].roots
KindOf(h, id) == IF \E r \in RootsOf(h) : r.id = id THEN (CHOOSE r \in RootsOf(h) : r.id = id).kind ELSE "none"

(* A repository of quants is taken apart: each quant is a model of its own. *)
ExpandGguf(e) ==
  IF e.quants = {} THEN {e} ELSE {[e EXCEPT !.rel = e.rel \o q, !.quants = {}] : q \in e.quants}
MakeRec(h, r, e) ==
  [host |-> h, root |-> e.root, rel |-> e.rel, path |-> r.path \o e.rel,
   fmt |-> e.fmt, name |-> e.name, loadable |-> e.loadable]
RecsOf(h, fs, ls) ==
  UNION {{MakeRec(h, r, e) : e \in UNION {ExpandGguf(x) : x \in {y \in ls[h] : y.root = r.id}}} : r \in fs[h].roots}

(* A copy on an NFS mount is folded into the copy its server lists at the   *)
(* same place; it stays a copy of its own when the server lists none.      *)
MountsOf(r) == {m \in Nfs[r.host] : IsPrefix(m.mount, r.path)}
Exported(r, recs) ==
  {o \in recs : \E m \in MountsOf(r) : /\ o.host = m.server /\ o.path = m.export \o Below(m.mount, r.path)
                                        /\ MountsOf(o) = {}}
Rebuilt(fs, ls) ==
  LET recs == UNION {RecsOf(h, fs, ls) : h \in Hosts}
      target == [r \in recs |-> Exported(r, recs)]
  IN {[rec |-> r, aliases |-> {r} \cup {x \in recs : r \in target[x]}] : r \in {x \in recs : target[x] = {}}}
VisibleOn(v) == {a.host : a \in v.aliases}

NaturalKinds(fmt) == IF fmt = "hf" THEN {"hf-home", "hf-hub"} ELSE {fmt}
Rank(a, fmt) ==
  IF KindOf(a.host, a.root) \in NaturalKinds(fmt) THEN 0 ELSE IF KindOf(a.host, a.root) = "auto" THEN 1 ELSE 2

(* The copies a machine could load for a reference: by name, or by the      *)
(* machine's own root and path, or else by those of another machine whose   *)
(* copy this one reaches.                                                  *)
At_(a, ref) == a.root = ref.root /\ a.rel = ref.rel
Named(h, ref) ==
  IF ref.fmt \in {"hf", "ollama"}
    THEN {v \in view : v.rec.fmt = ref.fmt /\ v.rec.name = ref.name /\ v.rec.loadable}
    ELSE LET own == {v \in view : \E a \in v.aliases : a.host = h /\ At_(a, ref)}
         IN {v \in IF own # {} THEN own ELSE {k \in view : At_(k.rec, ref)} : v.rec.fmt = ref.fmt}
FindRec(h, ref) ==
  LET seen == {v \in Named(h, ref) : h \in VisibleOn(v)}
      mine == {v \in seen : v.rec.host = h}
  IN IF mine # {} THEN mine ELSE seen

(* The way a machine reaches a copy: the root a reference names, else the   *)
(* root whose kind naturally holds the format.                             *)
AliasFor(v, h, ref) ==
  LET here == {a \in v.aliases : a.host = h}
      asked == {a \in here : ref.fmt \in {"gguf", "plain"} /\ At_(a, ref)}
      best == {a \in here : \A b \in here : Rank(a, v.rec.fmt) <= Rank(b, v.rec.fmt)}
  IN IF asked # {} THEN asked ELSE best
Locate(h, ref) == UNION {AliasFor(v, h, ref) : v \in FindRec(h, ref)}

HoldsOllama(h, r) ==
  r.kind = "ollama" \/ (r.kind = "auto" /\ \E e \in listing[h] : e.root = r.id /\ e.fmt = "ollama")
OllamaRoots(h) == {r \in RootsOf(h) : HoldsOllama(h, r)}

-----------------------------------------------------------------------------
(* What each engine is started with for a model of format c.fmt: the path   *)
(* or name it is given (a hub model is found by its name in HF_HOME), its   *)
(* environment, and whether it wants the hub cache and the host's IPC. An   *)
(* engine that cannot load the format, or takes no API key, refuses.       *)
HubPath(c) == HfHome \o <<"hub">> \o c.name
HubEnv(c) == IF c.fmt = "plain" THEN {"HF_HUB_OFFLINE"} ELSE {"HF_HOME"}
HubModel(c) == IF c.fmt = "plain" THEN c.path ELSE HubPath(c)
Key(c, name) == IF c.key THEN {name} ELSE {}

Formats(engine) ==
  CASE engine = "llamacpp" -> {"gguf"} [] engine = "ollama" -> {"ollama"} [] OTHER -> {"hf", "plain"}
VllmLaunch(c) ==
  [keys |-> {TRUE, FALSE}, given |-> HubModel(c),
   env |-> HubEnv(c) \cup Key(c, "VLLM_API_KEY"), hf |-> c.fmt # "plain", ipc |-> TRUE]
SglangLaunch(c) ==
  [keys |-> {FALSE}, given |-> HubModel(c),
   env |-> HubEnv(c), hf |-> c.fmt # "plain", ipc |-> TRUE]
TrtllmLaunch(c) ==
  [keys |-> {FALSE}, given |-> HubModel(c),
   env |-> HubEnv(c) \cup {"HF_HUB_OFFLINE"}, hf |-> c.fmt # "plain", ipc |-> TRUE]
LlamacppLaunch(c) ==
  [keys |-> {TRUE, FALSE}, given |-> c.path,
   env |-> Key(c, "LLAMA_API_KEY"), hf |-> FALSE, ipc |-> FALSE]
OllamaLaunch(c) ==
  [keys |-> {FALSE}, given |-> OllamaDest,
   env |-> {"OLLAMA_MODELS"}, hf |-> FALSE, ipc |-> FALSE]
Launch(engine, c) ==
  CASE engine = "vllm" -> VllmLaunch(c) [] engine = "sglang" -> SglangLaunch(c) [] engine = "trtllm" -> TrtllmLaunch(c)
    [] engine = "llamacpp" -> LlamacppLaunch(c) [] OTHER -> OllamaLaunch(c)

(* The run spec: which folder of which root is mounted where.              *)
HfLayout(kind, rel) ==
  IF kind = "hf-hub" THEN "hub" ELSE IF kind = "hf-home" THEN "home"
  ELSE IF rel[1] \in Repos THEN "hub" ELSE "home"
WholeHome(root, kind, rel) == {[root |-> root, rel |-> <<>>, dest |-> HfHome]}  \* a mutant: mounts the home itself
HfMounts(root, kind, rel) ==
  {[root |-> root, rel |-> IF HfLayout(kind, rel) = "home" THEN <<"hub">> ELSE <<>>,
    dest |-> Append(HfHome, "hub")]}

(* A quant inside a hub repository is a link into its blobs: the whole      *)
(* repository is mounted, and the engine's path keeps the snapshot.        *)
NoSnapshots(rel) == {}  \* a mutant: every GGUF file is mounted by its own directory
SnapshotAt(rel) == {i \in 2 .. Len(rel) - 1 : rel[i] = "snapshots" /\ \A j \in 2 .. i - 1 : rel[j] # "snapshots"}
GgufMounts(ref) ==
  IF SnapshotAt(ref.rel) # {}
    THEN LET i == CHOOSE k \in SnapshotAt(ref.rel) : TRUE IN
      [mounts |-> {[root |-> ref.root, rel |-> SubSeq(ref.rel, 1, i - 1), dest |-> MountDest]},
       path |-> MountDest \o SubSeq(ref.rel, i, Len(ref.rel))]
    ELSE [mounts |-> {[root |-> ref.root, rel |-> Front(ref.rel), dest |-> MountDest]},
          path |-> Append(MountDest, Last(ref.rel))]

OllamaRel(root, rel) ==
  IF rel # <<>> /\ rel[1] = "manifests" THEN <<>>
  ELSE IF rel # <<>> /\ rel[1] = "models" THEN <<"models">>
  ELSE IF Last(root.path) = "models" THEN <<>> ELSE <<"models">>

ModelMounts(h, ref, copy) ==
  CASE ref.fmt = "gguf" -> GgufMounts(ref)
    [] ref.fmt = "plain" -> [mounts |-> {[root |-> ref.root, rel |-> ref.rel, dest |-> MountDest]}, path |-> MountDest]
    [] ref.fmt = "ollama" /\ OllamaRoots(h) # {} ->
         LET root == CHOOSE r \in OllamaRoots(h) : TRUE
         IN [mounts |-> {[root |-> root.id, rel |-> OllamaRel(root, copy.rel), dest |-> OllamaDest]}, path |-> OllamaDest]
    [] OTHER -> [mounts |-> {}, path |-> MountDest]

(* A variable whose name looks secret travels apart from the rest; engines  *)
(* are told to stay offline (engine_hf_offline, the default).              *)
LooksSecret == {"VLLM_API_KEY", "LLAMA_API_KEY"}
AllPlain(env) == [plain |-> env \cup {"HF_HUB_OFFLINE"}, secret |-> {}]  \* a mutant: the key travels with the rest
SplitEnv(env) ==
  [plain |-> (env \ LooksSecret) \cup {"HF_HUB_OFFLINE"}, secret |-> env \cap LooksSecret]

Context(h, ref, copy, key) ==
  [fmt |-> ref.fmt, name |-> copy.name, path |-> ModelMounts(h, ref, copy).path, key |-> key]
RunSpec(h, l, ref, copy, gpus) ==
  [mounts |-> ModelMounts(h, ref, copy).mounts
              \cup (IF l.hf THEN HfMounts(copy.root, KindOf(h, copy.root), copy.rel) ELSE {}),
   given |-> l.given, env |-> SplitEnv(l.env).plain, secret |-> SplitEnv(l.env).secret,
   ipc |-> l.ipc /\ gpus > 1 /\ facts[h].ipc]

-----------------------------------------------------------------------------
(* The node's own look at a spec.  What it and the hub (validate_run_spec)   *)
(* refuse for the form of a name, a port or a limit on a count or a length  *)
(* is left out: the model's specs are short and their names well formed.    *)
Source(h, m) == (CHOOSE r \in policy[h].roots : r.id = m.root).path \o m.rel
ModelTree(n) == n \in Repos \cup {"blobs", "snapshots", "refs"}
SecretNear(t, src) ==
  \/ Last(src) \in Secret
  \/ \E f \in t : \E d \in Len(src) + 1 .. Len(src) + 4 :
       /\ IsStrictPrefix(src, f.at) /\ d <= Len(f.at) /\ f.at[d] \in Secret
       /\ \A k \in Len(src) + 1 .. d - 1 : ~ModelTree(f.at[k])

MountRefusals(h, m) ==
  IF \A r \in policy[h].roots : r.id # m.root THEN {"root"}
  ELSE LET src == Source(h, m) IN
    (IF IsDir(Sees(h), src) \/ At(Sees(h), src) THEN {} ELSE {"missing"})
    \cup (IF SecretNear(Sees(h), src) THEN {"token"} ELSE {})
EnvRefusals(spec) ==
  IF spec.env \cap LooksSecret = {} /\ spec.secret \subseteq LooksSecret /\ spec.env \cap spec.secret = {}
    THEN {} ELSE {"env"}
IpcRefusals(h, spec) == IF spec.ipc /\ ~policy[h].ipc THEN {"ipc"} ELSE {}
Refusals(h, spec) ==
  UNION {MountRefusals(h, m) : m \in spec.mounts} \cup EnvRefusals(spec) \cup IpcRefusals(h, spec)

(* docker's -v: the source on the host, read-only, at the destination.     *)
Container(h, spec) == {[src |-> Source(h, m), dest |-> m.dest] : m \in spec.mounts}

-----------------------------------------------------------------------------
(* What a copy consists of, the directory it is counted from, and the same  *)
(* directory inside the container.                                         *)
StoreOf(copy) == SubSeq(copy.path, 1, (CHOOSE i \in DOMAIN copy.path : copy.path[i] = "manifests") - 1)
BaseOf(copy) ==
  CASE copy.fmt \in {"hf", "plain"} -> copy.path
    [] copy.fmt = "gguf" -> Front(copy.path)
    [] OTHER -> StoreOf(copy)
GivenBase(fmt, given) == IF fmt = "gguf" THEN Front(given) ELSE given
ContentOf(t, copy) ==
  LET p == copy.path
      under == {f \in t : IsPrefix(p, f.at)}
  IN CASE copy.fmt = "hf" -> {f.at : f \in SnapFiles(t, p, Revision(t, p), <<>>)}
       [] copy.fmt = "gguf" -> {f.at : f \in {g \in t : /\ Front(g.at) = Front(p) /\ Last(g.at) \in Ggufs
                                                        /\ Split[Last(g.at)].set = Split[Last(p)].set}}
       [] copy.fmt = "plain" -> {f.at : f \in under}
       [] OTHER -> {p} \cup {StoreOf(copy) \o <<"blobs", f.says>> : f \in under}

(* A path inside the container leads to content when a mount covers it and  *)
(* the file it leads to lies in that same mount.                           *)
Readable(t, mounts, p) ==
  \E m \in mounts : /\ IsPrefix(m.dest, p)
                    /\ \E f \in t : f.at = m.src \o Below(m.dest, p) /\ At(t, f.to) /\ IsPrefix(m.src, f.to)

-----------------------------------------------------------------------------
Idle == [phase |-> "idle"]

Scan(h, p) == UNION {ScanRoot(Sees(h), r) : r \in p.roots}

Init ==
  /\ tree \in Trees
  /\ policy \in [Hosts -> UNION {Policies[h] : h \in Hosts}] /\ \A h \in Hosts : policy[h] \in Policies[h]
  /\ facts = policy /\ listed = policy
  /\ listing = [h \in Hosts |-> Scan(h, policy[h])]
  /\ view = Rebuilt(facts, listing)
  /\ job = Idle /\ edits = 0

(* The admin edits a machine's policy and the node loads it. *)
Edit(h) ==
  /\ edits < MaxEdits /\ edits' = edits + 1
  /\ \E p \in Policies[h] \ {policy[h]} : policy' = [policy EXCEPT ![h] = p]
  /\ UNCHANGED <<tree, facts, listing, listed, view, job>>
(* Somebody logs in to the hub on that machine. *)
Login(h) ==
  /\ edits < MaxEdits /\ edits' = edits + 1
  /\ ~At(tree[h], TokenFile)
  /\ tree' = [tree EXCEPT ![h] = @ \cup {[at |-> TokenFile, to |-> TokenFile, says |-> ""]}]
  /\ UNCHANGED <<policy, facts, listing, listed, view, job>>
(* The node's push of its facts arrives; a fetch of its listing arrives:   *)
(* the library is folded anew (how that may lag is the module Library's).  *)
Hear(h) ==
  /\ facts[h] # policy[h]
  /\ facts' = [facts EXCEPT ![h] = policy[h]]
  /\ view' = Rebuilt(facts', listing)
  /\ UNCHANGED <<tree, policy, listing, listed, job, edits>>
Fetch(h) ==
  /\ listing' = [listing EXCEPT ![h] = Scan(h, policy[h])]
  /\ listed' = [listed EXCEPT ![h] = policy[h]]
  /\ <<listing', listed'>> # <<listing, listed>>
  /\ view' = Rebuilt(facts, listing')
  /\ UNCHANGED <<tree, policy, facts, job, edits>>

(* The models the library offers, each by the name or by the place under   *)
(* which machine h, or with AnyCoordinates any machine, reaches it.        *)
RefOf(a) ==
  IF a.fmt \in {"hf", "ollama"} THEN [fmt |-> a.fmt, name |-> a.name] ELSE [fmt |-> a.fmt, root |-> a.root, rel |-> a.rel]
Refs(h) ==
  {RefOf(a) : a \in {x \in UNION {v.aliases : v \in view} : x.fmt # "other" /\ (AnyCoordinates \/ x.host = h)}}

(* A launch is asked for: the hub builds and checks the spec, or refuses.  *)
Create(h, engine, ref, gpus, key) ==
  /\ ref.fmt \in Formats(engine)
  /\ \E copy \in Locate(h, ref) : LET l == Launch(engine, Context(h, ref, copy, key)) IN
       /\ key \in l.keys
       /\ job' = [phase |-> "built", host |-> h, fmt |-> ref.fmt, copy |-> copy, spec |-> RunSpec(h, l, ref, copy, gpus),
               under |-> IF listed[h] = facts[h] THEN {facts[h]} ELSE {}]
  /\ UNCHANGED <<tree, policy, facts, listing, listed, view, edits>>
(* docker.run reaches the node. *)
Run ==
  /\ job.phase = "built"
  /\ LET why == Refusals(job.host, job.spec) IN
       job' = IF why = {}
                THEN [phase |-> "running", host |-> job.host, fmt |-> job.fmt, copy |-> job.copy, under |-> job.under,
                      given |-> job.spec.given, mounts |-> Container(job.host, job.spec), env |-> job.spec.env]
                ELSE [phase |-> "refused", host |-> job.host, fmt |-> job.fmt, why |-> why,
                      fresh |-> policy[job.host] \in job.under]
  /\ UNCHANGED <<tree, policy, facts, listing, listed, view, edits>>

(* The engine is stopped, or the refusal read: the next launch may come. *)
Clear ==
  /\ job.phase \in {"running", "refused"} /\ job' = Idle
  /\ UNCHANGED <<tree, policy, facts, listing, listed, view, edits>>

Next ==
  \/ \E h \in Hosts : Edit(h) \/ Login(h) \/ Hear(h) \/ Fetch(h)
  \/ \E h \in Hosts : job.phase = "idle" /\ \E ref \in Refs(h), engine \in Engines, gpus \in 1 .. 2, key \in BOOLEAN :
        Create(h, engine, ref, gpus, key)
  \/ Run \/ Clear
Spec == Init /\ [][Next]_vars

-----------------------------------------------------------------------------
(* A running engine can read every file of the copy the library showed,     *)
(* under the path or the name it was given, unless the machine's roots were *)
(* edited on the way (model_mounts, hf_mounts, plan_run).                  *)
Reachable ==
  job.phase = "running" /\ policy[job.host] \in job.under
    => LET t == Sees(job.host) IN
         \A p \in ContentOf(t, job.copy) :
           Readable(t, job.mounts, GivenBase(job.fmt, job.given) \o Below(BaseOf(job.copy), p))

(* No engine that serves a hub model ever sees the token of the machine's   *)
(* Hugging Face home, also when the login comes after the launch: only the  *)
(* cache below the home is mounted (hf_mounts; runspec.rs "security review  *)
(* M5").                                                                   *)
TokenUnseen ==
  job.phase = "running" /\ job.fmt = "hf" => \A m \in job.mounts : ~IsPrefix(m.src, TokenFile)

(* What the hub builds the node accepts: a launch is refused only when the  *)
(* node's policy is not the one the hub built under, or, but never for a    *)
(* hub model, when a token lies next to the model (validate_run_spec and    *)
(* plan_run are two copies of the same rules).                             *)
NodeAgrees ==
  job.phase = "refused" /\ job.fresh => job.fmt # "hf" /\ job.why = {"token"}

(* Every file an engine's command names is readable at that path in its     *)
(* container, no engine sees a login's token, and what the hub sends is     *)
(* what the node accepts.                                                  *)
FilesReachable == Reachable /\ NodeAgrees /\ TokenUnseen
=============================================================================
