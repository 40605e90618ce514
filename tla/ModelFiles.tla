----------------------------- MODULE ModelFiles -----------------------------
(* What a node's scan of a model root lists (ecnode/src/models.rs): one     *)
(* entry per model, found from the layout of the directories alone. A path  *)
(* is the sequence of its names. A tree is a set of files; a file says      *)
(* where its content really is ("to": itself, or what the link leads to)    *)
(* and, where the scanner reads it, what is in it ("says": the revision in  *)
(* refs/main, the blob in an ollama manifest). Directories are what lies    *)
(* above a file, so none is empty and none is a link. Sizes, times, headers *)
(* and the scan's time budget (module Library) are left out.                *)
EXTENDS Integers, Sequences, FiniteSets, SequencesExt

CONSTANTS
  Secret,      \* names that look like a key or a token
  Hidden,      \* names that begin with a dot
  Repos,       \* names that begin with "models--", one for each hub repository
  Split,       \* [gguf file name -> [set |-> its split set, or itself, idx |-> its number in it]]
  Projectors,  \* the gguf files that are a vision projector
  Weights      \* weight files other than gguf

Ggufs == DOMAIN Split

At(t, p) == \E f \in t : f.at = p
IsDir(t, p) == \E f \in t : IsStrictPrefix(p, f.at)
Below(p, q) == SubSeq(q, Len(p) + 1, Len(q))
Kids(t, p) == {f.at[Len(p) + 1] : f \in {g \in t : IsStrictPrefix(p, g.at)}}
Dirs(t, p) == {n \in Kids(t, p) : IsDir(t, Append(p, n))}

HiddenOrSecret(n) == n \in Hidden \cup Secret
Shown(rel) == \A i \in DOMAIN rel : ~HiddenOrSecret(rel[i])
(* A file counts when its content exists and lies inside the root. *)
Inside(t, f, root) == At(t, f.to) /\ IsPrefix(root, f.to)

(* "quants": the GGUF files of a hub repository that holds nothing else.   *)
Entry(r, rel, fmt, name) ==
  [root |-> r.id, rel |-> rel, fmt |-> fmt, name |-> name, loadable |-> TRUE, quants |-> {}]

-----------------------------------------------------------------------------
(* GGUF files: the shards of one set in one directory are one model, named  *)
(* by the first of them that is there.                                     *)
Groups(ps) == {{q \in ps : Front(q) = Front(p) /\ Split[Last(q)].set = Split[Last(p)].set} : p \in ps}
FirstOf(g) == CHOOSE p \in g : \A q \in g : Split[Last(p)].idx <= Split[Last(q)].idx

GgufEntry(r, g) == Entry(r, Below(r.path, FirstOf(g)), "gguf", <<Split[Last(FirstOf(g))].set>>)
ScanGguf(t, r) ==
  LET found == {f.at : f \in {g \in t : /\ IsStrictPrefix(r.path, g.at)
                                         /\ Len(g.at) - Len(r.path) <= 6
                                         /\ Last(g.at) \in Ggufs
                                         /\ Shown(Below(r.path, g.at))
                                         /\ Inside(t, g, r.path)}}
  IN {GgufEntry(r, g) : g \in Groups(found)}

(* A model folder holds a config.json and weights; the search does not go   *)
(* below one, nor more than three levels down.                             *)
IsModelDir(t, d) ==
  LET names == Kids(t, d) \ Secret IN "config.json" \in names /\ names \cap Weights # {}

PlainDirs(t, root) ==
  {d \in UNION {{SubSeq(f.at, 1, k) : k \in {i \in DOMAIN f.at : i - Len(root) \in 1 .. 3}}
                  : f \in {g \in t : IsStrictPrefix(root, g.at)}} :
     /\ IsDir(t, d) /\ Shown(Below(root, d)) /\ IsModelDir(t, d)
     /\ \A k \in Len(root) + 1 .. Len(d) - 1 : ~IsModelDir(t, SubSeq(d, 1, k))}

PlainEntry(r, d) == Entry(r, Below(r.path, d), "plain", <<Last(d)>>)
ScanPlain(t, r) ==
  LET ds == IF IsModelDir(t, r.path) THEN {r.path} ELSE PlainDirs(t, r.path)
  IN {PlainEntry(r, d) : d \in ds}

ScanOther(t, r) ==
  {Entry(r, <<n>>, "other", <<n>>) : n \in {m \in Dirs(t, r.path) : ~HiddenOrSecret(m)}}

-----------------------------------------------------------------------------
(* A hub repository shows the revision refs/main names when its snapshot is *)
(* there, else one of its snapshots ("the newest").                        *)
Snapshots(t, repo) == Dirs(t, Append(repo, "snapshots"))
Revision(t, repo) ==
  LET main == {f.says : f \in {g \in t : g.at = repo \o <<"refs", "main">>}} \cap Snapshots(t, repo)
  IN IF main # {} THEN CHOOSE c \in main : TRUE ELSE CHOOSE c \in Snapshots(t, repo) : TRUE

(* The files of a snapshot: a link into the repository's blobs, or to any   *)
(* other file inside the root; a link that leads nowhere is only a warning.*)
SnapFiles(t, repo, rev, root) ==
  LET snap == repo \o <<"snapshots", rev>> IN
    {f \in t : /\ IsStrictPrefix(snap, f.at) /\ Len(f.at) - Len(snap) <= 7
               /\ \A i \in Len(snap) + 1 .. Len(f.at) : f.at[i] \notin Secret
               /\ Inside(t, f, root)}

(* A repository of GGUF files alone is one entry with a list of its quants, *)
(* each by the first file of its set; vision projectors are not models.    *)
HfGguf(r, repo, ggufs) ==
  [Entry(r, Below(r.path, repo), "gguf", <<Last(repo)>>)
     EXCEPT !.quants = {Below(repo, FirstOf(g)) : g \in {x \in Groups({f.at : f \in ggufs}) : Last(FirstOf(x)) \notin Projectors}}]

HfRepo(t, r, repo) ==
  LET bare == {[Entry(r, Below(r.path, repo), "hf", <<Last(repo)>>) EXCEPT !.loadable = FALSE]}
      files == SnapFiles(t, repo, Revision(t, repo), r.path)
      ggufs == {f \in files : Last(f.at) \in Ggufs}
  IN IF Snapshots(t, repo) = {} THEN bare
     ELSE IF ggufs # {} /\ \A f \in files : Last(f.at) \notin Weights THEN {HfGguf(r, repo, ggufs)}
     ELSE {Entry(r, Below(r.path, repo), "hf", <<Last(repo)>>)}

ScanHf(t, r, base) ==
  LET dir == r.path \o base IN UNION {HfRepo(t, r, Append(dir, n)) : n \in Dirs(t, dir) \cap Repos}

(* A manifest lies at least three names below manifests/ and names its      *)
(* model by the last two.                                                  *)
OllamaName(p) == SubSeq(p, Len(p) - 1, Len(p))
OllamaEntry(r, f) == Entry(r, Below(r.path, f.at), "ollama", OllamaName(f.at))
ScanOllama(t, r, base) ==
  LET dir == r.path \o base \o <<"manifests">> IN
    {OllamaEntry(r, f) : f \in {g \in t : /\ IsStrictPrefix(dir, g.at) /\ g.to = g.at
                                         /\ Len(g.at) - Len(dir) \in 3 .. 6 /\ Shown(Below(dir, g.at))}}

-----------------------------------------------------------------------------
(* What a root of kind "auto" holds, from what is at its top.              *)
OllamaBase(t, root) == IF IsDir(t, root \o <<"models", "manifests">>) THEN <<"models">> ELSE <<>>
Detect(t, root) ==
  IF IsDir(t, Append(root, "hub")) THEN {"hf-home"}
  ELSE IF Kids(t, root) \cap Repos # {} THEN {"hf-hub"}
  ELSE IF IsDir(t, root \o <<"models", "manifests">>) \/ IsDir(t, Append(root, "manifests")) THEN {"ollama"}
  ELSE {"plain", "gguf"}

ScanKind(t, r, kind) ==
  CASE kind = "hf-home" -> ScanHf(t, r, <<"hub">>)
    [] kind = "hf-hub" -> ScanHf(t, r, <<>>)
    [] kind = "gguf" -> ScanGguf(t, r)
    [] kind = "plain" -> ScanPlain(t, r)
    [] kind = "ollama" -> ScanOllama(t, r, OllamaBase(t, r.path))
    [] OTHER -> ScanOther(t, r)

ScanRoot(t, r) ==
  IF ~IsDir(t, r.path) THEN {}
  ELSE UNION {ScanKind(t, r, k) : k \in IF r.kind = "auto" THEN Detect(t, r.path) ELSE {r.kind}}
=============================================================================
