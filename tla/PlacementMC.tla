---------------------------- MODULE PlacementMC -----------------------------
(* Two machines: "a" has the disks, "b" mounts a's /srv/models as /mnt and   *)
(* has a hub cache of its own.                                             *)
EXTENDS Placement

File(p) == [at |-> p, to |-> p, says |-> ""]
LinkTo(p, q) == [at |-> p, to |-> q, says |-> ""]
Says(p, s) == [at |-> p, to |-> p, says |-> s]

MCSplit == ("y-1.gguf" :> [set |-> "y", idx |-> 1])
           @@ ("y-2.gguf" :> [set |-> "y", idx |-> 2]) @@ ("mmproj.gguf" :> [set |-> "mmproj", idx |-> 1])

Blob == [f \in {"config.json", "w.safetensors", "y-1.gguf", "y-2.gguf", "mmproj.gguf"} |->
  CASE f = "config.json" -> "b0" [] f = "w.safetensors" -> "b1" [] f = "y-1.gguf" -> "b2" [] f = "y-2.gguf" -> "b3"
    [] OTHER -> "b4"]
Repo(dir, n, files) ==
  {Says(dir \o <<n, "refs", "main">>, "c1")}
  \cup UNION {{File(dir \o <<n, "blobs", Blob[f]>>),
               LinkTo(dir \o <<n, "snapshots", "c1", f>>, dir \o <<n, "blobs", Blob[f]>>)} : f \in files}

HfHomeDir == <<"srv", "hf">>
MCToken == HfHomeDir \o <<"token">>
Cache(home) == Repo(home \o <<"hub">>, "models--m", {"config.json", "w.safetensors"})
               \cup Repo(home \o <<"hub">>, "models--g", {"y-1.gguf", "y-2.gguf", "mmproj.gguf"})
Shared == {File(<<"srv", "models", "p", "config.json">>), File(<<"srv", "models", "p", "w.safetensors">>),
           File(<<"srv", "models", "q", "y-1.gguf">>), File(<<"srv", "models", "q", "y-2.gguf">>)}
          \cup Repo(<<"srv", "models", "hub">>, "models--n", {"config.json", "w.safetensors"})
          \cup Repo(<<"srv", "models", "hub">>, "models--k", {"y-1.gguf", "y-2.gguf"})
Store(dir) == {Says(dir \o <<"manifests", "reg", "lib", "l", "8b">>, "s1"), File(dir \o <<"blobs", "s1">>)}

OnA == Cache(HfHomeDir) \cup Shared \cup Store(<<"srv", "ollama", "models">>)
MCTrees == {[a |-> OnA, b |-> Cache(HfHomeDir)], [a |-> OnA, b |-> Store(<<"srv", "hf">>)]}

Root(id, path, kind) == [id |-> id, path |-> path, kind |-> kind]
Policy(roots, ipc) == [roots |-> roots, ipc |-> ipc]
RootsA(hf, gguf) ==
  {Root("hf", HfHomeDir, hf), Root("g", <<"srv", "models", "q">>, gguf), Root("p", <<"srv", "models">>, "plain"),
   Root("n", <<"srv", "models">>, "auto"), Root("o", <<"srv", "ollama">>, "ollama")}
RootsB(k) == {Root("hf", HfHomeDir, k), Root("g", <<"mnt">>, "gguf"), Root("n", <<"mnt">>, "auto")}
MCPolicies ==
  [a |-> {Policy(RootsA("hf-home", "gguf"), TRUE), Policy(RootsA("auto", "gguf"), FALSE)},
   b |-> {Policy(RootsB("auto"), TRUE), Policy(RootsB("auto") \ {Root("g", <<"mnt">>, "gguf")}, TRUE)}]
MCNfs == [a |-> {}, b |-> {[mount |-> <<"mnt">>, server |-> "a", export |-> <<"srv", "models">>]}]
MCHosts == {"a", "b"}
MCEngines == {"vllm", "llamacpp", "ollama"}
MCSecret == {"token"}
MCHidden == {}
MCRepos == {"models--m", "models--g", "models--n", "models--k"}
MCProjectors == {"mmproj.gguf"}
MCWeights == {"w.safetensors"}
=============================================================================
