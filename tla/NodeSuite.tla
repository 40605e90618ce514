------------------------------ MODULE NodeSuite ------------------------------
(* The node process: its link and life (NodeLink), and, model-checked in the *)
(* same run, its file operations (NodeFs), its policy file (NodePolicy) and *)
(* what it and the hub know of the containers (Inventory).                 *)
EXTENDS NodeLink, NodePolicyMC, InventoryMC
CONSTANTS
  Procs, Writers, Deleters, Versions, Size, Hashed, MaxLosses,    \* NodeFs
  Docs, Drafts, Attrs, Threads, MaxWrites, MaxRetargets,    \* NodePolicy
  Containers, About, Port, DiscoveryPorts, Instance, Answers, Changes    \* Inventory
VARIABLES
  part,  \* the component a behaviour is of
  data, synced, dir, disk, next, locks, wr, del, acked, losses    \* NodeFs

\* Uploads and deletes of one file.
Fs == INSTANCE NodeFs
File == INSTANCE AtomicFile WITH
    Published <- Fs!Verified, Absent <- <<>>, now <- Fs!Reading(dir), kept <- Fs!Reading(disk)
\* Handler threads, edits of the file and of the link to it.
Policy == INSTANCE NodePolicy WITH
    files <- state, link <- stopping, store <- wake, due <- backoff,
    thread <- pid, writes <- session, retargets <- writer
\* What docker, the ports and the policy may become.
Inv == INSTANCE Inventory WITH
    docker <- state, state <- stopping,
    answer <- wake, policy <- backoff, changes <- pid, inventory <- session, thread <- writer,
    sent <- pending, request <- sample, latest <- pc, row <- talk, died <- outcome

\* Two processes can break what NodeFs promises: flock is on the file, not its name.
OneNode == Procs # {} /\ \A p, q \in Procs : p = q
ASSUME SuiteAssumption ==
  LinkConstants /\ Fs!FsConstants /\ OneNode /\ Inv!InventoryConstants /\ Policy!PolicyConstants

fsVars == <<data, synced, dir, disk, next, locks, wr, del, acked, losses>>
suiteVars == <<part, vars, fsVars>>
SuiteInit ==
  /\ Fs!Init
  /\ \/ part \in {"link", "fs"} /\ Init
     \/ part = "policy" /\ Policy!Init /\ pending = "unused" /\ sample = "unused" /\ pc = "unused" /\ talk = "unused" /\ outcome = "unused" /\ rc = "unused" /\ timers = "unused" /\ stop = "unused" /\ proc = "unused" /\ faults = "unused"
     \/ part = "inventory" /\ Inv!Init /\ rc = "unused" /\ timers = "unused" /\ stop = "unused" /\ proc = "unused" /\ faults = "unused"
SuiteNext ==
  \/ part = "link" /\ Next /\ UNCHANGED <<part, fsVars>>
  \/ part = "fs" /\ Fs!Next /\ UNCHANGED <<part, vars>>
  \/ part = "policy" /\ Policy!Next /\ UNCHANGED <<part, pending, sample, pc, talk, outcome, rc, timers, stop, proc, faults, fsVars>>
  \/ part = "inventory" /\ Inv!Next /\ UNCHANGED <<part, rc, timers, stop, proc, faults, fsVars>>

\* The fairness each component states, while it is the one that runs.
SuiteFairness ==
  /\ WF_vars(part = "link" /\ RunTop) /\ WF_vars(part = "link" /\ Spawn) /\ WF_vars(part = "link" /\ Connected)
  /\ WF_vars(part = "link" /\ HelloTimeout) /\ WF_vars(part = "link" /\ Closed) /\ WF_vars(part = "link" /\ Silence)
  /\ WF_vars(part = "link" /\ CloseWriter) /\ WF_vars(part = "link" /\ FailPending) /\ WF_vars(part = "link" /\ Clear)
  /\ WF_vars(part = "link" /\ ReapKill) /\ WF_vars(part = "link" /\ Reap) /\ WF_vars(part = "link" /\ Drain) /\ WF_vars(part = "link" /\ Decide)
  /\ WF_vars(part = "link" /\ Wake)
  /\ \A s \in Sessions : WF_vars(part = "link" /\ ExitOnEof(s)) /\ WF_vars(part = "link" /\ GraceTimer(s))
  /\ \A r \in Requests : WF_vars(part = "link" /\ OnRes(r))
  /\ \A c \in Callers : WF_vars(part = "link" /\ ReconnectDrop(c))
  /\ WF_vars(part = "link" /\ StopJoined) /\ WF_vars(part = "link" /\ StopKill) /\ WF_vars(part = "link" /\ StopAbort)
  /\ WF_vars(part = "link" /\ StopFinish)
  /\ WF_(Policy!vars)(part = "policy" /\ Policy!Elapse) /\ \A t \in Threads : ([]<>(part # "policy") \/ []<><<Policy!Step(t)>>_(Policy!vars))
  /\ WF_(Inv!vars)(part = "inventory" /\ Inv!Loop)

SuiteSpec == SuiteInit /\ [][SuiteNext]_suiteVars /\ SuiteFairness

------------------------------------------------------------------------------
(* NodeLink: no accepted request waits on a session that is over, at most  *)
(* one node process runs and it is the current one, numbers are shown only *)
(* while the link is up, and a stopped link left nothing behind.           *)
SessionSafe == part = "link" => TypeOK /\ NobodyStranded /\ OneProcess /\ SampleIsLive /\ StoppedClean

(* NodeLink: once the faults are over the link comes up and stays up, or it *)
(* was stopped.                                                            *)
LinkComesBack == <>[](part = "link" => Settled)

(* NodeFs: a name that is there leads to a whole, verified file, and a file *)
(* reported as written survives a loss of power.                           *)
FilesAreSafe == part = "fs" => Fs!TypeOK /\ Fs!FileIsVerified /\ Fs!AckedSurvives

(* NodeFs: the file is absent or a whole verified one at every moment, and  *)
(* nothing but an upload's rename, a delete and a loss of power changes what *)
(* a reader gets: no write reaches a file that has its name.                *)
FileIsAtomic == File!AtomicSpec

(* NodePolicy: no file operation reaches a policy file through a model root *)
(* and no file is obeyed that should not be.                               *)
RootsHoldNoPolicy == part = "policy" => Policy!TypeOK /\ Policy!RootsHoldNoPolicy

(* NodePolicy: the hub's mirror of the validator answers as the node's does. *)
MirrorAgrees == part = "policy" => Policy!MirrorAgrees

(* NodePolicy: the policy in force becomes the one on disk and stays it.   *)
PolicyConverges == <>[](part = "policy" => Policy!InForce)

(* Inventory: a request never reaches a port that is not an engine's.      *)
OnlyEnginesAreReached == part = "inventory" => Inv!OnlyEnginesAreReached

(* Inventory: once the machine no longer changes the hub knows it.         *)
HubCatchesUp == <>[](part = "inventory" => Inv!Told)
==============================================================================
