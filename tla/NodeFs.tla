------------------------------- MODULE NodeFs -------------------------------
(***************************************************************************)
(* One destination file of a model root on a machine, as the node's        *)
(* fs.write, fs.delete and the operating system see it                     *)
(* (ecnode/src/fsops.rs).  An upload goes to `<file>.incomplete`, must     *)
(* match its declared size and (when known) its sha256, is synced and then *)
(* renamed.  Uploads run on threads of one or more node processes: an old  *)
(* process may still be winding down, or wait on a dead connection, while  *)
(* the hub already talks to a new one.  `WriteLocks` excludes uploads of   *)
(* the same process, flock on the partial those of another.                *)
(*                                                                         *)
(* A file's content is the sequence of the chunks it holds, each named by  *)
(* the version of the source it came from; a sha256 is the sequence that   *)
(* was hashed.  `disk` is what survives a power loss: file data up to the  *)
(* last fsync for certain, and of the directory either its present or its  *)
(* last synced entries.                                                    *)
(***************************************************************************)
EXTENDS Naturals, Sequences, FiniteSets

CONSTANTS
  Procs,      \* node processes
  Writers,    \* fs.write requests
  Deleters,   \* fs.delete requests
  Versions,   \* versions of the source file
  Size,       \* the declared size, in chunks
  Hashed,     \* TRUE: the hub knows the sha256
  MaxLosses   \* power losses

FsConstants ==
  /\ Size \in Nat \ {0} /\ MaxLosses \in Nat /\ Hashed \in BOOLEAN
  /\ IsFiniteSet(Writers) /\ Procs # {} /\ Versions # {}

\* Every upload creates at most one file.
Inodes == 1..Cardinality(Writers)
None == 0
Names == {"file", "partial"}

VARIABLES
  data,    \* per inode: its content
  synced,  \* per inode: how many of its chunks are on disk for certain
  dir,     \* the inode of each name, or None
  disk,    \* the directory as last synced
  next,    \* the next inode
  locks,   \* processes whose WriteLocks hold the file's key
  wr,      \* per upload: where it is, its process, arguments, fd and digest
  del,     \* per delete: where it is and its name
  acked,   \* the file has been reported as written and not deleted since
  losses

vars == <<data, synced, dir, disk, next, locks, wr, del, acked, losses>>
fileVars == <<data, synced, dir, disk, next>>

Whole(v) == [i \in 1..Size |-> v]
Running(w) == wr[w].at \notin {"new", "ok", "failed", "killed"}

\* flock is held through the open file from Flock until the file is closed.
Flocked(i) == \E w \in Writers : wr[w].fd = i /\ wr[w].flock

Init ==
  /\ data = [i \in Inodes |-> <<>>] /\ synced = [i \in Inodes |-> 0]
  /\ dir = [n \in Names |-> None] /\ disk = dir /\ next = 1
  /\ locks = {}
  /\ wr = [w \in Writers |-> [at |-> "new", fd |-> None, flock |-> FALSE, digest |-> <<>>]]
  /\ del = [d \in Deleters |-> [at |-> "new", name |-> "partial"]]
  /\ acked = FALSE /\ losses = 0

\* Both locks go when the handler returns.
Return(w, how) ==
  /\ wr' = [wr EXCEPT ![w].at = how, ![w].fd = None, ![w].flock = FALSE]
  /\ locks' = locks \ {wr[w].proc}

Goto(w, at) == wr' = [wr EXCEPT ![w].at = at] /\ UNCHANGED locks

\* unlink_quiet: by name, whatever file has that name now.
Unlink(n) == dir' = [dir EXCEPT ![n] = None]

-----------------------------------------------------------------------------
(* fs_write, in the order of its system calls.                             *)

\* WriteLocks::hold.  The offset is what an earlier fs.stat told the hub.
Free(p) == p \notin locks

Hold(w) ==
  /\ wr[w].at = "new"
  /\ \E p \in Procs, v \in Versions, off \in 0..Size :
       IF Free(p)
       THEN /\ locks' = locks \cup {p}
            /\ wr' = [wr EXCEPT ![w] = [at |-> "open", proc |-> p, from |-> v, offset |-> off,
                                        fd |-> None, flock |-> FALSE, digest |-> <<>>]]
       ELSE /\ wr' = [wr EXCEPT ![w].at = "failed"]
            /\ UNCHANGED locks
  /\ UNCHANGED <<fileVars, del, acked, losses>>

\* openat(partial, O_RDWR | O_CREAT)
OpenPartial(w) ==
  /\ wr[w].at = "open"
  /\ IF dir["partial"] = None
     THEN /\ dir' = [dir EXCEPT !["partial"] = next]
          /\ next' = next + 1
          /\ wr' = [wr EXCEPT ![w].at = "flock", ![w].fd = next]
     ELSE /\ wr' = [wr EXCEPT ![w].at = "flock", ![w].fd = dir["partial"]]
          /\ UNCHANGED <<dir, next>>
  /\ UNCHANGED <<data, synced, disk, locks, del, acked, losses>>

\* Flock::lock(.., LockExclusiveNonblock)
LockPartial(w) ==
  /\ wr[w].at = "flock"
  /\ IF Flocked(wr[w].fd) THEN Return(w, "failed")
     ELSE wr' = [wr EXCEPT ![w].at = "check", ![w].flock = TRUE] /\ UNCHANGED locks
  /\ UNCHANGED <<fileVars, del, acked, losses>>

\* Offset 0 starts over; any other offset must be the partial's size.  Then the
\* free-space check, and the part that is already there is hashed.
OffsetFitsBelow(w) == wr[w].offset <= Len(data[wr[w].fd])
OffsetFits(w) == wr[w].offset = Len(data[wr[w].fd])

CheckOffset(w) ==
  /\ wr[w].at = "check"
  /\ LET fd == wr[w].fd  off == wr[w].offset IN
     IF off = 0
     THEN /\ data' = [data EXCEPT ![fd] = <<>>]
          /\ synced' = [synced EXCEPT ![fd] = 0]
          /\ \/ wr' = [wr EXCEPT ![w].at = "recv", ![w].digest = <<>>] /\ UNCHANGED locks
             \/ Return(w, "failed")  \* no_space
     ELSE /\ UNCHANGED <<data, synced>>
          /\ \/ /\ OffsetFits(w)
                /\ wr' = [wr EXCEPT ![w].at = "recv", ![w].digest = SubSeq(data[fd], 1, off)]
                /\ UNCHANGED locks
             \/ Return(w, "failed")  \* conflict, or no_space
  /\ UNCHANGED <<dir, disk, next, del, acked, losses>>

\* read_upload gave a chunk: written at the end of what is there, and hashed.
Receive(w) ==
  /\ wr[w].at = "recv" /\ Len(wr[w].digest) < Size
  /\ LET v == wr[w].from IN
     /\ data' = [data EXCEPT ![wr[w].fd] = Append(@, v)]
     /\ wr' = [wr EXCEPT ![w].digest = Append(@, v)]
  /\ UNCHANGED <<synced, dir, disk, next, locks, del, acked, losses>>

\* The upload is cancelled, or the disk fills up: the partial is kept.
Interrupt(w) ==
  /\ wr[w].at = "recv"
  /\ Return(w, "failed")
  /\ UNCHANGED <<fileVars, del, acked, losses>>

\* The upload ended short, or sent more than the declared size: the partial is
\* deleted.  `Complete` is total = size.
Complete(w) == Len(wr[w].digest) = Size

WrongSize(w) ==
  /\ wr[w].at = "recv"
  /\ Unlink("partial")
  /\ Return(w, "failed")
  /\ UNCHANGED <<data, synced, disk, next, del, acked, losses>>

Ended(w) ==
  /\ wr[w].at = "recv" /\ Complete(w)
  /\ Goto(w, "sync")
  /\ UNCHANGED <<fileVars, del, acked, losses>>

\* file.sync_all()
SyncedTo(i) == Len(data[i])

Sync(w) ==
  /\ wr[w].at = "sync"
  /\ synced' = [synced EXCEPT ![wr[w].fd] = SyncedTo(wr[w].fd)]
  /\ Goto(w, "verify")
  /\ UNCHANGED <<data, dir, disk, next, del, acked, losses>>

\* The whole file's sha256 against the one the hub sent.
HashFitsTail(w) == Hashed => wr[w].digest[Size] = wr[w].from
HashFits(w) == Hashed => wr[w].digest = Whole(wr[w].from)

Verify(w) ==
  /\ wr[w].at = "verify"
  /\ IF HashFits(w) THEN Goto(w, "rename") /\ UNCHANGED dir
     ELSE Unlink("partial") /\ Return(w, "failed")
  /\ UNCHANGED <<data, synced, disk, next, del, acked, losses>>

\* renameat(partial, name): whatever file is called partial by now.
Rename(w) ==
  /\ wr[w].at = "rename"
  /\ IF dir["partial"] = None THEN Return(w, "failed") /\ UNCHANGED dir
     ELSE /\ dir' = [n \in Names |-> IF n = "file" THEN dir["partial"] ELSE None]
          /\ Goto(w, "dirsync")
  /\ UNCHANGED <<data, synced, disk, next, del, acked, losses>>

\* fsync of the directory, then the answer.  Its error is not looked at (`let _ =`);
\* a disk that fails to sync is not modelled.
DirSyncedNot == disk
DirSynced == dir

DirSync(w) ==
  /\ wr[w].at = "dirsync"
  /\ disk' = DirSynced
  /\ acked' = (dir["file"] # None)
  /\ Return(w, "ok")
  /\ UNCHANGED <<data, synced, dir, next, del, losses>>

-----------------------------------------------------------------------------
(* fs_delete of the partial (a cancelled transfer) or of the file: lstat,  *)
(* a slow look at the running containers, then unlinkat by name.           *)

DeleteLook(d) ==
  /\ del[d].at = "new"
  /\ \E n \in Names :
       del' = [del EXCEPT ![d] = [at |-> IF dir[n] = None THEN "failed" ELSE "found", name |-> n]]
  /\ UNCHANGED <<fileVars, locks, wr, acked, losses>>

DeleteUnlink(d) ==
  /\ del[d].at = "found"
  /\ Unlink(del[d].name)
  /\ acked' = (acked /\ del[d].name # "file")
  /\ del' = [del EXCEPT ![d].at = IF dir[del[d].name] = None THEN "failed" ELSE "ok"]
  /\ UNCHANGED <<data, synced, disk, next, locks, wr, losses>>

-----------------------------------------------------------------------------
(* The environment.                                                        *)

Kill(ws) == wr' = [w \in Writers |-> IF w \in ws /\ Running(w)
                     THEN [wr[w] EXCEPT !.at = "killed", !.fd = None, !.flock = FALSE] ELSE wr[w]]

\* A node process ends: at EOF it does not wait for its uploads.
ProcExit(p) ==
  /\ p \in locks
  /\ Kill({w \in Writers : Running(w) /\ wr[w].proc = p})
  /\ locks' = locks \ {p}
  /\ UNCHANGED <<fileVars, del, acked, losses>>

PowerLoss ==
  /\ losses < MaxLosses /\ losses' = losses + 1
  /\ Kill(Writers) /\ locks' = {}
  /\ dir' \in {dir, disk}
  /\ disk' = dir'
  /\ \E kept \in [Inodes -> 0..Size] :
       /\ \A i \in Inodes : kept[i] \in synced[i]..Len(data[i])
       /\ data' = [i \in Inodes |-> SubSeq(data[i], 1, kept[i])]
       /\ synced' = kept
  /\ del' = [d \in Deleters |-> IF del[d].at = "found" THEN [del[d] EXCEPT !.at = "failed"] ELSE del[d]]
  /\ UNCHANGED <<next, acked>>

-----------------------------------------------------------------------------
Write(w) == \/ Hold(w) \/ OpenPartial(w) \/ LockPartial(w) \/ CheckOffset(w)
            \/ Receive(w) \/ Interrupt(w) \/ WrongSize(w) \/ Ended(w)
            \/ Sync(w) \/ Verify(w) \/ Rename(w) \/ DirSync(w)

Next == \/ \E w \in Writers : Write(w)
        \/ \E d \in Deleters : DeleteLook(d) \/ DeleteUnlink(d)
        \/ \E p \in Procs : ProcExit(p)
        \/ PowerLoss

Spec == Init /\ [][Next]_vars

-----------------------------------------------------------------------------
(* Correctness.                                                            *)

\* Every variable has its type, and a file never outgrows its declared size.
TypeOK ==
  /\ data \in [Inodes -> UNION {[1..n -> Versions] : n \in 0..Size}]
  /\ \A i \in Inodes : synced[i] \in 0..Len(data[i])
  /\ dir \in [Names -> Inodes \cup {None}] /\ disk \in [Names -> Inodes \cup {None}]
  /\ next \in 1..(Cardinality(Writers) + 1) /\ locks \subseteq Procs
  /\ acked \in BOOLEAN /\ losses \in 0..MaxLosses

\* What has the file's name is whole, and is one version of the source when its
\* sha256 was known: never a prefix, a mixture of two sources, or a file that
\* somebody is still writing to, whatever was interrupted.
FileIsVerified ==
  dir["file"] # None =>
    LET content == data[dir["file"]] IN
    /\ Len(content) = Size
    /\ Hashed => \E v \in Versions : content = Whole(v)

\* What the node may publish, and what a reader of the file gets by the entries e.
Verified == IF Hashed THEN {Whole(v) : v \in Versions} ELSE [1..Size -> Versions]
Reading(e) == IF e["file"] = None THEN <<>> ELSE data[e["file"]]

\* A file that was reported as written survives everything but its deletion.
AckedSurvives == acked => dir["file"] # None
=============================================================================
