------------------------------ MODULE Transfer ------------------------------
(***************************************************************************)
(* What one row of the download queue does to a model root                 *)
(* (ec-hub/src/services/downloads.rs, download_run, copy_run, execute):    *)
(* list the files of a repository (or of a copy on another machine), ask   *)
(* the node what is there, send what is missing, and, in a Hugging Face    *)
(* cache, link the snapshot and write the ref.  A run may be interrupted   *)
(* at any await and the row resumed; in between, the revision it names may *)
(* move to another commit.  The node's side of one file is NodeFs; here    *)
(* fs.write is its effect on the partial and on the file.                  *)
(*                                                                         *)
(* A file's content is a sequence of chunks, each named by the content it  *)
(* was taken from; a sha256 is that name.                                  *)
(***************************************************************************)
EXTENDS Naturals, Sequences, FiniteSets

CONSTANTS
  Files,     \* the repository's files that the row asks for
  Hashed,    \* those for which the listing has a sha256 (LFS)
  Twins,     \* those that have one and the same content
  Fixed,     \* those that are the same in every commit
  Shrinks,   \* those that get shorter by a chunk after the first commit
  Size,      \* chunks of a file
  Commits,   \* commits the revision goes through: 1..Commits
  Kinds,     \* what the row may be: "hf" download, "copy" of a cache, "plain" copy
  Layouts,   \* what the target root may be: a "cache" or "files"
  MaxFaults  \* interruptions, and partials removed by others

TransferConstants ==
  /\ IsFiniteSet(Files) /\ Hashed \subseteq Files /\ Fixed \subseteq Files
  \* what has one content has one length
  /\ Twins \subseteq Hashed /\ Shrinks \subseteq Files \ Fixed
  /\ Twins \cap Shrinks \in {{}, Twins} /\ "twin" \notin Files
  /\ Size \in Nat \ {0, 1} /\ Commits \in Nat \ {0} /\ MaxFaults \in Nat
  /\ Kinds \subseteq {"hf", "copy", "plain"} /\ Layouts \subseteq {"cache", "files"}

ASSUME TransferAssumption == TransferConstants

Content(f, c) == [who |-> IF f \in Twins THEN "twin" ELSE f, at |-> IF f \in Fixed THEN 1 ELSE c]
Older == [who |-> "older", at |-> 0]     \* of a file that was there before the row
SizeOf(f, c) == IF f \in Shrinks /\ c > 1 THEN Size - 1 ELSE Size
Whole(f, c) == [i \in 1..SizeOf(f, c) |-> Content(f, c)]

VARIABLES
  kind, layout,
  head,     \* the commit the revision leads to (of a plain copy: the source's version)
  file,     \* per destination: the file's chunks, <<>> when there is none
  part,     \* per destination: its .incomplete
  links,    \* snapshot links: commit, path, destination
  ref,      \* the commit in refs/<revision>, 0 when there is none
  row,      \* the row: commit_sha, done_json, current_dest
  run,      \* the worker: where it is, its plan, what it knows
  late,     \* uploads that the node is still verifying although their run is over
  faults

vars == <<kind, layout, head, file, part, links, ref, row, run, late, faults>>
disk == <<file, part, links, ref>>

\* blob_name, files_dir: where the content of f at commit c goes
Dest(f, c) ==
  CASE layout = "files" -> [how |-> "path", who |-> f, at |-> 0]
    [] layout = "cache" /\ f \in Hashed -> [how |-> "sha", who |-> Content(f, c).who, at |-> Content(f, c).at]
    [] OTHER -> [how |-> "nolfs", who |-> f, at |-> c]
Dests == {Dest(f, c) : f \in Files, c \in 1..Commits}

Idle == [at |-> "idle"]

\* an older file, or somebody's older partial, may be where the row will write
Init ==
  /\ kind \in Kinds /\ layout \in {l \in Layouts : kind = "plain" => l = "files"}
  /\ head = 1
  /\ file \in [Dests -> {<<>>}] \cup
       (IF layout = "files" THEN [Dests -> {[i \in 1..Size |-> Older]}] ELSE {})
  /\ part \in [Dests -> {<<>>}] \cup
       (IF layout = "files" THEN [Dests -> {<<Older>>}] ELSE {})
  /\ links = {} /\ ref = 0
  /\ row = [commit |-> 0, done |-> {}, current |-> {}]
  /\ run = Idle /\ late = {} /\ faults = 0

-----------------------------------------------------------------------------
(* Planning.                                                               *)

\* a file's hash is known to the node, which verifies it
HashKnown(f) == kind # "plain" /\ f \in Hashed

\* the plan: the commit (of a plain copy: the source's version) and the files to take
Plan(sel) ==
  /\ run = Idle
  /\ run' = [at |-> "stat", commit |-> head, sel |-> sel]
  /\ UNCHANGED <<kind, layout, head, disk, row, faults>>

\* the listing of the revision, as of now; an unsafe one is refused and nothing happens
PlanDownload == kind = "hf" /\ Files # {} /\ Plan(Files)

\* the large files the source holds, and the small ones, which come from Hugging Face; a
\* source that holds none of the large files is at another revision and is refused
PlanHfCopy ==
  /\ kind = "copy"
  /\ \E held \in SUBSET Hashed :
       /\ Hashed # {} => held # {}
       /\ Plan((Files \ Hashed) \cup held)

\* GGUF shards or the files of a directory, found by name; all of them or none
PlanPlainCopy == kind = "plain" /\ Plan(Files)

\* fs.stat of every destination, and what counts as done already
Complete(f) ==
  LET d == Dest(f, run.commit)
  IN  /\ file[d] # <<>> /\ Len(file[d]) = SizeOf(f, run.commit)
      /\ layout # "files" \/ d \in row.done
Stat ==
  /\ run.at = "stat"
  /\ run' = [at |-> "next", commit |-> run.commit, sel |-> run.sel,
             partial |-> [d \in Dests |-> Len(part[d])],
             todo |-> {f \in run.sel : ~Complete(f)}, written |-> {}]
  /\ row' = [row EXCEPT !.commit = IF kind = "plain" THEN 0 ELSE run.commit]
  /\ UNCHANGED <<kind, layout, head, disk, faults>>

-----------------------------------------------------------------------------
(* Sending one file.                                                       *)

\* the node's write locks of uploads that outlived their run
Locked == {Dest(u[1], u[2]) : u \in late}
Drop(f) == [run EXCEPT !.todo = @ \ {f}]
Fail == run' = Idle         \* the row is failed; resume starts over

\* two files with the same content share one blob
Skip(f) ==
  /\ run.at = "next" /\ f \in run.todo /\ Dest(f, run.commit) \in run.written
  /\ run' = Drop(f)
  /\ UNCHANGED <<kind, layout, head, disk, row, faults>>

\* where to go on: the partial's size as fs.stat told it, if it can be a part of this file
ResumeAt(f) ==
  LET p == run.partial[Dest(f, run.commit)]
  IN  IF p <= SizeOf(f, run.commit) THEN p ELSE 0

\* the source is opened at the offset, or at 0 when it ignores the range; fs.write
\* truncates at 0 and refuses any other offset that is not the partial's size, and a
\* file that another upload is writing
Open(f) ==
  LET d == Dest(f, run.commit)
  IN
  /\ run.at = "next" /\ f \in run.todo /\ d \notin run.written
  /\ row' = [row EXCEPT !.current = {d}]
  /\ \E start \in {ResumeAt(f)} \cup (IF kind = "hf" /\ ResumeAt(f) < SizeOf(f, run.commit) THEN {0} ELSE {}) :
       IF start \notin {0, Len(part[d])} \/ d \in Locked THEN Fail /\ UNCHANGED part
       ELSE /\ part' = [part EXCEPT ![d] = SubSeq(@, 1, start)]
            /\ run' = [at |-> "send", commit |-> run.commit, sel |-> run.sel, partial |-> run.partial,
                       todo |-> run.todo, written |-> run.written, f |-> f,
                       from |-> IF kind = "plain" THEN head ELSE run.commit]
  /\ UNCHANGED <<kind, layout, head, file, links, ref, faults>>

Here == Dest(run.f, run.commit)
MoreToSend == Len(part[Here]) < SizeOf(run.f, run.commit)
Chunk ==
  /\ run.at = "send" /\ MoreToSend /\ Len(part[Here]) < SizeOf(run.f, run.from)
  /\ part' = [part EXCEPT ![Here] = Append(@, Content(run.f, run.from))]
  /\ UNCHANGED <<kind, layout, head, file, links, ref, row, run, faults>>

\* the source ended early (a source file got shorter, or a fault), or it sends more than
\* it declared (a fault): no end, the stream is cancelled and the node keeps the partial
SourceEnds ==
  /\ run.at = "send"
  /\ IF MoreToSend /\ Len(part[Here]) >= SizeOf(run.f, run.from) THEN UNCHANGED faults
     ELSE faults < MaxFaults /\ faults' = faults + 1
  /\ Fail
  /\ UNCHANGED <<kind, layout, head, disk, row>>

\* the node checks size and hash of what f at commit c should be; a mismatch deletes the
\* partial, otherwise it is renamed
VerifiedBySize(f, c) == Len(part[Dest(f, c)]) = SizeOf(f, c)
Verified(f, c) ==
  /\ Len(part[Dest(f, c)]) = SizeOf(f, c)
  /\ HashKnown(f) => part[Dest(f, c)] = Whole(f, c)
PlacedKept(f, c) ==
  /\ file' = IF Verified(f, c) THEN [file EXCEPT ![Dest(f, c)] = part[Dest(f, c)]] ELSE file
  /\ part' = IF Verified(f, c) THEN [part EXCEPT ![Dest(f, c)] = <<>>] ELSE part
Placed(f, c) ==
  /\ file' = IF Verified(f, c) THEN [file EXCEPT ![Dest(f, c)] = part[Dest(f, c)]] ELSE file
  /\ part' = [part EXCEPT ![Dest(f, c)] = <<>>]

End ==
  /\ run.at = "send" /\ ~MoreToSend
  /\ Placed(run.f, run.commit)
  /\ IF Verified(run.f, run.commit) THEN run' = [run EXCEPT !.at = "record"] ELSE Fail
  /\ UNCHANGED <<kind, layout, head, links, ref, row, faults>>

\* the answer arrived: done_json, current_dest
DoneNowByPath == row.done \cup {run.f}
DoneNow == row.done \cup {Here}
Record ==
  /\ run.at = "record"
  /\ row' = [row EXCEPT !.done = DoneNow, !.current = {}]
  /\ run' = [at |-> "next", commit |-> run.commit, sel |-> run.sel, partial |-> run.partial,
             todo |-> run.todo \ {run.f}, written |-> run.written \cup {Here}]
  /\ UNCHANGED <<kind, layout, head, disk, faults>>

\* the worker gave up on an upload (pause, timeout) whose end the node has read
LateEnd(u) ==
  /\ u \in late /\ late' = late \ {u}
  /\ Placed(u[1], u[2])
  /\ UNCHANGED <<kind, layout, head, links, ref, row, run, faults>>

-----------------------------------------------------------------------------
(* The end of a run.                                                       *)
ReadyToLinkEarly == run.at = "next"
ReadyToLink == run.at = "next" /\ run.todo = {}

StartLinks ==
  /\ ReadyToLink
  /\ run' = [at |-> IF layout = "cache" THEN "link" ELSE "finish",
             commit |-> run.commit, sel |-> run.sel, todo |-> run.sel]
  /\ row' = IF layout = "cache" THEN [row EXCEPT !.current = {}] ELSE row
  /\ UNCHANGED <<kind, layout, head, disk, faults>>

\* fs.symlink replaces a link that is there
Link(f) ==
  /\ run.at = "link" /\ f \in run.todo
  /\ links' = links \cup {[commit |-> run.commit, path |-> f, dest |-> Dest(f, run.commit)]}
  /\ run' = Drop(f)
  /\ UNCHANGED <<kind, layout, head, file, part, ref, row, faults>>

LinksDoneAny == run.at = "link"
LinksDone == run.at = "link" /\ run.todo = {}
PutRef ==
  /\ LinksDone
  /\ ref' = run.commit
  /\ run' = [run EXCEPT !.at = "finish"]
  /\ UNCHANGED <<kind, layout, head, file, part, links, row, faults>>

Completed ==
  /\ run.at = "finish"
  /\ run' = [run EXCEPT !.at = "completed"]
  /\ row' = [row EXCEPT !.current = {}]
  /\ UNCHANGED <<kind, layout, head, disk, faults>>

-----------------------------------------------------------------------------
(* Interruptions and the world outside.                                    *)

\* pause, a failed call, a timeout, a full disk, a crash of the hub or of the node
Interrupt ==
  /\ run.at \notin {"idle", "completed"} /\ faults < MaxFaults /\ faults' = faults + 1
  /\ run' = Idle
  /\ late' \in {late} \cup
       (IF run.at = "send" /\ ~MoreToSend THEN {late \cup {<<run.f, run.commit>>}} ELSE {})
  /\ UNCHANGED <<kind, layout, head, disk, row>>

\* the partial in flight of a cancelled row (perhaps another one) is deleted by name: an
\* upload that writes it goes on without a name, so its rename fails; a late one finds
\* nothing to place
CleanupPartial(d) ==
  /\ part[d] # <<>> /\ faults < MaxFaults /\ faults' = faults + 1
  /\ part' = [part EXCEPT ![d] = <<>>]
  /\ IF run.at = "send" /\ d = Here THEN Fail ELSE UNCHANGED run
  /\ UNCHANGED <<kind, layout, head, file, links, ref, row, late>>

HeadMoves ==
  /\ head < Commits /\ head' = head + 1
  /\ UNCHANGED <<kind, layout, disk, row, run, late, faults>>

Work ==
  /\ UNCHANGED late
  /\ \/ PlanDownload \/ PlanHfCopy \/ PlanPlainCopy
     \/ Stat \/ Chunk \/ SourceEnds \/ End \/ Record \/ StartLinks \/ PutRef \/ Completed
     \/ \E f \in Files : Skip(f) \/ Open(f) \/ Link(f)

Next ==
  \/ Work \/ Interrupt \/ HeadMoves
  \/ \E u \in late : LateEnd(u)
  \/ \E d \in Dests : CleanupPartial(d)

Spec == Init /\ [][Next]_vars

\* a row that failed is resumed again and again; the worker and the node's upload thread
\* are scheduled
LateEnds == \E u \in late : LateEnd(u)
Fairness == WF_vars(Work) /\ WF_vars(LateEnds)
LiveSpec == Spec /\ Fairness

-----------------------------------------------------------------------------
Contents == {Content(f, c) : f \in Files, c \in 1..Commits} \cup {Older}

(* The one type invariant; no partial or file is longer than a file can be *)
(* (write_remote stops a source that sends more than it declared).         *)
TypeOK ==
  /\ kind \in Kinds /\ layout \in Layouts /\ head \in 1..Commits /\ ref \in 0..Commits
  /\ \A d \in Dests : \A chunks \in {file[d], part[d]} :
       Len(chunks) <= Size /\ \A i \in 1..Len(chunks) : chunks[i] \in Contents
  /\ \A l \in links : l.commit \in 1..Commits /\ l.path \in Files /\ l.dest \in Dests
  /\ row.commit \in 0..Commits /\ row.done \subseteq Dests /\ row.current \subseteq Dests
  /\ Locked \subseteq Dests

(* "The links and ref are created only after every blob is in place, so a  *)
(* half-downloaded repository never looks like a model": every snapshot    *)
(* link leads to the whole content of that path at that commit.            *)
LinksLeadToContent == \A l \in links : file[l.dest] = Whole(l.path, l.commit)

(* Whoever follows the ref of a download finds every file of the commit,   *)
(* whatever was interrupted and however the revision moved.                *)
RefIsWholeSnapshot ==
  ref # 0 /\ kind = "hf" => \A f \in Files : \E l \in links : l.commit = ref /\ l.path = f

(* Whatever is there under the name of a model is the model.               *)
SnapshotsAreWhole == TypeOK /\ LinksLeadToContent /\ RefIsWholeSnapshot

(* A file of known hash that the row finished is the whole content of one  *)
(* commit, never a mixture of two, although a resumed transfer may append  *)
(* a new commit's chunks to an old commit's partial (fs.write).            *)
NoMixture ==
  \A f \in Hashed, c \in 1..Commits :
    kind # "plain" /\ Dest(f, c) \in row.done
    => \E k \in 1..Commits : file[Dest(f, c)] = Whole(f, k)

(* A row that is resumed whenever it failed completes: no partial, however *)
(* old or foreign, stops it for good.                                      *)
Ended == run.at = "completed"
RowCompletes == <>Ended

(* What a comment says, and the code does not do.                          *)

(* "Only one this row itself finished counts": a completed row has the     *)
(* files of the commit it reports (execute).                               *)
CompletedIsCommit ==
  run.at = "completed" /\ kind = "hf"
  => \A f \in Hashed : file[Dest(f, row.commit)] = Whole(f, row.commit)
=============================================================================
