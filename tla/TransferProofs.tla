--------------------------- MODULE TransferProofs ---------------------------
(***************************************************************************)
(* Transfer's safety for any files, commits and interruptions.             *)
(*                                                                         *)
(* A link is made long after its file was sent, so what the link leads to  *)
(* rests on what every partial may hold (Prefixes), on what the run knows  *)
(* of the files it no longer has to send (Planned), and on two paths       *)
(* sharing a blob only when they share their content (SameBlob).           *)
(***************************************************************************)
EXTENDS Transfer, SequenceTheorems, TLAPS

Commit == 1..Commits
\* What a run is, at each of its steps.
Planning == [at : {"stat"}, commit : Commit, sel : SUBSET Files]
Choosing == [at : {"next"}, commit : Commit, sel : SUBSET Files, partial : [Dests -> Nat],
             todo : SUBSET Files, written : SUBSET Dests]
Sending  == [at : {"send", "record"}, commit : Commit, sel : SUBSET Files, partial : [Dests -> Nat],
             todo : SUBSET Files, written : SUBSET Dests, f : Files, from : Commit]
Linking  == [at : {"link", "finish", "completed"}, commit : Commit, sel : SUBSET Files,
             todo : SUBSET Files]
RunType == {Idle} \cup Planning \cup Choosing \cup Sending \cup Linking

Chunks == {s \in Seq(Contents) : Len(s) <= Size}
Disks == [Dests -> Chunks]
LinkType == [commit : Commit, path : Files, dest : Dests]
RowType == [commit : 0..Commits, done : SUBSET Dests, current : SUBSET Dests]

Types ==
  /\ kind \in Kinds /\ layout \in Layouts /\ (kind = "plain" => layout = "files")
  /\ head \in Commit /\ ref \in 0..Commits
  /\ file \in Disks /\ part \in Disks
  /\ links \in SUBSET LinkType
  /\ row \in RowType /\ run \in RunType /\ late \in SUBSET (Files \X Commit)

\* The source is the commit that was planned, except in a plain copy.
Source ==
  /\ run.at \in {"send", "record"} /\ kind # "plain" => run.from = run.commit
  /\ run # Idle /\ kind = "hf" => run.sel = Files

\* In a cache a partial is the beginning of what will be there, and a blob is all of it.
PrefixOf(s, f, c) ==
  Len(s) <= SizeOf(f, c) /\ \A i \in 1..Len(s) : s[i] = Content(f, c)
Prefixes ==
  layout = "cache" => \A f \in Files, c \in Commit :
    PrefixOf(part[Dest(f, c)], f, c) /\ file[Dest(f, c)] \in {<<>>, Whole(f, c)}

\* What the run need not send any more is there.
Planned ==
  /\ run.at \in {"next", "send", "record"} =>
       /\ \A f \in run.sel \ run.todo : file[Dest(f, run.commit)] # <<>>
       /\ \A d \in run.written : file[d] # <<>>
  /\ run.at = "record" => file[Here] # <<>>
  /\ run.at = "link" =>
       /\ layout = "cache" /\ run.todo \subseteq run.sel
       /\ \A f \in run.sel : file[Dest(f, run.commit)] # <<>>
       /\ \A f \in run.sel \ run.todo : \E l \in links : l.commit = run.commit /\ l.path = f

\* Links are only in a cache, and each leads to the blob of its path and commit.
Linked == \A l \in links : layout = "cache" /\ l.dest = Dest(l.path, l.commit)
                           /\ file[l.dest] # <<>>

\* A file of known hash is some commit's, whole, when its end was verified.
SomeCommit(f, d) == \E k \in Commit : file[d] = Whole(f, k)
Hashes ==
  /\ NoMixture
  /\ run.at = "record" /\ kind # "plain" /\ run.f \in Hashed => SomeCommit(run.f, Here)

TransferInv ==
  Types /\ Source /\ Prefixes /\ Planned /\ Linked /\ RefIsWholeSnapshot /\ Hashes
-----------------------------------------------------------------------------
(* Contents and places.                                                    *)

LEMMA Sizes ==
  ASSUME TransferConstants, NEW f \in Files, NEW c \in Commit
  PROVE  /\ SizeOf(f, c) \in Nat /\ 1 <= SizeOf(f, c) /\ SizeOf(f, c) <= Size
         /\ Content(f, c) \in Contents /\ Dest(f, c) \in Dests
         /\ Whole(f, c) \in Chunks /\ Len(Whole(f, c)) = SizeOf(f, c)
<1>1. SizeOf(f, c) \in Nat /\ 1 <= SizeOf(f, c) /\ SizeOf(f, c) <= Size
  BY DEF TransferConstants, SizeOf, Commit
<1>2. Content(f, c) \in Contents /\ Dest(f, c) \in Dests
  BY DEF Contents, Dests, Commit
<1>3. Whole(f, c) \in Seq(Contents) /\ Len(Whole(f, c)) = SizeOf(f, c)
  BY <1>1, <1>2 DEF Whole
<1> QED
  BY <1>1, <1>2, <1>3 DEF Chunks

\* Two paths that share a place in a cache share their content; in a root of
\* files a place is one path's.
LEMMA SameBlob ==
  ASSUME TransferConstants, layout \in {"cache", "files"},
         NEW f \in Files, NEW g \in Files, NEW c \in Commit, NEW k \in Commit,
         Dest(f, c) = Dest(g, k)
  PROVE  /\ layout = "cache" => Content(f, c) = Content(g, k) /\ SizeOf(f, c) = SizeOf(g, k)
                                /\ Whole(f, c) = Whole(g, k)
         /\ layout = "files" => f = g
         /\ f \in Hashed => g \in Hashed
<1>1. layout = "files" => f = g
  BY DEF Dest
<1>2. ASSUME layout = "cache", f \notin Hashed
      PROVE  f = g /\ c = k
  BY <1>2 DEF Dest
<1>3. ASSUME layout = "cache", f \in Hashed
      PROVE  g \in Hashed /\ Content(f, c).who = Content(g, k).who /\ Content(f, c).at = Content(g, k).at
  BY <1>3 DEF Dest
<1>4. ASSUME layout = "cache", f \in Hashed
      PROVE  Content(f, c) = Content(g, k) /\ SizeOf(f, c) = SizeOf(g, k)
  <2>1. Content(f, c) = Content(g, k)
    BY <1>3, <1>4 DEF Content
  <2>2. f = g \/ (f \in Twins /\ g \in Twins)
    BY <2>1 DEF Content, TransferConstants
  <2>3. (f \in Shrinks /\ c > 1) <=> (g \in Shrinks /\ k > 1)
    BY <2>1, <2>2 DEF Content, TransferConstants, Commit
  <2> QED
    BY <2>1, <2>3 DEF SizeOf
<1>5. ASSUME layout = "cache"
      PROVE  Content(f, c) = Content(g, k) /\ SizeOf(f, c) = SizeOf(g, k)
  BY <1>2, <1>4, <1>5
<1>6. layout = "cache" => Whole(f, c) = Whole(g, k)
  BY <1>5 DEF Whole
<1> QED
  BY <1>1, <1>2, <1>3, <1>5, <1>6

\* A partial that is as long as its file is its file.
LEMMA WholePrefix ==
  ASSUME TransferConstants, NEW f \in Files, NEW c \in Commit, NEW s \in Chunks,
         PrefixOf(s, f, c), Len(s) = SizeOf(f, c)
  PROVE  s = Whole(f, c)
<1>1. Len(Whole(f, c)) = Len(s) /\ Whole(f, c) \in Seq(Contents) /\ s \in Seq(Contents)
  BY Sizes DEF Chunks
<1>2. \A i \in 1..Len(s) : s[i] = Whole(f, c)[i]
  BY DEF PrefixOf, Whole
<1> QED
  BY <1>1, <1>2, SeqEqual

\* The kind of row and the layout of the root never change.
LEMMA Stable ==
  ASSUME UNCHANGED <<kind, layout>>
  PROVE  /\ \A f, c : Dest(f, c)' = Dest(f, c)
         /\ Dests' = Dests /\ Disks' = Disks /\ LinkType' = LinkType /\ RowType' = RowType
         /\ RunType' = RunType
<1>1. \A f, c : Dest(f, c)' = Dest(f, c)
  BY DEF Dest
<1>2. Dests' = Dests
  BY DEF Dests, Dest
<1> QED
  BY <1>1, <1>2 DEF Disks, LinkType, RowType, RunType, Planning, Choosing, Sending, Linking
LEMMA PlacedFacts ==
  ASSUME TransferConstants, Types, Prefixes, NEW f \in Files, NEW c \in Commit,
         Placed(f, c), UNCHANGED <<kind, layout>>
  PROVE  /\ file' \in Disks /\ part' \in Disks
         /\ \A d \in Dests : file[d] # <<>> => file'[d] # <<>>
         /\ Prefixes'
         /\ Verified(f, c) => /\ file'[Dest(f, c)] # <<>>
                              /\ HashKnown(f) => file'[Dest(f, c)] = Whole(f, c)
         /\ \A g \in Hashed, k \in Commit :
              kind # "plain" /\ SomeCommit(g, Dest(g, k)) => SomeCommit(g, Dest(g, k))'
<1> DEFINE here == Dest(f, c)
<1> USE DEF Types
<1>1. here \in Dests /\ SizeOf(f, c) \in Nat /\ 1 <= SizeOf(f, c)
  BY Sizes
<1>2. file' \in Disks /\ part' \in Disks
  <2>1. <<>> \in Chunks /\ part[here] \in Chunks
    BY <1>1 DEF Disks, Chunks, TransferConstants
  <2> QED
    BY <1>1, <2>1 DEF Placed, Disks
<1>3. \A d \in Dests : d # here => file'[d] = file[d] /\ part'[d] = part[d]
  BY <1>1 DEF Placed, Disks
<1>4. part'[here] = <<>>
  BY <1>1 DEF Placed, Disks
<1>5. CASE ~Verified(f, c)
  <2>1. file' = file
    BY <1>5 DEF Placed
  <2>2. Prefixes'
    <3>1. ASSUME layout = "cache", NEW g \in Files, NEW k \in Commit
          PROVE  PrefixOf(part'[Dest(g, k)], g, k) /\ file'[Dest(g, k)] \in {<<>>, Whole(g, k)}
      <4>1. Dest(g, k) \in Dests /\ SizeOf(g, k) \in Nat /\ 1 <= SizeOf(g, k)
        BY Sizes
      <4>2. part'[Dest(g, k)] = part[Dest(g, k)] \/ part'[Dest(g, k)] = <<>>
        BY <1>3, <1>4, <4>1
      <4> QED
        BY <2>1, <3>1, <4>1, <4>2 DEF Prefixes, PrefixOf
    <3> QED
      BY <3>1, Stable DEF Prefixes
  <2>3. \A g \in Hashed, k \in Commit :
           SomeCommit(g, Dest(g, k)) => SomeCommit(g, Dest(g, k))'
    BY <2>1, Stable DEF SomeCommit
  <2> QED
    BY <1>2, <1>5, <2>1, <2>2, <2>3
<1>6. CASE Verified(f, c)
  <2>1. file'[here] = part[here] /\ Len(part[here]) = SizeOf(f, c) /\ part[here] \in Chunks
    BY <1>1, <1>6 DEF Placed, Verified, Disks
  <2>2. file'[here] # <<>>
    BY <1>1, <2>1
  <2>3. layout = "cache" => file'[here] = Whole(f, c)
    BY <2>1, WholePrefix DEF Prefixes
  <2>4. HashKnown(f) => file'[here] = Whole(f, c)
    BY <1>6, <2>1 DEF Verified
  <2>5. Prefixes'
    <3>1. ASSUME layout = "cache", NEW g \in Files, NEW k \in Commit
          PROVE  PrefixOf(part'[Dest(g, k)], g, k) /\ file'[Dest(g, k)] \in {<<>>, Whole(g, k)}
      <4>1. Dest(g, k) \in Dests /\ SizeOf(g, k) \in Nat /\ 1 <= SizeOf(g, k)
        BY Sizes
      <4>2. CASE Dest(g, k) # here
        BY <1>3, <3>1, <4>1, <4>2 DEF Prefixes
      <4>3. CASE Dest(g, k) = here
        <5>1. Whole(f, c) = Whole(g, k)
          BY <3>1, <4>3, SameBlob
        <5>2. PrefixOf(<<>>, g, k)
          BY <4>1 DEF PrefixOf
        <5> QED
          BY <1>4, <2>3, <3>1, <4>3, <5>1, <5>2
      <4> QED
        BY <4>2, <4>3
    <3> QED
      BY <3>1, Stable DEF Prefixes
  <2>6. ASSUME NEW g \in Hashed, NEW k \in Commit, kind # "plain", SomeCommit(g, Dest(g, k))
        PROVE  SomeCommit(g, Dest(g, k))'
    <3>1. g \in Files /\ Dest(g, k) \in Dests /\ layout \in {"cache", "files"}
      BY Sizes DEF TransferConstants
    <3>2. CASE Dest(g, k) # here
      BY <1>3, <2>6, <3>1, <3>2, Stable DEF SomeCommit
    <3>3. CASE Dest(g, k) = here
      <4>1. HashKnown(f)
        BY <2>6, <3>1, <3>3, SameBlob DEF HashKnown
      <4>2. file'[Dest(g, k)] = Whole(f, c)
        BY <2>4, <3>3, <4>1
      <4>3. \E j \in Commit : Whole(f, c) = Whole(g, j)
        BY <3>1, <3>3, SameBlob
      <4> QED
        BY <4>2, <4>3, Stable DEF SomeCommit
    <3> QED
      BY <3>2, <3>3
  <2>7. \A d \in Dests : file[d] # <<>> => file'[d] # <<>>
    BY <1>3, <2>2
  <2> QED
    BY <1>2, <2>2, <2>4, <2>5, <2>6, <2>7
<1> QED
  BY <1>5, <1>6

LEMMA TransferInit == ASSUME TransferConstants, Init PROVE TransferInv
<1> USE DEF Init, TransferConstants
<1>1. Types
  <2>1. Older \in Contents
    BY DEF Contents
  <2>2. <<>> \in Chunks /\ <<Older>> \in Chunks
    BY <2>1 DEF Chunks
  <2>3. [i \in 1..Size |-> Older] \in Chunks
    BY <2>1 DEF Chunks
  <2>4. file \in Disks /\ part \in Disks
    BY <2>2, <2>3 DEF Disks
  <2>5. row \in RowType /\ run \in RunType /\ head \in Commit
    BY DEF RowType, RunType, Commit
  <2> QED
    BY <2>4, <2>5 DEF Types
<1>2. Prefixes
  <2>1. ASSUME layout = "cache", NEW f \in Files, NEW c \in Commit
        PROVE  part[Dest(f, c)] = <<>> /\ file[Dest(f, c)] = <<>> /\ SizeOf(f, c) \in Nat
    BY <2>1, Sizes
  <2> QED
    BY <2>1 DEF Prefixes, PrefixOf
<1>3. Source /\ Planned /\ Linked /\ RefIsWholeSnapshot /\ Hashes
  BY DEF Source, Planned, Linked, RefIsWholeSnapshot, Hashes, NoMixture, Idle
<1> QED
  BY <1>1, <1>2, <1>3 DEF TransferInv

\* An action that leaves the disk alone and whose row finishes nothing.
LEMMA SameDisk ==
  ASSUME Prefixes, Linked, RefIsWholeSnapshot, UNCHANGED <<kind, layout, file, part, links, ref>>
  PROVE  Prefixes' /\ Linked' /\ RefIsWholeSnapshot'
BY Stable DEF Prefixes, Linked, RefIsWholeSnapshot

LEMMA SameFiles ==
  ASSUME NoMixture, UNCHANGED <<kind, layout, file>>, row'.done = row.done
  PROVE  NoMixture'
BY Stable DEF NoMixture

\* What the run is, by where it is.
LEMMA RunIs ==
  ASSUME run \in RunType
  PROVE  /\ run.at = "stat" => run \in Planning
         /\ run.at = "next" => run \in Choosing
         /\ run.at \in {"send", "record"} => run \in Sending
         /\ run.at \in {"link", "finish", "completed"} => run \in Linking
BY DEF RunType, Planning, Choosing, Sending, Linking, Idle

\* A partial somewhere gets shorter or goes away, or takes a chunk of its file.
LEMMA PartialFacts ==
  ASSUME TransferConstants, TransferInv, NEW d \in Dests, NEW s \in Chunks,
         part' = [part EXCEPT ![d] = s], UNCHANGED <<kind, layout, file, links, ref>>,
         layout = "cache" => \A f \in Files, c \in Commit : d = Dest(f, c) => PrefixOf(s, f, c)
  PROVE  part' \in Disks /\ Prefixes' /\ Linked' /\ RefIsWholeSnapshot'
<1>1. part' \in Disks /\ \A e \in Dests : part'[e] = IF e = d THEN s ELSE part[e]
  BY DEF TransferInv, Types, Disks
<1>2. Prefixes'
  <2>1. ASSUME layout = "cache", NEW f \in Files, NEW c \in Commit
        PROVE  PrefixOf(part'[Dest(f, c)], f, c) /\ file[Dest(f, c)] \in {<<>>, Whole(f, c)}
    BY <1>1, <2>1, Sizes DEF TransferInv, Prefixes
  <2> QED
    BY <2>1, Stable DEF Prefixes
<1>3. Linked' /\ RefIsWholeSnapshot'
  BY Stable DEF TransferInv, Linked, RefIsWholeSnapshot
<1> QED
  BY <1>1, <1>2, <1>3

LEMMA TransferStep == ASSUME TransferConstants, TransferInv, [Next]_vars PROVE TransferInv'
<1>1. ASSUME PlanDownload, UNCHANGED late PROVE TransferInv'
  <2> USE <1>1 DEF PlanDownload, Plan, disk, TransferConstants
  <2>0. UNCHANGED <<kind, layout>>
    OBVIOUS
  <2>1. Types'
    BY Stable, <2>0 DEF TransferInv, Types, RunType, Planning, Choosing, Sending, Linking, RowType, Idle
  <2>2. Source'
    BY Stable, <2>0 DEF TransferInv, Source, Types, RunType, Planning, Choosing, Sending, Linking, Idle
  <2>3. Planned'
    BY Stable, <2>0 DEF TransferInv, Planned, Types, RunType, Planning, Choosing, Sending, Linking, Idle, Here
  <2>4. Prefixes' /\ Linked' /\ RefIsWholeSnapshot'
    BY <2>0, SameDisk DEF TransferInv
  <2>5. Hashes'
    BY Stable, <2>0, SameFiles DEF TransferInv, Hashes, Types, RowType, Idle, SomeCommit, Here
  <2> QED
    BY <2>1, <2>2, <2>3, <2>4, <2>5 DEF TransferInv
<1>2. ASSUME PlanHfCopy, UNCHANGED late PROVE TransferInv'
  <2> USE <1>2 DEF PlanHfCopy, Plan, disk, TransferConstants
  <2>0. UNCHANGED <<kind, layout>>
    OBVIOUS
  <2>1. Types'
    BY Stable, <2>0 DEF TransferInv, Types, RunType, Planning, Choosing, Sending, Linking, RowType, Idle
  <2>2. Source'
    BY Stable, <2>0 DEF TransferInv, Source, Types, RunType, Planning, Choosing, Sending, Linking, Idle
  <2>3. Planned'
    BY Stable, <2>0 DEF TransferInv, Planned, Types, RunType, Planning, Choosing, Sending, Linking, Idle, Here
  <2>4. Prefixes' /\ Linked' /\ RefIsWholeSnapshot'
    BY <2>0, SameDisk DEF TransferInv
  <2>5. Hashes'
    BY Stable, <2>0, SameFiles DEF TransferInv, Hashes, Types, RowType, Idle, SomeCommit, Here
  <2> QED
    BY <2>1, <2>2, <2>3, <2>4, <2>5 DEF TransferInv
<1>3. ASSUME PlanPlainCopy, UNCHANGED late PROVE TransferInv'
  <2> USE <1>3 DEF PlanPlainCopy, Plan, disk, TransferConstants
  <2>0. UNCHANGED <<kind, layout>>
    OBVIOUS
  <2>1. Types'
    BY Stable, <2>0 DEF TransferInv, Types, RunType, Planning, Choosing, Sending, Linking, RowType, Idle
  <2>2. Source'
    BY Stable, <2>0 DEF TransferInv, Source, Types, RunType, Planning, Choosing, Sending, Linking, Idle
  <2>3. Planned'
    BY Stable, <2>0 DEF TransferInv, Planned, Types, RunType, Planning, Choosing, Sending, Linking, Idle, Here
  <2>4. Prefixes' /\ Linked' /\ RefIsWholeSnapshot'
    BY <2>0, SameDisk DEF TransferInv
  <2>5. Hashes'
    BY Stable, <2>0, SameFiles DEF TransferInv, Hashes, Types, RowType, Idle, SomeCommit, Here
  <2> QED
    BY <2>1, <2>2, <2>3, <2>4, <2>5 DEF TransferInv
<1>4. ASSUME Stat, UNCHANGED late PROVE TransferInv'
  <2> USE <1>4 DEF Stat, disk
  <2>0. UNCHANGED <<kind, layout>>
    OBVIOUS
  <2>1. Types'
    <3>0. run \in Planning /\ [d \in Dests |-> Len(part[d])] \in [Dests -> Nat]
      BY RunIs DEF TransferInv, Types, Disks, Chunks
    <3>1. run' \in Choosing
      BY <3>0 DEF Planning, Choosing
    <3>2. row' \in RowType
      <4>1. run.commit \in 0..Commits /\ 0 \in 0..Commits
        BY <3>0 DEF Planning, Commit, TransferConstants
      <4> QED
        BY <4>1 DEF TransferInv, Types, RowType
    <3> QED
      BY <3>1, <3>2, Stable, <2>0 DEF TransferInv, Types, RunType
  <2>2. Source'
    BY Stable, <2>0 DEF TransferInv, Source, Types, RunType, Planning, Choosing, Sending, Linking, Idle
  <2>3. Planned'
    BY Stable, <2>0 DEF TransferInv, Planned, Types, RunType, Planning, Choosing, Sending, Linking, Idle, Here, Complete
  <2>4. Prefixes' /\ Linked' /\ RefIsWholeSnapshot'
    BY <2>0, SameDisk DEF TransferInv
  <2>5. Hashes'
    BY Stable, <2>0, SameFiles DEF TransferInv, Hashes, Types, RowType, Idle, SomeCommit, Here
  <2> QED
    BY <2>1, <2>2, <2>3, <2>4, <2>5 DEF TransferInv
<1>5. ASSUME Chunk, UNCHANGED late PROVE TransferInv'
  <2> USE <1>5 DEF Chunk, MoreToSend
  <2>0. UNCHANGED <<kind, layout>>
    OBVIOUS
  <2> DEFINE s == Append(part[Here], Content(run.f, run.from))
  <2>6. run \in Sending /\ Here \in Dests /\ part[Here] \in Chunks /\ Here = Dest(run.f, run.commit)
    BY RunIs, Sizes DEF TransferInv, Types, Sending, Here, Disks
  <2>7. /\ Content(run.f, run.from) \in Contents
        /\ SizeOf(run.f, run.commit) \in Nat /\ SizeOf(run.f, run.commit) <= Size
    BY <2>6, Sizes DEF Sending
  <2>8. s \in Chunks /\ Len(s) = Len(part[Here]) + 1
    BY <2>6, <2>7 DEF Chunks, TransferConstants
  <2>9. ASSUME layout = "cache", NEW f \in Files, NEW c \in Commit, Here = Dest(f, c)
        PROVE  PrefixOf(s, f, c)
    <3>1. Content(f, c) = Content(run.f, run.from) /\ SizeOf(f, c) = SizeOf(run.f, run.commit)
      <4>1. run.from = run.commit /\ run.f \in Files /\ run.commit \in Commit
        BY <2>6, <2>9 DEF TransferInv, Types, Source, Sending
      <4>2. layout \in {"cache", "files"} /\ Dest(f, c) = Dest(run.f, run.commit)
        BY <2>6, <2>9
      <4>3. Content(f, c) = Content(run.f, run.commit) /\ SizeOf(f, c) = SizeOf(run.f, run.commit)
        BY <2>9, <4>1, <4>2, SameBlob
      <4> QED
        BY <4>1, <4>3
    <3>2. PrefixOf(part[Here], f, c)
      BY <2>9 DEF TransferInv, Prefixes
    <3>3. \A i \in 1..Len(s) : s[i] = IF i <= Len(part[Here]) THEN part[Here][i] ELSE Content(f, c)
      BY <2>6, <2>7, <3>1 DEF Chunks
    <3> QED
      BY <2>6, <2>7, <2>8, <3>1, <3>2, <3>3 DEF PrefixOf, Chunks
  <2>10. part' = [part EXCEPT ![Here] = s]
    BY <2>6
  <2> HIDE DEF s
  <2>4. part' \in Disks /\ Prefixes' /\ Linked' /\ RefIsWholeSnapshot'
    BY <2>6, <2>8, <2>9, <2>10, PartialFacts
  <2>1. Types'
    BY <2>4, Stable, <2>0 DEF TransferInv, Types
  <2>2. Source'
    BY Stable, <2>0 DEF TransferInv, Source, Types, RunType, Planning, Choosing, Sending, Linking, Idle
  <2>3. Planned'
    BY Stable, <2>0 DEF TransferInv, Planned, Types, RunType, Planning, Choosing, Sending, Linking, Idle, Here
  <2>5. Hashes'
    BY Stable, <2>0, SameFiles DEF TransferInv, Hashes, Types, RowType, Idle, SomeCommit, Here
  <2> QED
    BY <2>1, <2>2, <2>3, <2>4, <2>5 DEF TransferInv
<1>6. ASSUME SourceEnds, UNCHANGED late PROVE TransferInv'
  <2> USE <1>6 DEF SourceEnds, Fail, disk, TransferConstants
  <2>0. UNCHANGED <<kind, layout>>
    OBVIOUS
  <2>1. Types'
    BY Stable, <2>0 DEF TransferInv, Types, RunType, Planning, Choosing, Sending, Linking, RowType, Idle
  <2>2. Source'
    BY Stable, <2>0 DEF TransferInv, Source, Types, RunType, Planning, Choosing, Sending, Linking, Idle
  <2>3. Planned'
    BY Stable, <2>0 DEF TransferInv, Planned, Types, RunType, Planning, Choosing, Sending, Linking, Idle, Here
  <2>4. Prefixes' /\ Linked' /\ RefIsWholeSnapshot'
    BY <2>0, SameDisk DEF TransferInv
  <2>5. Hashes'
    BY Stable, <2>0, SameFiles DEF TransferInv, Hashes, Types, RowType, Idle, SomeCommit, Here
  <2> QED
    BY <2>1, <2>2, <2>3, <2>4, <2>5 DEF TransferInv
<1>7. ASSUME End, UNCHANGED late PROVE TransferInv'
  <2> USE <1>7 DEF End
  <2>0. UNCHANGED <<kind, layout>>
    OBVIOUS
  <2>6. run \in Sending /\ Here \in Dests /\ Here = Dest(run.f, run.commit)
    BY RunIs, Sizes DEF TransferInv, Types, Sending, Here
  <2>7. /\ file' \in Disks /\ part' \in Disks
        /\ \A d \in Dests : file[d] # <<>> => file'[d] # <<>>
        /\ Prefixes'
        /\ Verified(run.f, run.commit) => /\ file'[Here] # <<>>
                                          /\ HashKnown(run.f) => file'[Here] = Whole(run.f, run.commit)
        /\ \A g \in Hashed, k \in Commit :
             kind # "plain" /\ SomeCommit(g, Dest(g, k)) => SomeCommit(g, Dest(g, k))'
    BY <2>0, <2>6, PlacedFacts DEF TransferInv, Sending
  <2>8. \/ Verified(run.f, run.commit) /\ run' = [run EXCEPT !.at = "record"]
        \/ run' = Idle
    BY DEF Fail
  <2>9. Here' = Here \/ run' = Idle
    BY <2>0, <2>6, <2>8, Stable DEF Here, Sending
  <2>1. Types'
    <3>1. run' \in RunType
      BY <2>6, <2>8 DEF RunType, Sending
    <3> QED
      BY <2>7, <3>1, Stable, <2>0 DEF TransferInv, Types
  <2>2. Source'
    BY <2>6, <2>8 DEF TransferInv, Source, Idle, Sending
  <2>3. Planned'
    <3>1. CASE run' = Idle
      BY <3>1 DEF Planned, Idle
    <3>2. CASE Verified(run.f, run.commit) /\ run' = [run EXCEPT !.at = "record"]
      <4>1. /\ run'.at = "record" /\ run'.commit = run.commit /\ run'.sel = run.sel
            /\ run'.todo = run.todo /\ run'.written = run.written
        BY <2>6, <3>2 DEF Sending
      <4>2. \A f \in run.sel : Dest(f, run.commit) \in Dests
        BY <2>6, Sizes DEF Sending
      <4>3. /\ \A f \in run.sel \ run.todo : file'[Dest(f, run.commit)] # <<>>
            /\ \A d \in run.written : file'[d] # <<>>
        BY <2>6, <2>7, <4>2 DEF TransferInv, Planned, Sending
      <4>4. file'[Here'] # <<>>
        BY <2>7, <2>9, <3>2, <4>1 DEF Idle
      <4> QED
        BY <4>1, <4>3, <4>4, Stable, <2>0 DEF Planned
    <3> QED
      BY <2>8, <3>1, <3>2
  <2>4. Prefixes' /\ Linked' /\ RefIsWholeSnapshot'
    BY <2>7, Stable, <2>0 DEF TransferInv, Types, LinkType, Linked, RefIsWholeSnapshot
  <2>5. Hashes'
    <3>1. NoMixture'
      BY <2>0, <2>7, Stable DEF TransferInv, Hashes, NoMixture, SomeCommit, Commit
    <3>2. run'.at = "record" /\ kind' # "plain" /\ run'.f \in Hashed => SomeCommit(run.f, Here)'
      BY <2>0, <2>6, <2>7, <2>8, <2>9, Stable DEF SomeCommit, HashKnown, Idle, Sending
    <3> QED
      BY <3>1, <3>2 DEF Hashes
  <2> QED
    BY <2>1, <2>2, <2>3, <2>4, <2>5 DEF TransferInv
<1>8. ASSUME Record, UNCHANGED late PROVE TransferInv'
  <2> USE <1>8 DEF Record, disk, DoneNow
  <2>0. UNCHANGED <<kind, layout>>
    OBVIOUS
  <2>6. run \in Sending /\ Here \in Dests /\ Here = Dest(run.f, run.commit)
    BY RunIs, Sizes DEF TransferInv, Types, Sending, Here
  <2>7. run' \in Choosing
    BY <2>6 DEF Sending, Choosing
  <2>8. row' \in RowType /\ row'.done = row.done \cup {Here}
    BY <2>6 DEF TransferInv, Types, RowType
  <2>1. Types'
    BY <2>7, <2>8, Stable, <2>0 DEF TransferInv, Types, RunType
  <2>2. Source'
    BY <2>6 DEF TransferInv, Source, Idle, Sending
  <2>3. Planned'
    BY <2>0, <2>6, Stable DEF TransferInv, Planned, Sending
  <2>4. Prefixes' /\ Linked' /\ RefIsWholeSnapshot'
    BY <2>0, SameDisk DEF TransferInv
  <2>5. Hashes'
    <3>1. ASSUME NEW g \in Hashed, NEW k \in Commit, kind # "plain", Dest(g, k) = Here
          PROVE  SomeCommit(g, Here)
      <4>1. g \in Files /\ layout \in {"cache", "files"}
        BY DEF TransferConstants, TransferInv, Types
      <4>2. run.f \in Hashed /\ (g = run.f \/ layout = "cache")
        BY <2>6, <3>1, <4>1, SameBlob DEF Sending
      <4>3. PICK j \in Commit : file[Here] = Whole(run.f, j)
        BY <3>1, <4>2 DEF TransferInv, Hashes, SomeCommit
      <4>4. CASE g = run.f
        BY <4>3, <4>4 DEF SomeCommit
      <4>5. CASE layout = "cache"
        <5>1. file[Here] \in {<<>>, Whole(g, k)} /\ file[Here] # <<>>
          BY <3>1, <4>1, <4>5 DEF TransferInv, Prefixes, Planned
        <5> QED
          BY <5>1 DEF SomeCommit
      <4> QED
        BY <4>2, <4>4, <4>5
    <3>2. \A g \in Hashed, k \in Commit :
            kind # "plain" /\ Dest(g, k) \in row.done \cup {Here} => SomeCommit(g, Dest(g, k))
      BY <3>1 DEF TransferInv, Hashes, NoMixture, SomeCommit, Commit
    <3> QED
      BY <2>0, <2>8, <3>2, Stable DEF Hashes, NoMixture, SomeCommit, Commit
  <2> QED
    BY <2>1, <2>2, <2>3, <2>4, <2>5 DEF TransferInv
<1>9. ASSUME StartLinks, UNCHANGED late PROVE TransferInv'
  <2> USE <1>9 DEF StartLinks, ReadyToLink, disk, TransferConstants
  <2>0. UNCHANGED <<kind, layout>>
    OBVIOUS
  <2>1. Types'
    BY Stable, <2>0 DEF TransferInv, Types, RunType, Planning, Choosing, Sending, Linking, RowType, Idle
  <2>2. Source'
    BY Stable, <2>0 DEF TransferInv, Source, Types, RunType, Planning, Choosing, Sending, Linking, Idle
  <2>3. Planned'
    BY Stable, <2>0 DEF TransferInv, Planned, Types, RunType, Planning, Choosing, Sending, Linking, Idle, Here
  <2>4. Prefixes' /\ Linked' /\ RefIsWholeSnapshot'
    BY <2>0, SameDisk DEF TransferInv
  <2>5. Hashes'
    BY Stable, <2>0, SameFiles DEF TransferInv, Hashes, Types, RowType, Idle, SomeCommit, Here
  <2> QED
    BY <2>1, <2>2, <2>3, <2>4, <2>5 DEF TransferInv
<1>10. ASSUME PutRef, UNCHANGED late PROVE TransferInv'
  <2> USE <1>10 DEF PutRef, LinksDone
  <2>0. UNCHANGED <<kind, layout>>
    OBVIOUS
  <2>6. run \in Linking
    BY RunIs DEF TransferInv, Types
  <2>7. run' \in Linking /\ run'.at = "finish" /\ run'.sel = run.sel
    BY <2>6 DEF Linking
  <2>1. Types'
    BY <2>6, <2>7, Stable, <2>0 DEF TransferInv, Types, RunType, Linking, Commit
  <2>2. Source'
    BY <2>7, <2>6 DEF TransferInv, Source, Idle, Linking
  <2>3. Planned'
    BY <2>7 DEF Planned
  <2>4. Prefixes' /\ Linked' /\ RefIsWholeSnapshot'
    <3>1. kind = "hf" => \A f \in Files : \E l \in links : l.commit = run.commit /\ l.path = f
      BY <2>6 DEF TransferInv, Source, Planned, Idle, Linking
    <3>2. RefIsWholeSnapshot'
      BY <3>1 DEF RefIsWholeSnapshot
    <3>3. Prefixes' /\ Linked'
      BY <2>0, Stable DEF TransferInv, Prefixes, Linked
    <3> QED
      BY <3>2, <3>3
  <2>5. Hashes'
    BY <2>0, <2>7, SameFiles DEF TransferInv, Hashes
  <2> QED
    BY <2>1, <2>2, <2>3, <2>4, <2>5 DEF TransferInv
<1>11. ASSUME Completed, UNCHANGED late PROVE TransferInv'
  <2> USE <1>11 DEF Completed, disk, TransferConstants
  <2>0. UNCHANGED <<kind, layout>>
    OBVIOUS
  <2>1. Types'
    BY Stable, <2>0 DEF TransferInv, Types, RunType, Planning, Choosing, Sending, Linking, RowType, Idle
  <2>2. Source'
    BY Stable, <2>0 DEF TransferInv, Source, Types, RunType, Planning, Choosing, Sending, Linking, Idle
  <2>3. Planned'
    BY Stable, <2>0 DEF TransferInv, Planned, Types, RunType, Planning, Choosing, Sending, Linking, Idle, Here
  <2>4. Prefixes' /\ Linked' /\ RefIsWholeSnapshot'
    BY <2>0, SameDisk DEF TransferInv
  <2>5. Hashes'
    BY Stable, <2>0, SameFiles DEF TransferInv, Hashes, Types, RowType, Idle, SomeCommit, Here
  <2> QED
    BY <2>1, <2>2, <2>3, <2>4, <2>5 DEF TransferInv
<1>12. ASSUME NEW f \in Files, Skip(f), UNCHANGED late PROVE TransferInv'
  <2> USE <1>12 DEF Skip, Drop, disk, TransferConstants
  <2>0. UNCHANGED <<kind, layout>>
    OBVIOUS
  <2>1. Types'
    BY Stable, <2>0 DEF TransferInv, Types, RunType, Planning, Choosing, Sending, Linking, RowType, Idle
  <2>2. Source'
    BY Stable, <2>0 DEF TransferInv, Source, Types, RunType, Planning, Choosing, Sending, Linking, Idle
  <2>3. Planned'
    BY Stable, <2>0 DEF TransferInv, Planned, Types, RunType, Planning, Choosing, Sending, Linking, Idle, Here
  <2>4. Prefixes' /\ Linked' /\ RefIsWholeSnapshot'
    BY <2>0, SameDisk DEF TransferInv
  <2>5. Hashes'
    BY Stable, <2>0, SameFiles DEF TransferInv, Hashes, Types, RowType, Idle, SomeCommit, Here
  <2> QED
    BY <2>1, <2>2, <2>3, <2>4, <2>5 DEF TransferInv
<1>13. ASSUME NEW f \in Files, Open(f), UNCHANGED late PROVE TransferInv'
  <2> USE <1>13 DEF Open
  <2>0. UNCHANGED <<kind, layout>>
    OBVIOUS
  <2> DEFINE d == Dest(f, run.commit)
  <2>6. run \in Choosing /\ d \in Dests /\ part[d] \in Chunks
    BY RunIs, Sizes DEF TransferInv, Types, Choosing, Disks
  <2>7. row' \in RowType /\ row'.done = row.done
    BY <2>6 DEF TransferInv, Types, RowType
  <2>8. CASE run' = Idle /\ part' = part
    <3>1. Types'
      BY <2>7, <2>8, Stable, <2>0 DEF TransferInv, Types, RunType
    <3>2. Source' /\ Planned'
      BY <2>8 DEF TransferInv, Source, Planned, Idle
    <3>3. Prefixes' /\ Linked' /\ RefIsWholeSnapshot'
      BY <2>8, SameDisk DEF TransferInv
    <3>4. Hashes'
      BY <2>7, <2>8, SameFiles, <2>0 DEF TransferInv, Hashes, Idle
    <3> QED
      BY <3>1, <3>2, <3>3, <3>4 DEF TransferInv
  <2>9. ASSUME NEW start, start \in {0, Len(part[d])},
               part' = [part EXCEPT ![d] = SubSeq(@, 1, start)],
               run' = [at |-> "send", commit |-> run.commit, sel |-> run.sel, partial |-> run.partial,
                       todo |-> run.todo, written |-> run.written, f |-> f,
                       from |-> IF kind = "plain" THEN head ELSE run.commit]
        PROVE  TransferInv'
    <3> DEFINE s == SubSeq(part[d], 1, start)
    <3>1. s = <<>> \/ s = part[d]
      BY <2>6, <2>9 DEF Chunks
    <3>2. s \in Chunks
      <4>1. <<>> \in Chunks /\ part[d] \in Chunks
        BY <2>6 DEF Chunks, TransferConstants
      <4> QED
        BY <3>1, <4>1
    <3>3. ASSUME layout = "cache", NEW g \in Files, NEW c \in Commit, d = Dest(g, c)
          PROVE  PrefixOf(s, g, c)
      <4>1. PrefixOf(part[d], g, c)
        BY <3>3 DEF TransferInv, Prefixes
      <4>2. PrefixOf(<<>>, g, c)
        BY Sizes DEF PrefixOf
      <4> QED
        BY <3>1, <4>1, <4>2
    <3>4. part' = [part EXCEPT ![d] = s]
      BY <2>6, <2>9
    <3>5. UNCHANGED <<kind, layout, file, links, ref>>
      OBVIOUS
    <3> HIDE DEF s, d
    <3>6. part' \in Disks /\ Prefixes' /\ Linked' /\ RefIsWholeSnapshot'
      BY <2>6, <3>2, <3>3, <3>4, <3>5, PartialFacts
    <3>7. run' \in Sending
      BY <2>6, <2>9 DEF Sending, Choosing, TransferInv, Types
    <3>8. Types'
      BY <2>7, <3>6, <3>7, Stable, <2>0 DEF TransferInv, Types, RunType
    <3>9. Source'
      BY <2>9 DEF TransferInv, Source, Idle
    <3>10. Planned'
      BY <2>9, Stable, <2>0 DEF TransferInv, Planned
    <3>11. Hashes'
      BY <2>7, <2>9, SameFiles, <2>0 DEF TransferInv, Hashes
    <3> QED
      BY <3>6, <3>8, <3>9, <3>10, <3>11 DEF TransferInv
  <2> QED
    BY <2>8, <2>9 DEF Fail
<1>14. ASSUME NEW f \in Files, Link(f), UNCHANGED late PROVE TransferInv'
  <2> USE <1>14 DEF Link, Drop
  <2>0. UNCHANGED <<kind, layout>>
    OBVIOUS
  <2> DEFINE l == [commit |-> run.commit, path |-> f, dest |-> Dest(f, run.commit)]
  <2>6. run \in Linking /\ Dest(f, run.commit) \in Dests /\ l \in LinkType
    BY RunIs, Sizes DEF TransferInv, Types, Linking, LinkType
  <2>7. /\ run' \in Linking /\ run'.at = "link" /\ run'.commit = run.commit
        /\ run'.sel = run.sel /\ run'.todo = run.todo \ {f}
    BY <2>6 DEF Linking
  <2>8. l.commit = run.commit /\ l.path = f /\ l.dest = Dest(f, run.commit) /\ links' = links \cup {l}
    OBVIOUS
  <2>9. layout = "cache" /\ file[l.dest] # <<>>
    BY <2>6, <2>8 DEF TransferInv, Planned, Linking
  <2> HIDE DEF l
  <2>1. Types'
    BY <2>6, <2>7, <2>8, Stable, <2>0 DEF TransferInv, Types, RunType
  <2>2. Source'
    BY <2>6, <2>7 DEF TransferInv, Source, Idle, Linking
  <2>3. Planned'
    <3>1. \A g \in run.sel \ run'.todo : \E m \in links' : m.commit = run.commit /\ m.path = g
      BY <2>7, <2>8 DEF TransferInv, Planned
    <3>2. \A g \in run.sel : file'[Dest(g, run.commit)] # <<>>
      BY DEF TransferInv, Planned
    <3>3. run'.todo \subseteq run'.sel
      BY <2>7 DEF TransferInv, Planned
    <3> QED
      BY <2>0, <2>7, <2>9, <3>1, <3>2, <3>3, Stable DEF Planned
  <2>4. Prefixes' /\ Linked' /\ RefIsWholeSnapshot'
    <3>1. Prefixes'
      BY <2>0, Stable DEF TransferInv, Prefixes
    <3>2. Linked'
      BY <2>0, <2>8, <2>9, Stable DEF TransferInv, Linked
    <3>3. RefIsWholeSnapshot'
      BY <2>8 DEF TransferInv, RefIsWholeSnapshot
    <3> QED
      BY <3>1, <3>2, <3>3
  <2>5. Hashes'
    BY <2>0, <2>7, SameFiles DEF TransferInv, Hashes
  <2> QED
    BY <2>1, <2>2, <2>3, <2>4, <2>5 DEF TransferInv
<1>15. CASE Interrupt
  <2> USE <1>15 DEF Interrupt, disk
  <2>0. UNCHANGED <<kind, layout>>
    OBVIOUS
  <2>1. Types'
    <3>1. late' \in SUBSET (Files \X Commit)
      BY RunIs DEF TransferInv, Types, Sending
    <3> QED
      BY <3>1, Stable, <2>0 DEF TransferInv, Types, RunType
  <2>2. Source'
    BY Stable, <2>0 DEF TransferInv, Source, Types, RunType, Planning, Choosing, Sending, Linking, Idle
  <2>3. Planned'
    BY Stable, <2>0 DEF TransferInv, Planned, Types, RunType, Planning, Choosing, Sending, Linking, Idle, Here
  <2>4. Prefixes' /\ Linked' /\ RefIsWholeSnapshot'
    BY <2>0, SameDisk DEF TransferInv
  <2>5. Hashes'
    BY Stable, <2>0, SameFiles DEF TransferInv, Hashes, Types, RowType, Idle, SomeCommit, Here
  <2> QED
    BY <2>1, <2>2, <2>3, <2>4, <2>5 DEF TransferInv
<1>16. CASE HeadMoves
  <2> USE <1>16 DEF HeadMoves, disk
  <2>0. UNCHANGED <<kind, layout>>
    OBVIOUS
  <2>1. Types'
    <3>1. head' \in Commit
      BY DEF TransferInv, Types, Commit, TransferConstants
    <3> QED
      BY <3>1, Stable, <2>0 DEF TransferInv, Types
  <2>2. Source'
    BY Stable, <2>0 DEF TransferInv, Source, Types, RunType, Planning, Choosing, Sending, Linking, Idle
  <2>3. Planned'
    BY Stable, <2>0 DEF TransferInv, Planned, Types, RunType, Planning, Choosing, Sending, Linking, Idle, Here
  <2>4. Prefixes' /\ Linked' /\ RefIsWholeSnapshot'
    BY <2>0, SameDisk DEF TransferInv
  <2>5. Hashes'
    BY Stable, <2>0, SameFiles DEF TransferInv, Hashes, Types, RowType, Idle, SomeCommit, Here
  <2> QED
    BY <2>1, <2>2, <2>3, <2>4, <2>5 DEF TransferInv
<1>17. ASSUME NEW u \in late, LateEnd(u) PROVE TransferInv'
  <2> USE <1>17 DEF LateEnd
  <2>0. UNCHANGED <<kind, layout>>
    OBVIOUS
  <2>6. u[1] \in Files /\ u[2] \in Commit
    BY DEF TransferInv, Types
  <2>7. /\ file' \in Disks /\ part' \in Disks
        /\ \A d \in Dests : file[d] # <<>> => file'[d] # <<>>
        /\ Prefixes'
        /\ \A g \in Hashed, k \in Commit :
             kind # "plain" /\ SomeCommit(g, Dest(g, k)) => SomeCommit(g, Dest(g, k))'
    BY <2>0, <2>6, PlacedFacts DEF TransferInv
  <2>1. Types'
    BY <2>7, Stable, <2>0 DEF TransferInv, Types
  <2>2. Source'
    BY DEF TransferInv, Source
  <2>3. Planned'
    <3>1. run # Idle => \A f \in run.sel : Dest(f, run.commit) \in Dests
      BY Sizes DEF TransferInv, Types, RunType, Planning, Choosing, Sending, Linking
    <3>2. run.at = "record" => Here \in Dests
      BY RunIs, Sizes DEF TransferInv, Types, Sending, Here
    <3>3. run.at \in {"next", "send", "record"} => run.written \subseteq Dests
      BY RunIs DEF TransferInv, Types, Sending, Choosing
    <3>4. Here' = Here
      BY <2>0, Stable DEF Here
    <3> QED
      BY <2>0, <2>7, <3>1, <3>2, <3>3, <3>4, Stable DEF TransferInv, Planned, Idle
  <2>4. Prefixes' /\ Linked' /\ RefIsWholeSnapshot'
    BY <2>7, Stable, <2>0 DEF TransferInv, Types, LinkType, Linked, RefIsWholeSnapshot
  <2>5. Hashes'
    <3>1. NoMixture'
      BY <2>0, <2>7, Stable DEF TransferInv, Hashes, NoMixture, SomeCommit, Commit
    <3>2. run.at = "record" /\ kind # "plain" /\ run.f \in Hashed => SomeCommit(run.f, Here)'
      BY <2>0, <2>7, Stable, RunIs DEF TransferInv, Types, Hashes, Here, Sending
    <3> QED
      BY <2>0, <3>1, <3>2 DEF Hashes
  <2> QED
    BY <2>1, <2>2, <2>3, <2>4, <2>5 DEF TransferInv
<1>18. ASSUME NEW d \in Dests, CleanupPartial(d) PROVE TransferInv'
  <2> USE <1>18 DEF CleanupPartial
  <2>0. UNCHANGED <<kind, layout>>
    OBVIOUS
  <2>8. run' \in {run, Idle}
    BY DEF Fail
  <2>6. <<>> \in Chunks
    BY DEF Chunks, TransferConstants
  <2>7. \A f \in Files, c \in Commit : PrefixOf(<<>>, f, c)
    BY Sizes DEF PrefixOf
  <2>4. part' \in Disks /\ Prefixes' /\ Linked' /\ RefIsWholeSnapshot'
    BY <2>6, <2>7, PartialFacts
  <2>1. Types'
    BY <2>4, <2>8, Stable, <2>0 DEF TransferInv, Types, RunType
  <2>2. Source'
    BY <2>8, Stable, <2>0 DEF TransferInv, Source, Types, RunType, Planning, Choosing, Sending, Linking, Idle
  <2>3. Planned'
    BY <2>8, Stable, <2>0 DEF TransferInv, Planned, Types, RunType, Planning, Choosing, Sending, Linking, Idle, Here
  <2>5. Hashes'
    BY <2>8, Stable, <2>0, SameFiles DEF TransferInv, Hashes, Types, RowType, Idle, SomeCommit, Here
  <2> QED
    BY <2>1, <2>2, <2>3, <2>4, <2>5 DEF TransferInv
<1>19. CASE UNCHANGED vars
  <2> USE <1>19 DEF vars, disk, TransferConstants
  <2>0. UNCHANGED <<kind, layout>>
    OBVIOUS
  <2>1. Types'
    BY Stable, <2>0 DEF TransferInv, Types, RunType, Planning, Choosing, Sending, Linking, RowType, Idle
  <2>2. Source'
    BY Stable, <2>0 DEF TransferInv, Source, Types, RunType, Planning, Choosing, Sending, Linking, Idle
  <2>3. Planned'
    BY Stable, <2>0 DEF TransferInv, Planned, Types, RunType, Planning, Choosing, Sending, Linking, Idle, Here
  <2>4. Prefixes' /\ Linked' /\ RefIsWholeSnapshot'
    BY <2>0, SameDisk DEF TransferInv
  <2>5. Hashes'
    BY Stable, <2>0, SameFiles DEF TransferInv, Hashes, Types, RowType, Idle, SomeCommit, Here
  <2> QED
    BY <2>1, <2>2, <2>3, <2>4, <2>5 DEF TransferInv
<1> QED
  BY <1>1, <1>2, <1>3, <1>4, <1>5, <1>6, <1>7, <1>8, <1>9, <1>10, <1>11, <1>12, <1>13, <1>14,
     <1>15, <1>16, <1>17, <1>18, <1>19
  DEF Next, Work

-----------------------------------------------------------------------------
(* What follows.                                                           *)

(* TransferInv holds throughout. *)
THEOREM TransferInvariant == ASSUME TransferConstants PROVE Spec => []TransferInv
<1>1. Init => TransferInv
  BY TransferInit
<1>2. TransferInv /\ [Next]_vars => TransferInv'
  BY TransferStep
<1> QED
  BY <1>1, <1>2, PTL DEF Spec

(* download_run, copy_run and execute, however often they are interrupted  *)
(* and resumed and wherever the revision moves: a snapshot link leads to   *)
(* the whole content of its path at its commit, and a ref of a download to *)
(* a commit all of whose files are linked.                                 *)
THEOREM SnapshotsStayWhole == ASSUME TransferConstants PROVE Spec => []SnapshotsAreWhole
<1>1. TransferInv => SnapshotsAreWhole
  <2> SUFFICES ASSUME TransferInv PROVE SnapshotsAreWhole
    OBVIOUS
  <2>1. TypeOK
    <3>1. \A d \in Dests : \A chunks \in {file[d], part[d]} :
            Len(chunks) <= Size /\ \A i \in 1..Len(chunks) : chunks[i] \in Contents
      BY DEF TransferInv, Types, Disks, Chunks
    <3>2. Locked \subseteq Dests
      BY Sizes DEF TransferInv, Types, Locked
    <3> QED
      BY <3>1, <3>2 DEF TransferInv, Types, TypeOK, LinkType, RowType, Commit
  <2>2. LinksLeadToContent
    BY DEF TransferInv, Types, LinkType, Linked, Prefixes, LinksLeadToContent
  <2> QED
    BY <2>1, <2>2 DEF TransferInv, SnapshotsAreWhole
<1> QED
  BY <1>1, TransferInvariant, PTL

(* fs.write verifies before it renames: a file of known hash that a row    *)
(* finished is one commit's, never parts of two.                           *)
THEOREM FinishedIsOneCommit == ASSUME TransferConstants PROVE Spec => []NoMixture
<1>1. TransferInv => NoMixture
  BY DEF TransferInv, Hashes
<1> QED
  BY <1>1, TransferInvariant, PTL
=============================================================================
