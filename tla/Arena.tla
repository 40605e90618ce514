-------------------------------- MODULE Arena --------------------------------
(***************************************************************************)
(* The arena of services/chat.rs: a match asks two instances at once and   *)
(* is stored when both have answered; a vote closes it and moves the       *)
(* ratings of its two models.  `vote` has no lock and no transaction: the  *)
(* requests run on several threads and each statement is atomic alone.     *)
(*                                                                         *)
(* A rating is the set of votes that went into it (its number is a float). *)
(***************************************************************************)
EXTENDS Naturals, FiniteSets

CONSTANTS
    Match,       \* matches
    Voter,       \* vote requests
    Models,      \* the two models of each match: [Match -> Model \X Model]
    Model, None

VARIABLES
    match,    \* each match: the answers it waits for, and its row
    vote,     \* each vote request: where it is, what it read
    rating,   \* arena_ratings.rating
    games     \* arena_ratings.games

vars == <<match, vote, rating, games>>
NoVote == [pc |-> "none", on |-> None, ra |-> {}, rb |-> {}]

Init ==
    /\ match = [m \in Match |-> [pc |-> "none", a |-> "asked", b |-> "asked", winner |-> None]]
    /\ vote = [v \in Voter |-> NoVote]
    /\ rating = [x \in Model |-> {}] /\ games = [x \in Model |-> 0]

------------------------------------------------------------------------------
\* create_match: both asked together; the first error is the answer, and it is
\* given when both are done.
CreateMatch(m) ==
    /\ match[m].pc = "none" /\ match' = [match EXCEPT ![m].pc = "asking"]
    /\ UNCHANGED <<vote, rating, games>>
AskEnds(m, side) ==
    /\ match[m].pc = "asking" /\ match[m][side] = "asked"
    /\ \E r \in {"ok", "error"} : match' = [match EXCEPT ![m][side] = r]
    /\ UNCHANGED <<vote, rating, games>>
Joined(m) ==
    /\ match[m].pc = "asking" /\ "asked" \notin {match[m].a, match[m].b}
    /\ match' = [match EXCEPT ![m].pc = IF {match[m].a, match[m].b} = {"ok"} THEN "stored" ELSE "failed"]
    /\ UNCHANGED <<vote, rating, games>>

------------------------------------------------------------------------------
\* vote, one statement at a time.
Go(v, pc) == [vote EXCEPT ![v].pc = pc]
M(v) == match[vote[v].on]
A(v) == Models[vote[v].on][1]
B(v) == Models[vote[v].on][2]

ReadMatch(v, m) ==
    /\ vote[v].pc = "none" /\ match[m].pc = "stored"
    /\ vote' = [vote EXCEPT ![v].on = m, ![v].pc = IF match[m].winner # None THEN "refused" ELSE "set"]
    /\ UNCHANGED <<match, rating, games>>
SetWinner(v) ==
    /\ vote[v].pc = "set"
    /\ match' = [match EXCEPT ![vote[v].on].winner = v]
    /\ vote' = Go(v, IF A(v) = B(v) THEN "done" ELSE "read a")
    /\ UNCHANGED <<rating, games>>
ReadA(v) == vote[v].pc = "read a" /\ vote' = [vote EXCEPT ![v].pc = "read b", ![v].ra = rating[A(v)]]
ReadB(v) == vote[v].pc = "read b" /\ vote' = [vote EXCEPT ![v].pc = "put a", ![v].rb = rating[B(v)]]
ReadRatings(v) == (ReadA(v) \/ ReadB(v)) /\ UNCHANGED <<match, rating, games>>

\* INSERT ... ON CONFLICT: the rating is replaced, the games are counted up.
CountedOnce(x) == 1    \* mutant: games=excluded.games
Counted(x) == games[x] + 1
Upsert(v, x, old, next) ==
    /\ rating' = [rating EXCEPT ![x] = old \cup {v}]
    /\ games' = [games EXCEPT ![x] = Counted(x)]
    /\ vote' = Go(v, next)
PutA(v) == vote[v].pc = "put a" /\ Upsert(v, A(v), vote[v].ra, "put b") /\ UNCHANGED match
PutB(v) == vote[v].pc = "put b" /\ Upsert(v, B(v), vote[v].rb, "done") /\ UNCHANGED match

Next ==
    \/ \E m \in Match : CreateMatch(m) \/ Joined(m) \/ \E side \in {"a", "b"} : AskEnds(m, side)
    \/ \E v \in Voter : \/ \E m \in Match : ReadMatch(v, m)
                        \/ SetWinner(v) \/ ReadRatings(v) \/ PutA(v) \/ PutB(v)
Spec == Init /\ [][Next]_vars

------------------------------------------------------------------------------
Voted(x) == {v \in Voter : /\ vote[v].pc = "done" \/ (vote[v].pc = "put b" /\ x = A(v))
                           /\ x \in {A(v), B(v)} /\ A(v) # B(v)}

\* No vote is lost from the number of games, whatever runs at once; a rating
\* holds at least one of the votes that moved it, and none that did not.
GamesAddUp ==
    \A x \in Model : /\ games[x] = Cardinality(Voted(x))
                     /\ rating[x] \subseteq Voted(x)
                     /\ Voted(x) # {} => rating[x] # {}

\* "this match already has a vote": a match is voted on once.
VotedOnce == \A m \in Match : Cardinality({v \in Voter : vote[v].on = m /\ vote[v].pc \notin {"none", "set", "refused"}}) <= 1
==============================================================================
