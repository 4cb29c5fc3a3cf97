----------------------------- MODULE PeersRating -----------------------------
(***************************************************************************)
(* The peers rating handler (p2p/rating): a reputation score per peer kept *)
(* in two bounded caches, "top" (rating >= 0) and "bad" (rating < 0), and  *)
(* GetTopRatedPeersFromList, which orders candidates top-rated first.      *)
(*                                                                         *)
(* The handler's source is not in this repository; the module follows the  *)
(* spec (sections 3 and 4.2) and the behaviour pinned by                   *)
(* p2p/rating/peersRatingHandler_test.go: the first update of an unseen    *)
(* peer only seeds it at the default rating in the top cache; an increase  *)
(* adds IncreaseStep and a decrease subtracts DecreaseStep, both clamped;  *)
(* a rating reaching 0 from below moves the peer back to the top cache.    *)
(* Updates of one peer are serialized by the handler, so each operation is *)
(* one atomic step.  The caches evict entries on their own (capacity).     *)
(***************************************************************************)
EXTENDS Integers, Sequences, SequencesExt, FiniteSets

CONSTANTS
    Peers,          \* peer identities
    MinRating,      \* minRating
    MaxRating,      \* maxRating
    DefaultRating,  \* rating of a peer seen for the first time
    IncreaseStep,   \* added by IncreaseRating
    DecreaseStep,   \* subtracted by DecreaseRating
    MaxCount        \* largest count asked of GetTopRatedPeersFromList

ASSUME /\ MinRating < 0 /\ 0 < MaxRating
       /\ DefaultRating \in 0..MaxRating
       /\ IncreaseStep > 0 /\ DecreaseStep > 0
       /\ MaxCount \in Nat

Ratings == MinRating..MaxRating

VARIABLES
    top,        \* keys of the top rated cache
    bad,        \* keys of the bad rated cache
    rating,     \* the value stored for each key (meaningful when cached)
    touched     \* history: peers some update has rated

vars == <<top, bad, rating, touched>>

TypeOK ==
    /\ top \subseteq Peers
    /\ bad \subseteq Peers
    /\ rating \in [Peers -> Ratings]
    /\ touched \subseteq Peers

Init ==
    /\ top = {}
    /\ bad = {}
    /\ rating = [p \in Peers |-> DefaultRating]
    /\ touched = {}

Known(p) == p \in top \/ p \in bad

\* First contact: put the default rating in the top cache.
Seed(p) ==
    /\ ~Known(p)
    /\ top' = top \cup {p}
    /\ rating' = [rating EXCEPT ![p] = DefaultRating]
    /\ UNCHANGED bad

\* Store a new rating: a non-negative one goes to the top cache, a negative
\* one to the bad cache; the peer is removed from the other cache in the
\* same critical section.  The write happens even when the value is
\* unchanged by clamping.
Store(p, r) ==
    /\ rating' = [rating EXCEPT ![p] = r]
    /\ IF r >= 0
          THEN /\ top' = top \cup {p}
               /\ bad' = bad \ {p}
          ELSE /\ bad' = bad \cup {p}
               /\ top' = top \ {p}

\* Mutant: the increased rating is not clamped at maxRating.
IncreaseRatingUnclamped(p) ==
    /\ \/ Seed(p)
       \/ /\ Known(p)
          /\ Store(p, rating[p] + IncreaseStep)
    /\ touched' = touched \cup {p}

IncreaseRating(p) ==
    /\ \/ Seed(p)
       \/ /\ Known(p)
          /\ Store(p, IF rating[p] + IncreaseStep > MaxRating
                         THEN MaxRating ELSE rating[p] + IncreaseStep)
    /\ touched' = touched \cup {p}

DecreaseRating(p) ==
    /\ \/ Seed(p)
       \/ /\ Known(p)
          /\ Store(p, IF rating[p] - DecreaseStep < MinRating
                         THEN MinRating ELSE rating[p] - DecreaseStep)
    /\ touched' = touched \cup {p}

-----------------------------------------------------------------------------
(* GetTopRatedPeersFromList(candidates, count).  A candidate that is not in *)
(* the bad cache counts as top rated (an unknown one is taken as seeded at  *)
(* the default rating).  The result keeps the input order, top rated       *)
(* first, then bad rated, and has min(count, len) entries.                 *)

IsTopRated(p) == p \notin bad

\* The two lists the handler fills while scanning the candidates.
RECURSIVE SplitByRating(_)
SplitByRating(cands) ==
    IF cands = <<>> THEN <<<<>>, <<>>>>
    ELSE LET rest == SplitByRating(Tail(cands))
             p == Head(cands)
         IN IF IsTopRated(p) THEN <<<<p>> \o rest[1], rest[2]>>
                             ELSE <<rest[1], <<p>> \o rest[2]>>

TopRatedPeersFromList(cands, count) ==
    IF count <= 0 \/ cands = <<>> THEN <<>>
    ELSE LET tops == SplitByRating(cands)[1]
             bads == SplitByRating(cands)[2]
         IN IF Len(tops) >= count THEN SubSeq(tops, 1, count)
            ELSE tops \o SubSeq(bads, 1, IF count - Len(tops) < Len(bads)
                                         THEN count - Len(tops) ELSE Len(bads))

\* The call may seed the unknown candidates in the top cache ("counted but
\* not necessarily persisted"); a call with count <= 0 or no candidates
\* returns at once and changes nothing.
Candidates == SetToAllKPermutations(Peers)

GetTopRatedPeersFromList(cands, count) ==
    /\ count > 0 /\ cands # <<>>
    /\ \E seeded \in SUBSET {p \in ToSet(cands) : ~Known(p)} :
          /\ top' = top \cup seeded
          /\ rating' = [p \in Peers |-> IF p \in seeded THEN DefaultRating
                                                        ELSE rating[p]]
    /\ UNCHANGED <<bad, touched>>

-----------------------------------------------------------------------------
(* A cache drops an entry to stay within its capacity.                     *)

Evict(p) ==
    /\ Known(p)
    /\ top' = top \ {p}
    /\ bad' = bad \ {p}
    /\ rating' = [rating EXCEPT ![p] = DefaultRating]
    /\ UNCHANGED touched

Next ==
    \/ \E p \in Peers : IncreaseRating(p) \/ DecreaseRating(p) \/ Evict(p)
    \/ \E c \in Candidates, n \in 0..MaxCount : GetTopRatedPeersFromList(c, n)

Spec == Init /\ [][Next]_vars

-----------------------------------------------------------------------------
(* Properties                                                              *)

\* Spec section 3: "a peer's rating ... is never left unset once touched".
TouchedNeverUnset ==
    \A p \in touched : Known(p)

=============================================================================
