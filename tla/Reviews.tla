--------------------------------- MODULE Reviews ---------------------------------
(***************************************************************************)
(* The reviews of one product, the copy of their number and average in the *)
(* product's row, and the votes for them (ReviewsService).                 *)
(*                                                                         *)
(* A request reads the review, and then writes it and the copy in one      *)
(* transaction.  The copy is computed from the reviews committed when its  *)
(* statement starts, before the row of the product is locked, so two of    *)
(* them may miss each other.  A vote is read and then counted by what was  *)
(* read, so two votes of one customer may be counted for one.              *)
(***************************************************************************)
EXTENDS Integers, FiniteSetsExt

CONSTANTS
    Writers, Voters,  \* customers who write reviews, and who vote for them
    ReviewRequests,   \* requests to write a review or to vote, served at the same time
    Ratings,
    MaxReviews        \* bound: reviews ever written

ASSUME ReviewsAssumption ==
    /\ IsFiniteSet(Writers)
    /\ Ratings \subseteq Nat
    /\ MaxReviews \in Nat

VARIABLES
    review,           \* Review rows, one for each customer at most: the rating, or 0
    copy,             \* reviewCount, and avgRating as the sum it stands for
    votes,            \* ReviewVote rows: [by, of, helpful]
    helpful,          \* helpfulCount of each review
    post,             \* what each request has read, written and summed
    written,
    inStep,           \* no request that others came between has left its mark on copy
    doubled           \* reviews a customer voted for by two requests at once

reviewVars == <<review, copy, votes, helpful, post, written, inStep, doubled>>

Unposted == [stage |-> "idle"]
Vote == [by : Voters, of : Writers, helpful : BOOLEAN]
Reviewed == {u \in Writers : review[u] # 0}
Copy(of) == [count |-> Cardinality({u \in Writers : of[u] # 0}),
             sum   |-> MapThenSumSet(LAMBDA u : of[u], Writers)]

ReviewsTypeOK ==
    /\ review \in [Writers -> Ratings \cup {0}]
    /\ copy.count \in 0..Cardinality(Writers) /\ copy.sum \in Nat
    /\ votes \subseteq Vote
    /\ helpful \in [Writers -> Int]
    /\ \A q \in ReviewRequests :
          \/ post[q] = Unposted
          \/ post[q] \in [stage : {"read"}, of : Writers, old : Ratings \cup {0}, alone : BOOLEAN]
          \/ post[q].stage = "summed" /\ post[q].new \in Ratings \cup {0}
          \/ post[q] \in [stage : {"vote"}, vote : Vote, found : SUBSET Vote]
    /\ written \in 0..MaxReviews
    /\ inStep \in BOOLEAN
    /\ doubled \subseteq Writers

ReviewsInit ==
    /\ review = [u \in Writers |-> 0]
    /\ copy = Copy([u \in Writers |-> 0])
    /\ votes = {}
    /\ helpful = [u \in Writers |-> 0]
    /\ post = [q \in ReviewRequests |-> Unposted]
    /\ written = 0
    /\ inStep = TRUE
    /\ doubled = {}

-----------------------------------------------------------------------------
\* A request to write, change or delete a review starts with a read.  Requests
\* under way are no longer alone.
ReadReview(q, u) ==
    LET busy == {x \in ReviewRequests : post[x].stage \in {"read", "summed"}}
    IN  /\ post[q] = Unposted
        /\ post' = [x \in ReviewRequests |->
              IF x = q THEN [stage |-> "read", of |-> u, old |-> review[u], alone |-> busy = {}]
              ELSE IF x \in busy THEN [post[x] EXCEPT !.alone = FALSE]
              ELSE post[x]]
        /\ UNCHANGED <<review, copy, votes, helpful, written, inStep, doubled>>

LocksReview(q, u) == post[q].stage = "summed" /\ post[q].of = u

\* The transaction: a new review, if there is none by now, or a change or deletion
\* of one that is still there; then the copy is computed, but not for a change to
\* the rating that was read.
WriteReview(q, rating) ==
    LET old == post[q].old
        u == post[q].of
    IN  /\ post[q].stage = "read"
        /\ \A x \in ReviewRequests : ~LocksReview(x, u)
        /\ (old = 0) = (review[u] = 0)
        /\ old = 0 => rating # 0 /\ written < MaxReviews
        /\ written' = IF old = 0 THEN written + 1 ELSE written
        /\ post' = [post EXCEPT ![q] =
              [stage |-> "summed", of |-> u, old |-> old, new |-> rating, alone |-> @.alone,
               copy  |-> Copy([review EXCEPT ![u] = rating])]]
        /\ UNCHANGED <<review, copy, votes, helpful, inStep, doubled>>

Refreshes(q) == post[q].new # post[q].old

\* A deletion takes the votes along, and those under way fail.
CommitReview(q) ==
    LET new == post[q].new
        u == post[q].of
        gone == IF new = 0 THEN {u} ELSE {}
    IN  /\ post[q].stage = "summed"
        /\ review' = [review EXCEPT ![u] = new]
        /\ copy' = IF Refreshes(q) THEN post[q].copy ELSE copy
        /\ inStep' = (post[q].alone /\ (inStep \/ new # post[q].old))
        /\ votes' = {x \in votes : x.of \notin gone}
        /\ helpful' = [w \in Writers |-> IF w \in gone THEN 0 ELSE helpful[w]]
        /\ doubled' = doubled \ gone
        /\ post' = [x \in ReviewRequests |->
              IF x = q \/ (post[x].stage = "vote" /\ post[x].vote.of \in gone) THEN Unposted
              ELSE post[x]]
        /\ UNCHANGED written

\* Not found, a conflict, a roll-back, a dead process.
AbortReview(q) ==
    /\ post[q] # Unposted
    /\ post' = [post EXCEPT ![q] = Unposted]
    /\ UNCHANGED <<review, copy, votes, helpful, written, inStep, doubled>>

VotesOf(by, of) == {x \in votes : x.by = by /\ x.of = of}

\* Another request of the customer votes for the review.
Doubles(vote) ==
    \E x \in ReviewRequests :
        post[x].stage = "vote" /\ post[x].vote.by = vote.by /\ post[x].vote.of = vote.of

\* voteReview: the vote there is, ...
ReadVote(q, vote) ==
    /\ post[q] = Unposted
    /\ vote.of \in Reviewed \ {vote.by}
    /\ Doubles(vote) => vote.of \notin doubled      \* bound: twice at once, once a review
    /\ post' = [post EXCEPT ![q] =
          [stage |-> "vote", vote |-> vote, found |-> VotesOf(vote.by, vote.of)]]
    /\ doubled' = IF Doubles(vote) THEN doubled \cup {vote.of} ELSE doubled
    /\ UNCHANGED <<review, copy, votes, helpful, written, inStep>>

\* What goes from the count: what was found, less what is put in its place.
Counted(found, vote) ==
    Cardinality({x \in found : x.helpful}) - (IF vote.helpful /\ vote \notin found THEN 1 ELSE 0)

\* ... and a new one, the other one, or none when it is repeated.  One that appeared
\* meanwhile is a conflict, one that went is not found.
WriteVote(q) ==
    LET vote == post[q].vote
        found == post[q].found
        mine == VotesOf(vote.by, vote.of)
    IN  /\ post[q].stage = "vote"
        /\ (found = {}) = (mine = {})
        /\ votes' = (votes \ mine) \cup (IF vote \in found THEN {} ELSE {vote})
        /\ helpful' = [helpful EXCEPT ![vote.of] = @ - Counted(found, vote)]
        /\ post' = [post EXCEPT ![q] = Unposted]
        /\ UNCHANGED <<review, copy, written, inStep, doubled>>

ReviewsNext ==
    \/ \E q \in ReviewRequests :
          \/ \E u \in Writers : ReadReview(q, u)
          \/ \E rating \in Ratings \cup {0} : WriteReview(q, rating)
          \/ CommitReview(q)
          \/ AbortReview(q)
          \/ \E vote \in Vote : ReadVote(q, vote)
          \/ WriteVote(q)

ReviewsSpec == ReviewsInit /\ [][ReviewsNext]_reviewVars
-----------------------------------------------------------------------------
\* reviews.service.ts:39 (B-14): the copy in the product's row is that of its
\* reviews, and becomes so again with the first rating that is written by itself,
\* whatever requests came between each other before.
RatingIsAverage == inStep => copy = Copy(review)

\* reviews.service.ts:123: a review's count is that of the customers who say it
\* helped, however they change their minds and whatever is deleted, as long as no
\* customer votes twice at once.
HelpfulIsVotes ==
    \A of \in Writers \ doubled :
        helpful[of] = Cardinality({x \in votes : x.of = of /\ x.helpful})
=============================================================================
