------------------------------ MODULE Contract ------------------------------
(***************************************************************************)
(* The ObjectiveContract (ai-org-orchestrator/src/main.rs, manager.rs):    *)
(* drafted, reviewed, patched after each rejection and reviewed again, on  *)
(* checkpoints that a relaunch resumes from.                               *)
(*                                                                         *)
(* Abstractions: a review is its verdict and the text it was asked about;  *)
(* a file whose write a crash cuts off is left empty, and an empty review  *)
(* is no approval.                                                         *)
(***************************************************************************)
EXTENDS Patch

CONSTANTS
  MaxIter,   \* args.max_iter
  Drafts,    \* the texts the author may write in full
  Replies    \* the diffs, several of them or none, the author may answer a review with

ASSUME ContractAssumption ==
  /\ MaxIter \in Nat
  /\ \A d \in Drafts : d \in Seq(STRING)
  /\ \A r \in Replies : r \in Seq(Diff)

Document == "document"

VARIABLES
  draft,      \* draft[n]: checkpoint MissionArchitect/iter/n/worker, for the n it has
  review,     \* review[n]: checkpoint MissionArchitect/iter/n/review: verdict and text judged
  contract,   \* objective_contract.md: its text, or nothing
  pc, iter,   \* the running launch and its round
  last,       \* last_output
  torn        \* a write was cut off (history)

contractVars == <<draft, review, contract, pc, iter, last, torn>>

Rounds == 0..MaxIter
Nothing == [n \in {} |-> <<>>]

\* Every variable has its type: no round goes past max_iter, and a review is of a draft.
ContractTypeOK ==
  /\ DOMAIN review \subseteq DOMAIN draft /\ DOMAIN draft \subseteq {n \in Rounds : n < MaxIter}
  /\ \A n \in DOMAIN review : review[n].verdict \in {"approved", "rejected"}
  /\ contract = {} \/ \E t \in contract : contract = {t}
  /\ pc \in {"down", "failed", "draft", "review", "emit", "done"}
  /\ iter \in Rounds /\ torn \in BOOLEAN

ContractInit ==
  /\ draft = Nothing /\ review = Nothing /\ contract = {}
  /\ pc = "down" /\ iter = 0 /\ last = <<>> /\ torn = FALSE

\* A checkpoint of a round that has none yet.
Saved(checkpoints, n, value) ==
  [m \in DOMAIN checkpoints \cup {n} |-> IF m = n THEN value ELSE checkpoints[m]]

\* A workspace without a contract starts the loop over on its checkpoints.
Launch ==
  /\ pc \in {"down", "failed"} /\ contract = {}
  /\ iter' = 0 /\ last' = <<>>
  /\ pc' = IF MaxIter = 0 THEN "emit" ELSE "draft"
  /\ UNCHANGED <<draft, review, contract, torn>>

\* The first round writes the document, the others patch it; a patch that cannot be applied
\* falls back to a new document, in the same checkpoint.
Written ==
  IF iter = 0 THEN Drafts
  ELSE UNION {LET patched == {s[Document] : s \in ApplyPatch([f \in {Document} |-> last], r)}
              IN IF patched = {} THEN Drafts ELSE patched : r \in Replies}

Draft ==
  /\ pc = "draft" /\ pc' = "review"
  /\ \/ iter \in DOMAIN draft /\ last' = draft[iter] /\ UNCHANGED draft
     \/ /\ iter \notin DOMAIN draft /\ last' \in Written
        /\ draft' = Saved(draft, iter, last')
  /\ UNCHANGED <<review, contract, iter, torn>>

\* Mutant: every round's review has one id.
ReviewId_One == 0
ReviewId == iter

\* Approval ends the loop, and so does the last rejection: the last output is accepted.
AfterReview(verdict) ==
  \/ verdict = "approved" /\ pc' = "emit" /\ UNCHANGED iter
  \/ /\ verdict = "rejected" /\ iter' = iter + 1
     /\ pc' = IF iter + 1 = MaxIter THEN "emit" ELSE "draft"

Review ==
  /\ pc = "review"
  /\ \/ ReviewId \in DOMAIN review /\ AfterReview(review[ReviewId].verdict) /\ UNCHANGED review
     \/ /\ ReviewId \notin DOMAIN review
        /\ \E verdict \in {"approved", "rejected"} :
             /\ review' = Saved(review, ReviewId, [verdict |-> verdict, of |-> last])
             /\ AfterReview(verdict)
  /\ UNCHANGED <<draft, contract, last, torn>>

Emit ==
  /\ pc = "emit" /\ contract' = {last} /\ pc' = "done"
  /\ UNCHANGED <<draft, review, iter, last, torn>>

\* An agent call fails: the launch panics.
Fails ==
  /\ pc \in {"draft", "review"} /\ pc' = "failed"
  /\ UNCHANGED <<draft, review, contract, iter, last, torn>>

Crash ==
  /\ pc \in {"draft", "review", "emit"} /\ pc' = "down"
  /\ UNCHANGED <<draft, review, contract, iter, last, torn>>

\* The process dies after it created a file and before it filled it.
CutOff ==
  /\ pc' = "down" /\ torn' = TRUE
  /\ \/ /\ pc = "draft" /\ iter \notin DOMAIN draft
        /\ draft' = Saved(draft, iter, <<>>) /\ UNCHANGED <<review, contract>>
     \/ /\ pc = "review" /\ ReviewId \notin DOMAIN review
        /\ review' = Saved(review, ReviewId, [verdict |-> "rejected", of |-> last])
        /\ UNCHANGED <<draft, contract>>
     \/ pc = "emit" /\ contract' = {<<>>} /\ UNCHANGED <<draft, review>>
  /\ UNCHANGED <<iter, last>>

ContractNext == Launch \/ Draft \/ Review \/ Emit \/ Fails \/ Crash \/ CutOff

ContractSpec == ContractInit /\ [][ContractNext]_contractVars

-----------------------------------------------------------------------------
(* Properties. *)

Approves(n) == review[n].verdict = "approved"

\* The contract everything is built on is a text the reviewer approved as it stands, after
\* the rejection of every earlier one; or the last of max_iter texts, each rejected as it
\* stood.  Crashes and relaunches between drafts, patches and reviews do not change that; a
\* write cut off by a crash is the exception.
ContractIsReviewed ==
  \A text \in contract : torn \/
    \/ MaxIter = 0 /\ text = <<>>
    \/ \E n \in DOMAIN review :
         /\ draft[n] = text /\ (Approves(n) \/ n = MaxIter - 1)
         /\ \A m \in 0..n : m \in DOMAIN review /\ review[m].of = draft[m] /\ (Approves(m) => m = n)

HunksOf(replies) == UNION {{d.hunks : d \in Range(r)} : r \in {r \in replies : Parses(r)}}

\* A block that can overlap itself: how its beginning reads is how it ends.
Overlaps(block) == \E n \in 1..(Len(block) - 1) : SubSeq(block, 1, n) = SubSeq(block, Len(block) - n + 1, Len(block))

\* Hunks applied one after the other make the text that the diff means when all of its hunks
\* refer to the text the author was shown, or are refused: what one hunk adds or removes never
\* draws another to a place the author did not see.  Blocks that overlap themselves are the
\* exception (see AmbiguousIsRefused).
HunksAreApplied ==
  \A hunks \in HunksOf(Replies) :
    (\A body \in Range(hunks) : ~Overlaps(OldBlock(body))) =>
      \A text \in Meant(last, hunks) : ApplyHunks(last, hunks) \subseteq {text}

\* "Each hunk's `old_block` must match exactly once": a block with more than one place in the
\* document is reported, not guessed at.
AmbiguousIsRefused ==
  \A hunks \in HunksOf(Replies) :
    (\E i, j \in Places(last, OldBlock(hunks[1])) : i # j) => ApplyHunks(last, hunks) = {}
=============================================================================
