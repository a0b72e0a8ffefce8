-------------------------------- MODULE Patch --------------------------------
(***************************************************************************)
(* Applying a model's unified diff to the files it was shown               *)
(* (ai-org-orchestrator/src/patch.rs): hunks are located by their own      *)
(* context and removed lines, never by line numbers.                       *)
(*                                                                         *)
(* A line is a sequence of letters, a text a sequence of letters and       *)
(* newlines.  A diff is taken after its headers are read: a record of its  *)
(* file, whether its old side is /dev/null, and its hunks' bodies, each a  *)
(* sequence of marked lines.  An operation that may fail returns the set   *)
(* of its results: one of them, or none.                                   *)
(***************************************************************************)
EXTENDS Naturals, Sequences, SequencesExt

NL == "newline"
Marks == {"-", "+", " ", "\\"}
Body == Seq([mark : Marks, line : Seq(STRING)])
Diff == [file : STRING, isNew : BOOLEAN, hunks : Seq(Body)]
Dashes == <<"-- ">>  \* a line that begins with "-- "

\* Lines joined by newlines, as Vec<String>::join("\n") does.
JoinLines(lines) ==
  IF lines = <<>> THEN <<>>
  ELSE FoldLeft(LAMBDA text, line : text \o <<NL>> \o line, Head(lines), Tail(lines))

Texts(body, marks) ==
  FoldLeft(LAMBDA lines, l : IF l.mark \in marks THEN Append(lines, l.line) ELSE lines, <<>>, body)

\* What must be in the file, and what it becomes; `\ No newline at end of file` is neither.
OldBlock(body) == JoinLines(Texts(body, {"-", " "}))
NewBlock(body) == JoinLines(Texts(body, {"+", " "}))

\* A hunk ends at a line that looks like a file header, and so does one whose removed line
\* begins with "-- ": the patch is then refused, like an empty hunk or a diff with none.
WellFormed(body) == body # <<>> /\ [mark |-> "-", line |-> Dashes] \notin Range(body)
Parses(diffs) ==
  /\ diffs # <<>>
  /\ \A d \in Range(diffs) : d.hunks # <<>> /\ \A b \in Range(d.hunks) : WellFormed(b)

\* Where a block begins in a text.
Places(text, block) ==
  {i \in 1..Len(text) : i + Len(block) <= Len(text) + 1 /\ SubSeq(text, i, i + Len(block) - 1) = block}

Replace(text, i, old, new) ==
  SubSeq(text, 1, i - 1) \o new \o SubSeq(text, i + Len(old), Len(text))

\* str::matches counts from the left and skips what it matched: a second place that overlaps
\* the first is not seen.
CountedOnce(text, block) ==
  {i \in Places(text, block) : \A j \in Places(text, block) : i <= j /\ j < i + Len(block)}

\* Mutant: the first match is taken, however many there are.
ApplyHunk_First(text, body) ==
  IF OldBlock(body) = <<>> THEN {}
  ELSE {Replace(text, i, OldBlock(body), NewBlock(body)) :
          i \in {j \in Places(text, OldBlock(body)) : \A k \in Places(text, OldBlock(body)) : j <= k}}

ApplyHunk(text, body) ==
  IF OldBlock(body) = <<>> THEN {}
  ELSE {Replace(text, i, OldBlock(body), NewBlock(body)) : i \in CountedOnce(text, OldBlock(body))}

\* Each hunk is located in what the hunks before it left.
ApplyHunks(text, hunks) ==
  FoldLeft(LAMBDA texts, body : UNION {ApplyHunk(t, body) : t \in texts}, {text}, hunks)

\* A new file is its hunks' added lines, ended by a newline.
NewContent(hunks) ==
  LET content == JoinLines([i \in 1..Len(hunks) |-> NewBlock(hunks[i])])
  IN IF content # <<>> /\ Last(content) # NL THEN Append(content, NL) ELSE content

ApplyDiff(sections, d) ==
  IF d.isNew
  THEN {[f \in DOMAIN sections \cup {new} |-> IF f = new THEN NewContent(d.hunks) ELSE sections[f]] :
          new \in {d.file} \ DOMAIN sections}
  ELSE UNION {{[sections EXCEPT ![f] = t] : t \in ApplyHunks(sections[f], d.hunks)} :
                f \in {d.file} \cap DOMAIN sections}

ApplyPatch(sections, diffs) ==
  IF ~Parses(diffs) THEN {}
  ELSE FoldLeft(LAMBDA ss, d : UNION {ApplyDiff(s, d) : s \in ss}, {sections}, diffs)

-----------------------------------------------------------------------------
(* What a diff means. *)

\* What stands for the letter at a place, when each hunk in the domain of place has its block
\* there: the new block for the first letter of the old one, and nothing for its other letters.
Piece(text, hunks, place, at) ==
  IF \E i \in DOMAIN place : place[i] = at
  THEN NewBlock(hunks[CHOOSE i \in DOMAIN place : place[i] = at])
  ELSE IF \E i \in DOMAIN place : place[i] < at /\ at < place[i] + Len(OldBlock(hunks[i]))
  THEN <<>>
  ELSE <<text[at]>>

\* The text with those blocks replaced, all at once.
Rewritten(text, hunks, place) ==
  FoldLeftDomain(LAMBDA made, at : made \o Piece(text, hunks, place, at), <<>>, text)

\* The hunks all refer to the text the model was shown: each has one place in it, and they keep
\* clear of each other.
Meant(text, hunks) ==
  LET place == [i \in DOMAIN hunks |-> CHOOSE at \in 1..Len(text) : Places(text, OldBlock(hunks[i])) = {at}]
      end == [i \in DOMAIN hunks |-> place[i] + Len(OldBlock(hunks[i]))]
  IN IF /\ \A i \in DOMAIN hunks : \E at \in 1..Len(text) : Places(text, OldBlock(hunks[i])) = {at}
        /\ \A i, j \in DOMAIN hunks : i # j => end[i] <= place[j] \/ end[j] <= place[i]
     THEN {Rewritten(text, hunks, place)}
     ELSE {}
=============================================================================
