------------------------------- MODULE NoteText -------------------------------
(***************************************************************************)
(* The frontmatter of a card's note as text (project/note.rs): the line    *)
(* editor that reads and rewrites single keys and leaves every other line  *)
(* alone.  Between two commands Prettier wraps long values, Obsidian turns *)
(* lists into block lists, and a person adds blank lines and comments.     *)
(* The commands are the stamp of an outcome (set_status.rs) and what       *)
(* lint --fix does to a note with the retired key `design` (lint.rs).      *)
(***************************************************************************)
EXTENDS Naturals, FiniteSets, Sequences, SequencesExt

CONSTANTS
  Labels,     \* labels a note may carry
  Awkward,    \* those that contain a double quote
  Fronts,     \* frontmatter at first
  MaxReforms, \* bound of the model: edits of others
  MaxRevisions \* bound of the model: commands

ASSUME NoteTextAssumption ==
  /\ Awkward \subseteq Labels /\ Cardinality(Awkward) <= 1
  /\ {MaxReforms, MaxRevisions} \subseteq Nat

VARIABLES
  front,     \* Note::front
  says,      \* what the note says, in the eyes of those who edit it (history)
  revised,   \* the keys the last step rewrote (history)
  gapped,    \* whether a list with a blank line in it was rewritten (history)
  reforms, revisions

noteVars == <<front, says, revised, gapped, reforms, revisions>>

-----------------------------------------------------------------------------
(* Lines.  A key has its value inline, or on the lines below it: parts of  *)
(* a wrapped value, indented, or the bullets of a block list, which may    *)
(* stand at column 0.                                                      *)

Inline(key, v) == [k |-> "key", key |-> key, f |-> "scalar", v |-> <<v>>]
FlowList(key, vs) == [k |-> "key", key |-> key, f |-> "list", v |-> vs]
Bare(key) == [k |-> "key", key |-> key, f |-> "empty", v |-> <<>>]
Part(tok) == [k |-> "part", tok |-> tok]
Bullet(v, deep) == [k |-> "bullet", v |-> v, deep |-> deep]
Gap == [k |-> "gap"]
Comment == [k |-> "comment"]

Absent == <<>>
Nothing == [f |-> "none", v |-> <<>>]

\* Position of a key, 0 without it.
Find(t, key) == SelectInSeq(t, LAMBDA l : l.k = "key" /\ l.key = key)

\* One past the lines from i on that are of some kinds.
Past(t, i, kinds) ==
  LET j == SelectInSubSeq(t, i, Len(t), LAMBDA l : l.k \notin kinds) IN IF j = 0 THEN Len(t) + 1 ELSE j

\* Mutant: a value on the lines below is not seen.
NotFolded(t, i) == Nothing

\* folded_continuation: the parts below line i, as a list or as a scalar; a
\* quote that is not closed gives nothing.
Folded(t, i) ==
  LET parts == SubSeq(t, i + 1, Past(t, i + 1, {"part"}) - 1)
      toks == [n \in DOMAIN parts |-> parts[n].tok]
      values == SelectSeq(toks, LAMBDA tok : tok \notin {"[", "]", "<", ">"})
  IN  IF toks = <<>> \/ (Head(toks) = "<" /\ Last(toks) # ">") THEN Nothing
      ELSE [f |-> IF Head(toks) = "[" THEN "list" ELSE "scalar", v |-> values]

\* get_scalar.
GetScalar(t, key) ==
  LET i == Find(t, key) IN
  IF i = 0 \/ t[i].f = "list" THEN Absent
  ELSE IF t[i].f = "scalar" THEN t[i].v
  ELSE IF Folded(t, i).f = "scalar" THEN Folded(t, i).v ELSE Absent

\* parse_flow_list.  A comma counts outside of quotes; the escaped quote of an
\* awkward label counts as one, so the labels after it are read as one text.
ReadFlow(vs) ==
  LET q == SelectInSeq(vs, LAMBDA v : v \in Awkward) IN
  IF q \in {0, Len(vs)} THEN vs ELSE Append(SubSeq(vs, 1, q - 1), "garbled")

\* collect_block_items: blank lines are skipped.
BlockItems(t, i) ==
  LET below == SubSeq(t, i + 1, Past(t, i + 1, {"bullet", "gap"}) - 1)
      bullets == SelectSeq(below, LAMBDA l : l.k = "bullet")
  IN  [n \in DOMAIN bullets |-> bullets[n].v]

\* get_list.
GetList(t, key) ==
  LET i == Find(t, key) IN
  IF i = 0 THEN <<>>
  ELSE IF t[i].f = "list" THEN ReadFlow(t[i].v)
  ELSE IF t[i].f = "scalar" THEN t[i].v
  ELSE IF Folded(t, i).f = "list" THEN ReadFlow(Folded(t, i).v)
  ELSE IF Folded(t, i).f = "scalar" THEN Folded(t, i).v
  ELSE BlockItems(t, i)

\* continuation_end: a blank line ends a value.
ContinuationEnd(t, i) == Past(t, i + 1, {"part", "bullet"})

\* The line of a key, with the lines its value has below it, becomes `lines`;
\* a key that is missing is appended.
Revised(t, key, lines) ==
  LET i == Find(t, key)
      end == IF t[i].f = "empty" THEN ContinuationEnd(t, i) ELSE i + 1
  IN  IF i = 0 THEN t \o lines ELSE SubSeq(t, 1, i - 1) \o lines \o SubSeq(t, end, Len(t))

SetScalar(t, key, v) == Revised(t, key, <<Inline(key, v)>>)
SetList(t, key, vs) == Revised(t, key, <<FlowList(key, vs)>>)
RemoveKey(t, key) == IF Find(t, key) = 0 THEN t ELSE Revised(t, key, <<>>)

-----------------------------------------------------------------------------
NoteTextInit ==
  /\ front \in Fronts
  /\ says = [title |-> GetScalar(front, "title"), labels |-> GetList(front, "labels"),
             design |-> GetScalar(front, "design"), disposition |-> GetScalar(front, "disposition")]
  /\ revised = {} /\ gapped = FALSE /\ reforms = 0 /\ revisions = 0

\* The list of a key with a blank line in it.
Gapped(t, key) ==
  \E j \in DOMAIN t :
    /\ Find(t, key) \in 1..j - 1 /\ t[j].k = "bullet"
    /\ \A h \in Find(t, key) + 1..j : t[h].k \in {"gap", "bullet"}
    /\ \E h \in Find(t, key) + 1..j : t[h] = Gap

Revises(keys) ==
  /\ revisions < MaxRevisions /\ revisions' = revisions + 1
  /\ revised' = keys
  /\ gapped' = (gapped \/ \E key \in keys : Gapped(front, key))
  /\ UNCHANGED reforms

\* update_note: the outcome and its time, or both emptied.
Stamps(v) ==
  /\ Revises({"disposition", "disposition_at"})
  /\ front' = SetScalar(SetScalar(front, "disposition", v), "disposition_at",
                        IF v = "" THEN "" ELSE "now")
  /\ says' = [says EXCEPT !.disposition = <<v>>]

\* lint --fix folds `design` into the labels, as they are read.
FoldsDesign ==
  LET reference == GetScalar(front, "design")
      labels == GetList(front, "labels")
  IN  /\ reference \notin {Absent, <<"">>}
      /\ Revises({"labels", "design"})
      /\ front' = RemoveKey(SetList(front, "labels",
                    IF Contains(labels, reference[1]) THEN labels ELSE labels \o reference), "design")
      /\ says' = [says EXCEPT !.design = Absent,
                    !.labels = IF Contains(@, reference[1]) THEN @ ELSE @ \o reference]

Reforms ==
  /\ reforms < MaxReforms /\ reforms' = reforms + 1
  /\ revised' = {}
  /\ UNCHANGED <<says, gapped, revisions>>

\* Prettier wraps a value: a scalar is quoted, a list gets a trailing comma.
Wraps(i) ==
  LET l == front[i]
      toks == IF l.f = "list" THEN <<"[">> \o l.v \o <<"]">> ELSE <<"<">> \o l.v \o <<">">>
  IN  /\ l.k = "key" /\ l.f # "empty" /\ l.v # <<"">>
      /\ Reforms
      /\ front' = SubSeq(front, 1, i - 1) \o <<Bare(l.key)>>
                  \o [n \in DOMAIN toks |-> Part(toks[n])] \o SubSeq(front, i + 1, Len(front))

\* Obsidian writes a list as bullets.
Unfolds(i, deep) ==
  LET l == front[i] IN
  /\ l.k = "key" /\ l.f = "list" /\ l.v # <<>>
  /\ Reforms
  /\ front' = SubSeq(front, 1, i - 1) \o <<Bare(l.key)>>
              \o [n \in DOMAIN l.v |-> Bullet(l.v[n], deep)] \o SubSeq(front, i + 1, Len(front))

\* A person adds a comment between two keys, or a blank line also in a list.
Adds(i, l) ==
  /\ front[i].k \in IF l = Gap THEN {"key", "bullet"} ELSE {"key"}
  /\ Reforms
  /\ front' = InsertAt(front, i, l)

NoteTextNext ==
  \/ \E v \in {"accepted", ""} : Stamps(v)
  \/ FoldsDesign
  \/ \E i \in DOMAIN front :
       \/ Wraps(i)
       \/ \E deep \in BOOLEAN : Unfolds(i, deep)
       \/ \E l \in {Gap, Comment} : Adds(i, l)

NoteTextSpec == NoteTextInit /\ [][NoteTextNext]_noteVars

-----------------------------------------------------------------------------
\* The key a line stands under.
KeyOf(t, i) ==
  LET j == SelectLastInSubSeq(t, 1, i, LAMBDA l : l.k = "key") IN IF j = 0 THEN "none" ELSE t[j].key

\* The lines that are none of the keys' business.
Others(t, keys) ==
  LET at == SelectSeq([i \in DOMAIN t |-> i],
                      LAMBDA i : KeyOf(t, i) \notin keys \/ t[i] \in {Gap, Comment})
  IN  [n \in DOMAIN at |-> t[at[n]]]

(* Types; and no key is there twice.                                       *)
NoteTextTypeOK ==
  /\ \A i, j \in DOMAIN front : front[i].k = "key" /\ front[j].k = "key" /\ front[i].key = front[j].key => i = j
  /\ \A i \in DOMAIN front : front[i].k \in {"key", "part", "bullet", "gap", "comment"}
  /\ reforms \in 0..MaxReforms /\ revisions \in 0..MaxRevisions

(* What the program reads is what the note says, however it is laid out,   *)
(* unless a label has a quote in it and others after it, or a list with a  *)
(* blank line in it was rewritten.                                         *)
ReadsWhatIsSaid ==
  ~gapped =>
    /\ GetScalar(front, "title") = says.title
    /\ GetScalar(front, "disposition") = says.disposition
    /\ GetScalar(front, "design") = says.design
    /\ \/ \E n \in 1..Len(says.labels) - 1 : says.labels[n] \in Awkward
       \/ GetList(front, "labels") = says.labels

(* "Leaves every other line [...] byte-for-byte intact": a command keeps   *)
(* the lines of the keys it does not rewrite, the unknown ones included,   *)
(* the comments and the blank lines, in their order.                       *)
OtherLinesSurvive ==
  [][ ~gapped' => Others(front, revised') = Others(front', revised') ]_revisions

(* "Keeps set_list/remove_key from orphaning a key's block-list items":    *)
(* nothing of the old value stays below a key that has been rewritten.     *)
(* (A blank line in the list defeats that: the bullets after it stay.)     *)
NoOrphanedItems ==
  [][ ~gapped' => \A i \in DOMAIN front' : front'[i].k \in {"part", "bullet"} =>
        KeyOf(front', i) \notin revised' /\ KeyOf(front', i) # "none" ]_revisions

(* A note keeps saying what it says to people, to the program and to its   *)
(* formatters, whoever edits it.                                           *)
NoteKeepsItsWord ==
  [](NoteTextTypeOK /\ ReadsWhatIsSaid) /\ OtherLinesSurvive /\ NoOrphanedItems
=============================================================================
