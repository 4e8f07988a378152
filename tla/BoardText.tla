------------------------------ MODULE BoardText ------------------------------
(***************************************************************************)
(* BOARD.md as text (katsuobushi-controller/src/project): a person edits   *)
(* it in Obsidian, by line; a command parses it, changes the board it has  *)
(* in memory, and writes the whole text anew (board.rs); `lint` compares   *)
(* it with the notes and mends what it can (lint.rs).                      *)
(*                                                                         *)
(* A line is what the parser takes it for.  An indented bullet is an item  *)
(* like any other.  Which transitions a command allows, and how commands   *)
(* overlap, is the subject of Board: here every command is forced and      *)
(* they follow one another.                                                *)
(***************************************************************************)
EXTENDS Naturals, FiniteSets, Sequences, SequencesExt

CONSTANTS
  Ids,         \* card ids
  Active,      \* the titles of the active lanes, in their order
  Icebox,      \* a title that is no status
  Inserted,    \* lines that a person may insert
  Texts,       \* BOARD.md at first
  MaxTouches,  \* bound of the model: edits by hand
  MaxWrites,   \* bound of the model: commands
  MaxSteps     \* bound of the model: edits and commands

VARIABLES
  text,     \* BOARD.md, as its lines; empty when there is none
  noted,    \* the cards with a note
  stamped,  \* those whose note carries a disposition
  meant,    \* the board of the last command, if nobody has edited it since (history)
  kind,     \* what the last step was (history)
  touches, writes

textVars == <<text, noted, stamped, meant, kind, touches, writes>>

-----------------------------------------------------------------------------
Heading(title, limit) == [k |-> "lane", title |-> title, limit |-> limit]
Item(id, ticked) == [k |-> "item", id |-> id, ticked |-> ticked]
Line(k) == [k |-> k]

Lines == [k : {"lane"}, title : ToSet(Active) \cup {Icebox, "Archive"}, limit : {0, 3}]
         \cup [k : {"item"}, id : Ids \cup {"none"}, ticked : BOOLEAN]
         \cup [k : {"more", "blank", "rule", "foreign", "settings", "keys", "design keys"}]

ASSUME BoardTextAssumption ==
  /\ "none" \notin Ids
  /\ Active \in Seq(ToSet(Active)) /\ Active # <<>>
  /\ \A i, j \in DOMAIN Active : Active[i] = Active[j] => i = j
  /\ Icebox \notin ToSet(Active) \cup {"Archive"} /\ "Archive" \notin ToSet(Active)
  /\ Texts \subseteq Seq(Lines) /\ Inserted \subseteq Lines
  /\ {MaxTouches, MaxWrites, MaxSteps} \subseteq Nat

IsStatusLane(l) == l.k = "lane" /\ l.title \in ToSet(Active)
HeadingAhead(t, i) == \E j \in i + 1..Len(t) : t[j].k = "lane"

\* A parse in progress: the part of the board it is in, and whether an item
\* has just been read, whose indented lines may follow.
Unparsed == [preamble |-> <<>>, lanes |-> <<>>, archive |-> <<>>, archived |-> FALSE,
             trailer |-> <<>>, at |-> "preamble", open |-> FALSE]

\* ## Archive opens the archive, which only the lane of a status ends.
TakesHeading(p, l) ==
  IF l.title = "Archive" THEN [p EXCEPT !.at = "archive", !.archived = TRUE, !.open = FALSE]
  ELSE IF p.at = "archive" /\ ~IsStatusLane(l) THEN [p EXCEPT !.open = FALSE]
  ELSE [p EXCEPT !.at = "lane", !.open = FALSE,
                 !.lanes = Append(@, [title |-> l.title, limit |-> l.limit, cards |-> <<>>])]

TakesItem(p, l) ==
  LET card == [id |-> l.id, ticked |-> l.ticked, more |-> 0] IN
  IF p.at = "archive" THEN [p EXCEPT !.archive = Append(@, card), !.open = TRUE]
  ELSE [p EXCEPT !.lanes[Len(p.lanes)].cards = Append(@, card), !.open = TRUE]

\* Mutant: an indented line is dropped.
DropsMore(p) == p

\* take_card: an indented line after an item is its own.
TakesMore(p) ==
  IF p.at = "archive" THEN [p EXCEPT !.archive[Len(p.archive)].more = @ + 1]
  ELSE LET n == Len(p.lanes) IN [p EXCEPT !.lanes[n].cards[Len(p.lanes[n].cards)].more = @ + 1]

\* Line i of t.  The settings, or a foreign line of a lane with no heading
\* ahead of it, begin the trailer; other strays are skipped.
Takes(p, t, i) ==
  LET l == t[i] IN
  CASE p.at = "trailer" \/ l.k = "settings" -> [p EXCEPT !.at = "trailer", !.trailer = Append(@, l)]
    [] l.k = "lane" /\ p.at # "trailer" -> TakesHeading(p, l)
    [] p.at = "preamble" /\ l.k \notin {"lane", "settings"} -> [p EXCEPT !.preamble = Append(@, l)]
    [] p.at \in {"lane", "archive"} /\ l.k = "item" -> TakesItem(p, l)
    [] p.at \in {"lane", "archive"} /\ l.k = "more" /\ p.open -> TakesMore(p)
    [] p.at = "lane" /\ ~(l.k = "more" /\ p.open) /\ ~HeadingAhead(t, i)
       /\ l.k \notin {"lane", "item", "blank", "rule", "settings"} ->
         [p EXCEPT !.at = "trailer", !.trailer = <<l>>]
    [] OTHER -> [p EXCEPT !.open = FALSE]

\* Board::parse.  (The sets of one element have TLC evaluate a step once.)
Parse(t) ==
  LET parse[i \in 0..Len(t)] ==
        IF i = 0 THEN Unparsed
        ELSE CHOOSE q \in {Takes(p, t, i) : p \in {parse[i - 1]}} : TRUE
  IN  CHOOSE b \in {[preamble |-> p.preamble, lanes |-> p.lanes, archive |-> p.archive,
                     archived |-> p.archived, trailer |-> p.trailer] : p \in {parse[Len(t)]}} : TRUE

-----------------------------------------------------------------------------
Block(card) == <<Item(card.id, card.ticked)>> \o [n \in 1..card.more |-> Line("more")]

\* push_cards.
CardLines(cards) ==
  IF cards = <<>> THEN <<>>
  ELSE <<Line("blank")>> \o FlattenSeq([i \in DOMAIN cards |-> Block(cards[i])])

\* Mutant: a limit is not written back.
LaneLinesUnlimited(lane) ==
  <<Heading(lane.title, 0)>> \o CardLines(lane.cards) \o <<Line("blank")>>

LaneLines(lane) ==
  <<Heading(lane.title, lane.limit)>> \o CardLines(lane.cards) \o <<Line("blank")>>

\* trim_end, and the one blank line at the end that a final newline takes the
\* place of.
Trimmed(t) ==
  LET s == SelectLastInSubSeq(t, 1, Len(t), LAMBDA l : l.k # "blank") IN SubSeq(t, 1, s)
Ended(t) == IF t # <<>> /\ Last(t) = Line("blank") THEN Front(t) ELSE t

\* Board::to_text.
ToText(b) ==
  LET head == Trimmed(b.preamble) IN
  (IF head = <<>> THEN <<>> ELSE head \o <<Line("blank")>>)
  \o FlattenSeq([n \in DOMAIN b.lanes |-> LaneLines(b.lanes[n])])
  \o (IF b.archived \/ b.archive # <<>>
        THEN <<Line("rule"), Line("blank")>> \o LaneLines([title |-> "Archive", limit |-> 0,
                                                           cards |-> b.archive])
        ELSE <<>>)
  \o Ended(b.trailer)

\* layout::initial_board.
InitialBoard ==
  <<Line("rule"), Line("foreign"), Line("rule"), Line("blank")>>
  \o FlattenSeq([n \in DOMAIN Active |-> LaneLines([title |-> Active[n], limit |-> 0, cards |-> <<>>])])
  \o <<Line("settings"), Line("keys")>>

-----------------------------------------------------------------------------
(* What a command asks of a board, and does to it.                         *)

Has(cards, c) == \E i \in DOMAIN cards : cards[i].id = c
LaneOf(b, c) == SelectInSeq(b.lanes, LAMBDA lane : Has(lane.cards, c))
LaneTitled(b, title) == SelectInSeq(b.lanes, LAMBDA lane : lane.title = title)

BoardIds(b) == {c \in Ids : LaneOf(b, c) # 0 \/ Has(b.archive, c)}
IsActive(b, c) == LaneOf(b, c) # 0 /\ b.lanes[LaneOf(b, c)].title \in ToSet(Active)
IsArchived(b, c) == LaneOf(b, c) = 0 /\ Has(b.archive, c)

\* current_status gives one.
HasStatus(b, c) == IsActive(b, c) \/ (IsArchived(b, c) /\ c \in stamped)

FirstOf(cards, c) == SelectInSeq(cards, LAMBDA card : card.id = c)

\* remove_card, and the card it gives.
Without(b, c) ==
  IF LaneOf(b, c) # 0
    THEN [b EXCEPT !.lanes[LaneOf(b, c)].cards = RemoveAt(@, FirstOf(@, c))]
    ELSE [b EXCEPT !.archive = RemoveAt(@, FirstOf(@, c))]
Taken(b, c) ==
  LET cards == IF LaneOf(b, c) # 0 THEN b.lanes[LaneOf(b, c)].cards ELSE b.archive
  IN  cards[FirstOf(cards, c)]

NewLink(c) == [id |-> c, ticked |-> FALSE, more |-> 0]

\* insert_card: at the top or at the bottom.
With(b, n, card, top) ==
  [b EXCEPT !.lanes[n].cards = IF top THEN <<card>> \o @ ELSE Append(@, card)]

\* move_card.
Moved(b, c, to) ==
  IF to = "Archive"
    THEN [Without(b, c) EXCEPT !.archive = Append(@, [Taken(b, c) EXCEPT !.ticked = TRUE]),
                               !.archived = TRUE]
    ELSE With(Without(b, c), LaneTitled(b, to), [Taken(b, c) EXCEPT !.ticked = FALSE], FALSE)

\* reorder, before the n-th card of the lane or at its end: what `apply` does
\* to a card that enters Ready (which n it chooses is the subject of Board).
LaneFellows(b, c, to) ==
  LET cards == b.lanes[LaneTitled(b, to)].cards
  IN  SelectSeq([i \in DOMAIN cards |-> cards[i].id], LAMBDA id : id \notin {c, "none"})
Slotted(b, c, others, n) ==
  LET m == LaneOf(b, c)
      cards == Without(b, c).lanes[m].cards
      at == IF n > Len(others) THEN 0 ELSE FirstOf(cards, others[n])
  IN  [b EXCEPT !.lanes[m].cards = InsertAt(cards, IF at = 0 THEN Len(cards) + 1 ELSE at, Taken(b, c))]

\* list_all: the first lane of each status, then the archive.  The others are
\* not listed.
Listing(b) ==
  FlattenSeq([n \in DOMAIN Active |->
    IF LaneTitled(b, Active[n]) = 0 THEN <<>> ELSE b.lanes[LaneTitled(b, Active[n])].cards])
  \o b.archive

\* iced_views.
Iced(b, n) == n \ BoardIds(b)

-----------------------------------------------------------------------------
(* lint: what it says, as severity, code and subject.                      *)

AllCards(b) == FlattenSeq([n \in DOMAIN b.lanes |-> b.lanes[n].cards]) \o b.archive
Times(b, c) == Cardinality({i \in DOMAIN AllCards(b) : AllCards(b)[i].id = c})

Orphans(b, n) == BoardIds(b) \ n

\* The cards but those that are gone.
Retained(cards, gone) ==
  FlattenSeq([i \in DOMAIN cards |-> IF cards[i].id \in gone THEN <<>> ELSE <<cards[i]>>])

\* Mutant: an orphan is pruned where it is found first.
PrunedOnce(b) ==
  [b EXCEPT !.lanes = [n \in DOMAIN b.lanes |->
                         [b.lanes[n] EXCEPT !.cards = Retained(@, Orphans(b, noted))]]]

Pruned(b) ==
  [b EXCEPT !.lanes = [n \in DOMAIN b.lanes |->
                         [b.lanes[n] EXCEPT !.cards = Retained(@, Orphans(b, noted))]],
            !.archive = Retained(@, Orphans(b, noted))]

Errors(b, n) ==
  {<<"missing-lane", t>> : t \in {u \in ToSet(Active) : LaneTitled(b, u) = 0}}
  \cup {<<"duplicate-lane", t>> : t \in {u \in ToSet(Active) \cup {Icebox} :
          \E i, j \in DOMAIN b.lanes : i # j /\ b.lanes[i].title = u /\ b.lanes[j].title = u}}
  \cup {<<"malformed-card", "none">> : i \in {j \in DOMAIN AllCards(b) : AllCards(b)[j].id = "none"}}
  \cup {<<"orphan-card", c>> : c \in Orphans(b, n)}
  \cup {<<"duplicate-card", c>> : c \in {d \in Ids : Times(b, d) > 1}}

Warnings(t, b, n, s) ==
  {<<"unrecognized-lane", l.title>> : l \in {m \in ToSet(b.lanes) : m.cards # <<>> /\ m.title = Icebox}}
  \cup {<<"no-settings", "board">> : i \in IF Contains(t, Line("settings")) THEN {} ELSE {1}}
  \cup {<<"checked-in-lane", card.id>> : card \in UNION {{x \in ToSet(m.cards) : x.ticked}
                                                        : m \in ToSet(b.lanes)}}
  \cup {<<"no-disposition", c>> : c \in {d \in n \ s : IsArchived(b, d)}}
  \cup {<<"stale-disposition", c>> : c \in {d \in n \cap s : IsActive(b, d)}}

\* strip_design_column.
WithoutDesign(t) ==
  LET i == SelectInSeq(t, LAMBDA l : l.k = "design keys")
  IN  IF i = 0 THEN t ELSE ReplaceAt(t, i, Line("keys"))

\* What lint --fix leaves of a text and its board.
Mended(t, b) == WithoutDesign(IF Orphans(b, noted) # {} THEN ToText(Pruned(b)) ELSE t)

-----------------------------------------------------------------------------
(* Commands.  They have read the board b.                                  *)

BoardTextInit ==
  /\ text \in Texts
  /\ \E n \in SUBSET Ids : noted = n /\ BoardIds(Parse(text)) \subseteq n
  /\ stamped = {c \in Ids : IsArchived(Parse(text), c)}
  /\ meant = <<>> /\ kind = "edit"
  /\ touches = 0 /\ writes = 0

Room == touches + writes < MaxSteps

Runs(k) ==
  /\ Room /\ writes < MaxWrites /\ writes' = writes + 1
  /\ kind' = k
  /\ UNCHANGED touches

Writes(b) == \E m \in {b} : text' = ToText(m) /\ meant' = m

\* init: a scaffold, unless there is a board.
Scaffolds ==
  /\ Runs("init")
  /\ text' = IF text = <<>> THEN InitialBoard ELSE text
  /\ UNCHANGED <<noted, stamped, meant>>

\* apply.  The note is stamped, or cleared, before a missing lane is noticed.
MovesTo(b, c, to) ==
  /\ HasStatus(b, c)
  /\ to = "Archive" \/ IsArchived(b, c) => c \in noted
  /\ Runs("move")
  /\ stamped' = IF to = "Archive" THEN stamped \cup {c}
                ELSE IF IsArchived(b, c) THEN stamped \ {c} ELSE stamped
  /\ IF to # "Archive" /\ LaneTitled(b, to) = 0 THEN UNCHANGED <<text, meant>>
     ELSE \E m \in {Moved(b, c, to)} :
            IF to # Last(Active) THEN Writes(m)
            ELSE \E others \in {LaneFellows(m, c, to)} : \E n \in 1..Len(others) + 1 :
                   Writes(Slotted(m, c, others, n))
  /\ UNCHANGED noted

\* apply_target with the icebox, of a card that is on the board.
ShelvesCard(b, c) ==
  /\ HasStatus(b, c)
  /\ Runs(IF IsArchived(b, c) THEN "unarchive" ELSE "shelve")
  /\ Writes(Without(b, c))
  /\ UNCHANGED <<noted, stamped>>

\* and of a note that is not.
PromotesNote(b, c, to) ==
  /\ c \in noted \ BoardIds(b)
  /\ Runs("promote")
  /\ IF to = "Archive"
       THEN /\ LaneTitled(b, Active[1]) # 0
            /\ Writes(Moved(With(b, LaneTitled(b, Active[1]), NewLink(c), TRUE), c, to))
            /\ stamped' = stamped \cup {c}
       ELSE /\ LaneTitled(b, to) # 0
            /\ Writes(With(b, LaneTitled(b, to), NewLink(c), TRUE))
            /\ UNCHANGED stamped
  /\ UNCHANGED noted

\* new: the note is written although the lane may be missing.
FilesCard(b, c, top) ==
  /\ c \notin noted \cup BoardIds(b)
  /\ Runs("new")
  /\ noted' = noted \cup {c} /\ stamped' = stamped \ {c}
  /\ IF LaneTitled(b, Active[1]) # 0
       THEN Writes(With(b, LaneTitled(b, Active[1]), NewLink(c), top))
       ELSE UNCHANGED <<text, meant>>

\* new --icebox.
FilesNote(c) ==
  /\ c \notin noted
  /\ Runs("new")
  /\ noted' = noted \cup {c} /\ stamped' = stamped \ {c}
  /\ UNCHANGED <<text, meant>>

\* prioritize, in a lane of any title: to its top, to its bottom, or next to a
\* card that has an id (one of another lane is taken for the bottom).
Places(cards) ==
  {1, Len(cards) + 1} \cup {i + d : i \in {j \in DOMAIN cards : cards[j].id # "none"}, d \in {0, 1}}
Prioritizes(b, c) ==
  /\ LaneOf(b, c) # 0
  /\ Runs("prioritize")
  /\ \E rest \in {Without(b, c)} : \E p \in Places(rest.lanes[LaneOf(b, c)].cards) :
       Writes([rest EXCEPT !.lanes[LaneOf(b, c)].cards = InsertAt(@, p, Taken(b, c))])
  /\ UNCHANGED <<noted, stamped>>

LintFixes(b) ==
  /\ Runs("fix")
  /\ text' = Mended(text, b)
  /\ meant' = IF Contains(text, Line("design keys")) THEN <<>>
              ELSE IF Orphans(b, noted) # {} THEN Pruned(b) ELSE meant
  /\ UNCHANGED <<noted, stamped>>

\* A person inserts or deletes a line of the board, or deletes a note.
Touches ==
  /\ Room /\ touches < MaxTouches /\ touches' = touches + 1
  /\ kind' = "edit" /\ meant' = <<>>
  /\ UNCHANGED <<stamped, writes>>

InsertsLine(i, l) == Touches /\ text' = InsertAt(text, i, l) /\ UNCHANGED noted
DeletesLine(i) == Touches /\ text' = RemoveAt(text, i) /\ UNCHANGED noted
DeletesNote(c) == Touches /\ c \in noted /\ noted' = noted \ {c} /\ UNCHANGED text

Commands(b) ==
  \/ LintFixes(b)
  \/ \E c \in Ids :
       \/ ShelvesCard(b, c)
       \/ c \notin BoardIds(b) /\ FilesNote(c)
       \/ Prioritizes(b, c)
       \/ \E top \in BOOLEAN : FilesCard(b, c, top)
       \/ \E to \in ToSet(Active) \cup {"Archive"} : MovesTo(b, c, to) \/ PromotesNote(b, c, to)

BoardTextNext ==
  \/ Scaffolds
  \/ text # <<>> /\ Room /\ \E b \in {Parse(text)} : Commands(b)
  \/ \E c \in Ids : DeletesNote(c)
  \/ \E i \in DOMAIN text : DeletesLine(i) \/ \E l \in Inserted : InsertsLine(i, l)

BoardTextSpec == BoardTextInit /\ [][BoardTextNext]_textVars

-----------------------------------------------------------------------------
\* Nothing but the settings follows the lanes.  (What else follows them is
\* kept by the rewrite, and lost or archived by the next parse once there is
\* an archive above it.)
OnlySettingsFollow(b) == b.trailer = <<>> \/ b.trailer[1].k = "settings"

(* Types; and every text a command writes begins with what preceded the    *)
(* lanes.                                                                  *)
BoardTextTypeOK ==
  /\ text \in Seq(Lines)
  /\ noted \subseteq Ids /\ stamped \subseteq Ids
  /\ touches \in 0..MaxTouches /\ writes \in 0..MaxWrites
  /\ meant # <<>> => IsPrefix(Trimmed(meant.preamble), text)

(* A command reads what the last one wrote: lanes in order with their      *)
(* limits, cards in order with their blocks, boxes and the archive         *)
(* ("preserved so moves never mangle content").                            *)
ReadsBack ==
  meant # <<>> =>
    \A b \in {Parse(text)} :
      OnlySettingsFollow(meant) =>
        /\ b.lanes = meant.lanes /\ b.archive = meant.archive
        /\ Ended(b.trailer) = Ended(Ended(meant.trailer))

(* "A board round-tripped through this writer [...] is byte-identical":    *)
(* what a command has written, another rewrite leaves as it is, and no     *)
(* formatter would collapse two blank lines of its lanes.  (Without a lane *)
(* the rule above the archive becomes part of the preamble, and every      *)
(* rewrite adds one.)                                                      *)
RewriteIsStable ==
  meant # <<>> /\ meant.lanes # <<>> =>
    \A b \in {Parse(text)} :
      OnlySettingsFollow(meant) =>
        /\ Trimmed(ToText(b)) = Trimmed(text)
        /\ \A i \in Len(b.preamble) + 1..Len(text) - Len(b.trailer) - 1 :
             ~(text[i] = Line("blank") /\ text[i + 1] = Line("blank"))

\* The items of card c that n indented lines follow.
Blocks(t, c, n) ==
  Cardinality({i \in 1..Len(t) - n :
    /\ t[i].k = "item" /\ t[i].id = c
    /\ \A h \in i + 1..i + n : t[h].k = "more"
    /\ i + n < Len(t) => t[i + n + 1].k # "more"})

\* The lines from the first heading to the settings.
Region(t) ==
  LET first == SelectInSeq(t, LAMBDA l : l.k = "lane")
      settings == SelectInSeq(t, LAMBDA l : l.k = "settings")
  IN  SubSeq(t, IF first = 0 THEN Len(t) + 1 ELSE first, IF settings = 0 THEN Len(t) ELSE settings - 1)

(* Where lint sees nothing wrong with the lanes and the cards in them, a   *)
(* listing hides no card that a person sees on the board: every note is    *)
(* either listed once, or iced and not on the board.                       *)
ListedOrIced ==
  \A b \in {Parse(text)} :
    /\ text # <<>> /\ Errors(b, noted) = {} /\ OnlySettingsFollow(b)
    /\ \A w \in Warnings(text, b, noted, stamped) : w[1] # "unrecognized-lane"
    => \A c \in noted :
         LET seen == \E i \in DOMAIN Region(text) : Region(text)[i].k = "item" /\ Region(text)[i].id = c
             times == Cardinality({i \in DOMAIN Listing(b) : Listing(b)[i].id = c})
         IN  times = (IF seen THEN 1 ELSE 0) /\ (c \in Iced(b, noted) <=> ~seen)

(* No command loses a card, or a line that belongs to one, wherever a      *)
(* person has put it: only a shelved card goes, and the orphans that       *)
(* lint --fix prunes.                                                      *)
CardsSurvive ==
  [][ /\ kind' \in {"move", "promote", "new", "prioritize", "init"} =>
           \A c \in Ids \cup {"none"} : \A n \in 0..2 : Blocks(text', c, n) >= Blocks(text, c, n)
      /\ kind' = "fix" =>
           \A c \in noted \cup {"none"} : \A n \in 0..2 : Blocks(text', c, n) = Blocks(text, c, n) ]_writes

(* A rewrite is faithful to what is in memory, and memory to the text.     *)
RewriteIsFaithful == BoardTextTypeOK /\ ReadsBack /\ RewriteIsStable /\ ListedOrIced

\* Lint has nothing to say, nor would it if the iced notes were promoted.
Clean(t, b, n, s) ==
  /\ Errors(b, n) = {} /\ Warnings(t, b, n, s) \subseteq {<<"no-settings", "board">>}
  /\ s \subseteq BoardIds(b) /\ OnlySettingsFollow(b)

(* On a board that lint finds no fault with, a command leaves none: cards  *)
(* stay filed once, their boxes and stamps go with their place.  Only a    *)
(* card shelved from the archive keeps a stamp it should not have.         *)
CommandsKeepLintClean ==
  [][ /\ text # <<>> /\ kind' \notin {"edit", "unarchive"}
      /\ \A b \in {Parse(text)} : Clean(text, b, noted, stamped)
      => \A b \in {Parse(text')} : Clean(text', b, noted', stamped') ]_writes

(* lint --fix mends what it can at once: no error is there that was not    *)
(* there before, none is an orphan's, and a second run changes nothing.    *)
FixConverges ==
  [][ kind' = "fix" =>
        \A b \in {Parse(text)}, m \in {Parse(text')} :
          /\ Errors(m, noted) \subseteq Errors(b, noted)
          /\ \A e \in Errors(m, noted) : e[1] # "orphan-card"
          /\ Mended(text', m) = text' ]_writes

(* Commands do not give lint work to do, and lint --fix does all of its.   *)
LintSettles == CommandsKeepLintClean /\ FixConverges
=============================================================================
