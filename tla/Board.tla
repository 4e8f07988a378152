-------------------------------- MODULE Board --------------------------------
(***************************************************************************)
(* The project board: BOARD.md, which holds the lanes and the archive, and *)
(* one note per card, which holds the outcome of an archived card          *)
(* (katsuobushi-controller/src/project).  A command reads the board, loads *)
(* the notes, decides and writes a note if the outcome changes, and then   *)
(* writes the board it computed.  Commands are processes of their own and  *)
(* take no lock, and each may die between two of these steps.  The claim   *)
(* of `sandbox dispatch` (src/sandbox/dispatch.rs) is one of them.         *)
(*                                                                         *)
(* A single write is atomic (a rename).  A board has its four lanes and    *)
(* its cards have notes: what `lint` calls errors is left out.             *)
(***************************************************************************)
EXTENDS Naturals, Sequences, SequencesExt

CONSTANTS
  Cards,       \* card ids
  Blockers,    \* blocked_by of each card's note
  Created,     \* the rank of each card's creation time
  Users,       \* commands that may run at once
  MaxCommands  \* bound of the model: commands that are started

ASSUME BoardAssumption ==
  /\ IsFiniteSet(Cards)
  /\ Blockers \in [Cards -> SUBSET Cards]
  /\ Created \in [Cards -> Nat]
  /\ MaxCommands \in Nat

VARIABLES
  board,    \* BOARD.md
  note,     \* per card, the disposition in its note, or that there is no note
  user,     \* per process, the command it runs
  commands, \* commands started so far
  agents,   \* per card, unforced dispatches since it was last in To-do (history)
  overwritten,    \* whether a board was written over a change made meanwhile (history)
  cut,      \* cards whose stamp and place may disagree, and why not to worry (history)
  handmade  \* whether the Ready lane was ordered by hand (history)

boardVars == <<board, note, user, commands, agents, overwritten, cut, handmade>>

-----------------------------------------------------------------------------
Lanes == {"todo", "in-progress", "needs-review", "ready"}
Terminal == {"accepted", "cancelled"}
Status == Lanes \cup Terminal

\* A card of the lane stands before the cards that it blocks, unless it is
\* blocked itself: of a, b and c, each blocking the next, b has to come behind
\* an a that is behind c.
InDependencyOrder(lane) ==
  \A i, j \in DOMAIN lane :
    lane[i] \in Blockers[lane[j]] => i < j \/ Blockers[lane[i]] # {}

Boards == [lanes : [Lanes -> Seq(Cards)], archive : SUBSET Cards]
Stamp == Terminal \cup {"none", "missing"}

InLane(b, c) == \E l \in Lanes : Contains(b.lanes[l], c)
OnBoard(b, c) == InLane(b, c) \/ c \in b.archive
Filed(c) == note[c] # "missing"

\* task: a command that is yet to be told apart, the claim of a dispatch, or
\* the rest of an --accept-all.
AtRest == [pc |-> "idle", task |-> "any", queue |-> <<>>, old |-> FALSE,
           force |-> FALSE, card |-> "none", stamped |-> FALSE,
           seen |-> [lanes |-> [l \in Lanes |-> <<>>], archive |-> {}],
           notes |-> [c \in Cards |-> "missing"]]

\* Boards as the commands leave them: every card filed or not, iced, in a lane,
\* or archived with its stamp.
BoardInit ==
  /\ \E place \in [Cards -> Status \cup {"iced", "missing"}] :
       LET Orders(l) == SetToSeqs({c \in Cards : place[c] = l}) IN
       /\ note = [c \in Cards |-> IF place[c] \in Terminal \cup {"missing"}
                                    THEN place[c] ELSE "none"]
       /\ \E lanes \in [Lanes -> UNION {Orders(l) : l \in Lanes}] :
            /\ \A l \in Lanes : lanes[l] \in Orders(l)
            /\ board = [lanes |-> lanes, archive |-> {c \in Cards : place[c] \in Terminal}]
  /\ InDependencyOrder(board.lanes["ready"])
  /\ user = [u \in Users |-> AtRest]
  /\ commands = 0
  /\ agents = [c \in Cards |-> 0]
  /\ overwritten = FALSE /\ cut = {} /\ handmade = FALSE

-----------------------------------------------------------------------------
(* The state machine, and where a card stands.                             *)

TransitionAllowed(from, to) ==
  \/ from = to
  \/ <<from, to>> \in {<<"todo", "in-progress">>,
                       <<"in-progress", "todo">>, <<"in-progress", "needs-review">>,
                       <<"needs-review", "in-progress">>, <<"needs-review", "todo">>,
                       <<"needs-review", "ready">>,
                       <<"ready", "accepted">>, <<"ready", "todo">>}
  \/ from \in Lanes /\ to = "cancelled"

\* The lane of an active card, the stamp of an archived one ("none" is an
\* error of the command).
StatusOf(b, notes, c) ==
  IF InLane(b, c) THEN CHOOSE l \in Lanes : Contains(b.lanes[l], c) ELSE notes[c]

Cleared(b, notes, c) ==
  \A d \in Blockers[c] : OnBoard(b, d) /\ StatusOf(b, notes, d) \in {"ready", "accepted"}

IsAvailable(b, notes, c) ==
  OnBoard(b, c) /\ StatusOf(b, notes, c) = "todo" /\ Cleared(b, notes, c)

-----------------------------------------------------------------------------
(* Changes of a board in memory.                                           *)

\* A lane holds no card twice.
Without(lane, c) ==
  IF Contains(lane, c) THEN RemoveAt(lane, CHOOSE i \in DOMAIN lane : lane[i] = c) ELSE lane

RemoveCard(b, c) == [lanes |-> [l \in Lanes |-> Without(b.lanes[l], c)],
                     archive |-> b.archive \ {c}]

InsertCard(b, l, c, i) == [b EXCEPT !.lanes[l] = InsertAt(@, i, c)]

Archive(b, c) == [b EXCEPT !.archive = @ \cup {c}]

\* Mutant: a card that becomes ready goes by its date alone.
ReadyByDate(lane, c) ==
  CHOOSE i \in 1..Len(lane) + 1 :
    /\ \A j \in 1..i - 1 : Created[lane[j]] <= Created[c]
    /\ i <= Len(lane) => Created[lane[i]] > Created[c]

\* ready_insertion_index, as the position to insert at: after the last blocker
\* of c, before the first card c blocks; within these bounds before the first
\* card that is younger.
ReadyIndex(lane, c) ==
  LET lo == CHOOSE i \in 1..Len(lane) + 1 :
              /\ i > 1 => lane[i - 1] \in Blockers[c]
              /\ \A j \in i..Len(lane) : lane[j] \notin Blockers[c]
      first == CHOOSE i \in 1..Len(lane) + 1 :
                 /\ i <= Len(lane) => c \in Blockers[lane[i]]
                 /\ \A j \in 1..i - 1 : c \notin Blockers[lane[j]]
      hi == IF first < lo THEN lo ELSE first
  IN  CHOOSE i \in lo..hi :
        /\ i < hi => Created[lane[i]] > Created[c]
        /\ \A j \in lo..i - 1 : Created[lane[j]] <= Created[c]

MoveCard(b, c, to) ==
  LET rest == RemoveCard(b, c) IN
  IF to \in Terminal THEN Archive(rest, c) ELSE
  InsertCard(rest, to, c, IF to = "ready" THEN ReadyIndex(rest.lanes["ready"], c)
                                          ELSE Len(rest.lanes[to]) + 1)

-----------------------------------------------------------------------------
(* The steps of a command.                                                 *)

History == <<agents, overwritten, cut, handmade>>

\* What a command works with, as it has read it.
Seen(u) == user[u].seen
Standing(u, c) == StatusOf(Seen(u), user[u].notes, c)

\* The board is read.  (Which command it is shows in what it decides.)
Starts(u) ==
  /\ user[u].pc = "idle" /\ user[u].task = "any" /\ commands < MaxCommands
  /\ user' = [user EXCEPT ![u] = [AtRest EXCEPT !.pc = "load", !.seen = board]]
  /\ commands' = commands + 1
  /\ UNCHANGED <<board, note, History>>

\* apply reads it anew for a claim and for each card of an --accept-all.
ReadsAgain(u) ==
  /\ user[u].pc = "idle" /\ user[u].task # "any"
  /\ user' = [user EXCEPT ![u].pc = "load", ![u].seen = board,
                          ![u].old = IF user[u].task = "claim" THEN @ ELSE FALSE]
  /\ UNCHANGED <<board, note, commands, History>>

\* load_notes.
LoadsNotes(u) ==
  /\ user[u].pc = "load"
  /\ user' = [user EXCEPT ![u].pc = "read", ![u].notes = note]
  /\ UNCHANGED <<board, note, commands, History>>

Reading(u) == user[u].pc = "read"

\* The other commands, when what they have read has changed.
Overtaken(u) == [v \in Users |-> IF v = u \/ user[v] = AtRest THEN user[v]
                                ELSE [user[v] EXCEPT !.old = TRUE]]

\* The command has decided on the board b, and has stamped the note of c.
Decides(u, c, b, stamp) ==
  /\ note' = [note EXCEPT ![c] = stamp]
  /\ user' = [(IF note' # note THEN Overtaken(u) ELSE user) EXCEPT
                 ![u].pc = "store", ![u].seen = b, ![u].card = c,
                 ![u].notes = AtRest.notes, ![u].stamped = (note' # note)]
  /\ UNCHANGED <<board, commands, agents, overwritten, cut>>

\* Mutant: a reopened card keeps its outcome.
OutcomeKept(from, to, c) == IF to \in Terminal THEN to ELSE note[c]

\* What apply writes to the note.
Outcome(from, to, c) ==
  IF to \in Terminal THEN to ELSE IF from \in Terminal THEN "none" ELSE note[c]

\* apply: the transition is checked, the note stamped or cleared.
Applies(u, c, to, force) ==
  LET from == Standing(u, c) IN
  /\ OnBoard(Seen(u), c) /\ from \in Status
  /\ force \/ TransitionAllowed(from, to)
  /\ Decides(u, c, MoveCard(Seen(u), c, to), Outcome(from, to, c))
  /\ UNCHANGED handmade

SetsStatus(u, c, to, force) ==
  /\ Reading(u) /\ user[u].task = "any"
  /\ Applies(u, c, to, force)

\* apply_target with the icebox as the target: the note stays as it is.
Shelves(u, c, force) ==
  LET from == Standing(u, c) IN
  /\ Reading(u) /\ user[u].task = "any"
  /\ OnBoard(Seen(u), c) /\ from \in Status
  /\ from = "todo" \/ force
  /\ Decides(u, c, RemoveCard(Seen(u), c), note[c])
  /\ UNCHANGED handmade

\* and with an iced note: it enters the front of To-do, of another lane when
\* forced, or goes to the archive as cancelled.
Iced(u, c) == Reading(u) /\ user[u].task = "any" /\ user[u].notes[c] # "missing" /\ ~OnBoard(Seen(u), c)

Promotes(u, c, to, force) ==
  /\ Iced(u, c)
  /\ to = "todo" \/ force
  /\ Decides(u, c, InsertCard(Seen(u), to, c, 1), note[c])
  /\ handmade' = (handmade \/ to = "ready")

CancelsIced(u, c) ==
  /\ Iced(u, c)
  /\ Decides(u, c, Archive(Seen(u), c), "cancelled")
  /\ UNCHANGED handmade

Prioritizes(u, c) ==
  LET b == Seen(u) IN
  /\ Reading(u) /\ user[u].task = "any" /\ InLane(b, c)
  /\ LET l == Standing(u, c) IN
     \E i \in 1..Len(b.lanes[l]) : Decides(u, c, InsertCard(RemoveCard(b, c), l, c, i), note[c])
  /\ handmade' = TRUE

\* new: an id that no note and no card has; the icebox is the note alone.
Files(u, c, iced) ==
  LET b == Seen(u) IN
  /\ Reading(u) /\ user[u].task = "any" /\ ~Filed(c) /\ ~OnBoard(b, c)
  /\ IF iced
       THEN /\ note' = [note EXCEPT ![c] = "none"]
            /\ user' = [user EXCEPT ![u] = AtRest]
            /\ UNCHANGED <<board, commands, agents, overwritten, cut>>
       ELSE \E i \in {1, Len(b.lanes["todo"]) + 1} :
              Decides(u, c, InsertCard(b, "todo", c, i), "none")
  /\ UNCHANGED handmade

\* accept_all: the Ready cards of the first reading, one apply each.
AcceptsAll(u) ==
  /\ Reading(u) /\ user[u].task = "any"
  /\ user' = [user EXCEPT ![u] = [AtRest EXCEPT !.task = "batch",
                                    !.queue = Seen(u).lanes["ready"]]]
  /\ UNCHANGED <<board, note, commands, History>>

AcceptsNext(u) ==
  /\ Reading(u) /\ user[u].task = "batch" /\ user[u].queue # <<>>
  /\ Applies(u, Head(user[u].queue), "accepted", FALSE)

\* Mutant: a dispatch looks at the blockers only.
GuardsBlockersOnly(u, c, force) ==
  /\ Reading(u) /\ user[u].task = "any" /\ OnBoard(Seen(u), c)
  /\ force \/ Cleared(Seen(u), user[u].notes, c)
  /\ user' = [user EXCEPT ![u] = [AtRest EXCEPT !.task = "claim", !.queue = <<c>>,
                                    !.force = force, !.old = user[u].old]]
  /\ UNCHANGED <<board, note, commands, History>>

\* dispatch: prepare guards and composes, then claims.
Guards(u, c, force) ==
  /\ Reading(u) /\ user[u].task = "any" /\ OnBoard(Seen(u), c)
  /\ force \/ IsAvailable(Seen(u), user[u].notes, c)
  /\ user' = [user EXCEPT ![u] = [AtRest EXCEPT !.task = "claim", !.queue = <<c>>,
                                    !.force = force, !.old = user[u].old]]
  /\ UNCHANGED <<board, note, commands, History>>

Claims(u) ==
  /\ Reading(u) /\ user[u].task = "claim"
  /\ Applies(u, Head(user[u].queue), "in-progress", user[u].force)

\* A guard of the command fails, it dies, or there is nothing left to do.  One
\* that dies after its stamp leaves a card whose note and place disagree.
Quits(u) ==
  /\ user[u] # AtRest
  /\ user' = [user EXCEPT ![u] = AtRest]
  /\ cut' = IF user[u].pc = "store" /\ user[u].stamped THEN cut \cup {user[u].card} ELSE cut
  /\ UNCHANGED <<board, note, commands, agents, overwritten, handmade>>

-----------------------------------------------------------------------------
\* The launch of a claimed card follows the claim.
Launched(u, c) == user[u].task = "claim" /\ ~user[u].force /\ user[u].card = c

\* A card that is archived or taken from the archive by apply has its stamp
\* right again; one that is shelved from it does not.
Mended(u) ==
  LET c == user[u].card IN
  IF c \in board.archive /\ ~OnBoard(Seen(u), c) THEN cut \cup {c} ELSE
  IF c \in Seen(u).archive \/ user[u].stamped THEN cut \ {c} ELSE cut

\* The board is written, whatever it has become meanwhile.
Stores(u) ==
  LET b == Seen(u) IN
  /\ user[u].pc = "store"
  /\ board' = b
  /\ overwritten' = (overwritten \/ user[u].old)
  /\ cut' = Mended(u)
  /\ agents' = [c \in Cards |->
                  IF Contains(b.lanes["todo"], c) \/ ~OnBoard(b, c) THEN 0 ELSE
                  IF Launched(u, c) /\ agents[c] < 2 THEN agents[c] + 1 ELSE agents[c]]
  /\ user' = [Overtaken(u) EXCEPT
                 ![u] = IF user[u].task = "batch"
                          THEN [AtRest EXCEPT !.task = "batch", !.queue = Tail(user[u].queue)]
                          ELSE AtRest]
  /\ UNCHANGED <<note, commands, handmade>>

BoardNext ==
  \E u \in Users :
    \/ Starts(u) \/ ReadsAgain(u) \/ LoadsNotes(u) \/ Stores(u) \/ Quits(u)
    \/ AcceptsAll(u) \/ AcceptsNext(u) \/ Claims(u)
    \/ \E c \in Cards :
         \/ CancelsIced(u, c) \/ Prioritizes(u, c)
         \/ \E iced \in BOOLEAN : Files(u, c, iced)
         \/ \E force \in BOOLEAN :
              \/ Shelves(u, c, force) \/ Guards(u, c, force)
              \/ \E to \in Status : SetsStatus(u, c, to, force)
              \/ \E to \in Lanes : Promotes(u, c, to, force)

BoardSpec == BoardInit /\ [][BoardNext]_boardVars

-----------------------------------------------------------------------------
(* Types; and no card is ever on a board twice, on disk or in the memory   *)
(* of a command, however the commands overlap.                             *)
Once(b) ==
  /\ \A l \in Lanes : IsInjective(b.lanes[l])
  /\ \A l, m \in Lanes : l # m => ToSet(b.lanes[l]) \cap ToSet(b.lanes[m]) = {}
  /\ \A l \in Lanes : ToSet(b.lanes[l]) \cap b.archive = {}

BoardTypeOK ==
  /\ board \in Boards /\ Once(board)
  /\ note \in [Cards -> Stamp]
  /\ \A u \in Users :
       /\ user[u].pc \in {"idle", "load", "read", "store"} /\ user[u].task \in {"any", "claim", "batch"}
       /\ user[u].queue \in Seq(Cards) /\ user[u].card \in Cards \cup {"none"}
       /\ Seen(u) \in Boards /\ Once(Seen(u))
       /\ user[u].notes \in [Cards -> Stamp]
       /\ user[u].old \in BOOLEAN /\ user[u].force \in BOOLEAN /\ user[u].stamped \in BOOLEAN
  /\ commands \in 0..MaxCommands /\ agents \in [Cards -> 0..2]
  /\ overwritten \in BOOLEAN /\ cut \subseteq Cards /\ handmade \in BOOLEAN

(* "The price of two independently-editable stores" (lint): a note carries *)
(* an outcome exactly when its card is archived.  That fails only for a    *)
(* card whose command died between the two writes, or that was shelved by  *)
(* force from the archive, until its next archival or reopening; or when   *)
(* a command overwrote what another had changed.                           *)
StampsFollowTheBoard ==
  ~overwritten =>
    \A c \in Cards :
      (\A u \in Users : user[u].pc = "store" => user[u].card # c) /\ c \notin cut
        => (c \in board.archive <=> note[c] \in Terminal)

(* The board and its notes agree, after every step of every command: no    *)
(* card is filed twice, and those with an outcome are the archived ones.   *)
BoardAndNotesAgree == BoardTypeOK /\ StampsFollowTheBoard

(* A card slots into Ready after what blocks it and before what it blocks: *)
(* as long as nobody orders the lane by hand, accepting from the top never *)
(* accepts a card before one it depends on, overlapping commands included. *)
(* Except for a card amid a chain: it comes after what blocks it, and may  *)
(* find what it blocks before that.                                        *)
ReadyInDependencyOrder ==
  ~handmade => InDependencyOrder(board.lanes["ready"])

(* dispatch refuses "a card that isn't Available": a card is not given to  *)
(* a second implementor until it is back in To-do, unless the board was    *)
(* changed between a dispatch's guard and its claim.                       *)
OneImplementorPerCard == ~overwritten => \A c \in Cards : agents[c] <= 1
=============================================================================
