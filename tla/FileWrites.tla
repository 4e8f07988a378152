------------------------------ MODULE FileWrites ------------------------------
(***************************************************************************)
(* How files on the host change under their readers: BOARD.md, notes and   *)
(* liveness.json are replaced whole, by a temporary file whose name is the *)
(* same for every writer (project/fs.rs, sandbox/liveness.rs); the journal *)
(* of reports is appended to, and read with its torn lines in it           *)
(* (sandbox/report_log.rs).  Writers may die, or fail, at any step.        *)
(***************************************************************************)
EXTENDS Naturals, Sequences, SequencesExt

CONSTANTS
  Writers,      \* processes that replace the file
  Units,        \* what a text is made of
  Text(_),      \* what each of them writes, not empty
  First,        \* the file at first
  MaxReplaces,  \* bound of the model: replacements begun
  MaxAppends    \* bound of the model: entries of the journal

ASSUME FileWritesAssumption ==
  /\ First \in Seq(Units)
  /\ \A w \in Writers : Text(w) \in Seq(Units) /\ Text(w) # <<>>
  /\ MaxReplaces \in Nat /\ MaxAppends \in Nat

VARIABLES
  inodes,   \* the contents of every file there has been
  temp,     \* the inode of the temporary file, 0 without one
  target,   \* the inode of the file itself
  hands,    \* per writer: its step, its open inode, and whether it has been
            \* the only writer since it began (history)
  replaces, \* replacements begun
  placed,   \* the text last renamed into place, empty if its writer was not alone (history)
  reader,   \* the inode a reader has open, 0 without one, and what it must read (history)
  got,      \* whether the last read was of that (history)
  journal   \* the entries of the journal, in the order they were appended

fileVars == <<inodes, temp, target, hands, replaces, placed, reader, got>>

-----------------------------------------------------------------------------
Idle == [at |-> "idle", fd |-> 0, alone |-> TRUE]
Open == [fd |-> 0, due |-> <<>>]

FileInit ==
  /\ inodes = <<First>> /\ temp = 0 /\ target = 1
  /\ hands = [w \in Writers |-> Idle] /\ replaces = 0
  /\ placed = First /\ reader = Open /\ got = TRUE

ReadFrame == UNCHANGED <<reader, got>>

\* A writer begins: nobody at work is alone any more.
Enters(w, fd) ==
  LET busy == \E v \in Writers : hands[v].at # "idle" IN
  hands' = [v \in Writers |-> IF v = w THEN [at |-> "open", fd |-> fd, alone |-> ~busy]
                              ELSE [hands[v] EXCEPT !.alone = @ /\ hands[v].at = "idle"]]

\* Mutant: the file itself is opened, and emptied.
OpensInPlace(w) ==
  /\ hands[w].at = "idle" /\ replaces < MaxReplaces /\ replaces' = replaces + 1
  /\ inodes' = [inodes EXCEPT ![target] = <<>>] /\ temp' = target
  /\ Enters(w, target)
  /\ UNCHANGED <<target, placed>> /\ ReadFrame

\* write of the temporary file: it is created, or emptied if it is there.
OpensTemp(w) ==
  /\ hands[w].at = "idle" /\ replaces < MaxReplaces /\ replaces' = replaces + 1
  /\ IF temp = 0
       THEN inodes' = Append(inodes, <<>>) /\ temp' = Len(inodes) + 1
       ELSE inodes' = [inodes EXCEPT ![temp] = <<>>] /\ UNCHANGED temp
  /\ Enters(w, temp')
  /\ UNCHANGED <<target, placed>> /\ ReadFrame

\* n units of the text, over what the inode holds by then.
Puts(w, n) ==
  LET fd == hands[w].fd IN
  inodes' = [inodes EXCEPT ![fd] = SubSeq(Text(w), 1, n) \o SubSeq(@, n + 1, Len(@))]

Fills(w) ==
  /\ hands[w].at = "open"
  /\ Puts(w, Len(Text(w)))
  /\ hands' = [hands EXCEPT ![w].at = "full"]
  /\ UNCHANGED <<temp, target, replaces, placed>> /\ ReadFrame

\* rename: an error when another writer has renamed the file away.
Renames(w) ==
  /\ hands[w].at = "full"
  /\ hands' = [hands EXCEPT ![w] = Idle]
  /\ IF temp = 0 THEN UNCHANGED <<temp, target, placed>>
     ELSE /\ target' = temp /\ temp' = 0
          /\ placed' = IF hands[w].alone THEN Text(w) ELSE <<>>
  /\ UNCHANGED <<inodes, replaces>> /\ ReadFrame

\* The writer dies, or gives up on an error, with part of its text written.
Stops(w, n) ==
  /\ hands[w].at # "idle"
  /\ hands[w].at = "full" => n = Len(Text(w))
  /\ Puts(w, n)
  /\ hands' = [hands EXCEPT ![w] = Idle]
  /\ UNCHANGED <<temp, target, replaces, placed>> /\ ReadFrame

\* read_to_string: it opens the file, and reads what the inode holds then.
OpensFile ==
  /\ reader = Open
  /\ reader' = [fd |-> target, due |-> placed]
  /\ UNCHANGED <<inodes, temp, target, hands, replaces, placed, got>>

ReadsFile ==
  /\ reader # Open
  /\ got' = (reader.due = <<>> \/ inodes[reader.fd] = reader.due)
  /\ reader' = Open
  /\ UNCHANGED <<inodes, temp, target, hands, replaces, placed>>

FileNext ==
  \/ \E w \in Writers :
       \/ OpensTemp(w) \/ Fills(w) \/ Renames(w)
       \/ \E n \in 0..Len(Text(w)) : Stops(w, n)
  \/ OpensFile \/ ReadsFile

FileSpec == FileInit /\ [][FileNext]_fileVars

-----------------------------------------------------------------------------
(* The journal.  An entry is whole; or its line is cut short, before the   *)
(* newline, amid its text, or amid a character; what is appended then goes *)
(* on in the same line.                                                    *)

JournalInit == journal = <<>>

Entry(n, terminal, cut) == [n |-> n, terminal |-> terminal, cut |-> cut]

\* append, by journal_event.  It is one write at the end of the file.
Appends(terminal, cut) ==
  /\ Len(journal) < MaxAppends
  /\ journal' = Append(journal, Entry(Len(journal) + 1, terminal, cut))

\* The lines of the journal, each with the entries in it.
RunsOn(ls, e) ==
  IF ls # <<>> /\ Last(Last(ls)).cut # "none" THEN Append(Front(ls), Append(Last(ls), e))
  ELSE Append(ls, <<e>>)
LinesOf(j) == FoldLeft(RunsOn, <<>>, j)

\* report_log::parse: bytes that are not UTF-8 have no lines; a line that is
\* not one entry is skipped.
Whole(l) == Len(l) = 1 /\ l[1].cut \in {"none", "newline"}
Collects(es, l) == IF Whole(l) THEN Append(es, l[1]) ELSE es
Parsed(j) ==
  IF \E n \in DOMAIN j : j[n].cut = "character" THEN <<>> ELSE FoldLeft(Collects, <<>>, LinesOf(j))

\* latest_terminal: the number of its entry, 0 without one.
LatestTerminal(j) ==
  LET i == SelectLastInSeq(Parsed(j), LAMBDA e : e.terminal) IN IF i = 0 THEN 0 ELSE Parsed(j)[i].n

JournalNext ==
  \E terminal \in BOOLEAN, cut \in {"none", "newline", "text", "character"} : Appends(terminal, cut)

JournalSpec == JournalInit /\ [][JournalNext]_journal

-----------------------------------------------------------------------------
(* Types; and the file is always there.                                    *)
FilesTypeOK ==
  /\ target \in DOMAIN inodes /\ temp \in 0..Len(inodes)
  /\ \A w \in Writers : hands[w].at \in {"idle", "open", "full"} /\ hands[w].fd \in 0..Len(inodes)
  /\ replaces \in 0..MaxReplaces /\ got \in BOOLEAN

(* Whatever dies or fails, and whatever it leaves behind: the file is what *)
(* the last writer to replace it wrote, and a reader gets a whole text, if *)
(* that writer worked alone.  (Two at once share the temporary file: one   *)
(* may put the other's half-written text in place.)                        *)
ReplacedWhole ==
  /\ placed # <<>> => inodes[target] = placed
  /\ got

(* "A partially-written trailing line [...] must not make the rest of the  *)
(* history unreadable": every entry can be read that was appended whole    *)
(* after one that was, and status shows no conclusion older than the last  *)
(* of them.  (An entry after a torn one shares its line and is lost; a     *)
(* line torn within a character hides the whole journal.)                  *)
TornEntriesCostTheNext ==
  LET sure == {n \in DOMAIN journal : journal[n].cut = "none" /\ (n > 1 => journal[n - 1].cut = "none")}
  IN  (\A n \in DOMAIN journal : journal[n].cut # "character") =>
        /\ sure \subseteq {e.n : e \in ToSet(Parsed(journal))}
        /\ \A n \in sure : journal[n].terminal => LatestTerminal(journal) >= n

(* A reader sees whole texts and whole entries.                            *)
ReadersSeeWhole == FilesTypeOK /\ ReplacedWhole /\ TornEntriesCostTheNext
=============================================================================
