------------------------------- MODULE MCFiles -------------------------------
(* The files the program keeps as text, each scene with its own variables: *)
(* BOARD.md, a note, files replaced whole, the journal, and stamps.  The   *)
(* scenes share nothing, and one is run at a time.                         *)
EXTENDS BoardText, NoteText, FileWrites, Calendar

VARIABLE scene

\* A board of two cards and two lanes; a note with three labels.
MCIds == {"a", "b"}
MCActive == <<"To-do", "Ready">>
MCInserted == {Heading("Ready", 3), Heading("Icebox", 0), Heading("Archive", 0),
               Item("a", FALSE), Item("b", TRUE), Item("none", FALSE)}
              \cup {Line(k) : k \in {"more", "blank", "foreign", "settings"}}
MCTexts ==
  {<<>>,
   <<Line("rule"), Line("foreign"), Line("rule"), Line("blank"),
     Heading("To-do", 3), Line("blank"), Item("a", FALSE), Line("more"), Item("b", FALSE), Line("blank"),
     Heading("Ready", 0), Line("blank"), Line("settings"), Line("keys")>>,
   <<Heading("To-do", 0), Line("blank"), Item("a", FALSE), Heading("Ready", 0),
     Heading("Archive", 0), Line("blank"), Item("b", TRUE), Line("settings"), Line("design keys")>>}

MCLabels == {"x", "y", "q"}
MCAwkward == {"q"}
MCFronts ==
  {<<Inline("title", "t"), FlowList("labels", ls)>> \o design \o <<Bare("aliases"), Bullet("b", FALSE)>> \o outcome
     : ls \in {<<"x", "y">>, <<"x", "q">>}, design \in {<<>>, <<Inline("design", "y")>>},
       outcome \in {<<>>, <<Inline("disposition", "accepted")>>}}

\* A long text and a short one; six moments of a day, around the ends of
\* February, of centuries and of years.
MCWriters == {"long", "short"}
MCUnits == {"a", "b", "c"}
MCText(w) == IF w = "long" THEN <<"a", "a">> ELSE <<"b">>
MCFirst == <<"c">>
MCMoments == {0, 59, 60, 3599, 3600, 86399}
MCStamping == {789, 10956, 11016, 47540}

-----------------------------------------------------------------------------
MCInit ==
  /\ scene \in {"board", "note", "file", "journal", "clock"}
  /\ IF scene = "board" THEN BoardTextInit
     ELSE /\ text = <<>> /\ noted = {} /\ stamped = {} /\ meant = <<>> /\ kind = "edit"
          /\ touches = 0 /\ writes = 0
  /\ IF scene = "note" THEN NoteTextInit
     ELSE /\ front = <<>> /\ says = [title |-> Absent, labels |-> <<>>, design |-> Absent, disposition |-> Absent]
          /\ revised = {} /\ gapped = FALSE /\ reforms = 0 /\ revisions = 0
  /\ FileInit /\ JournalInit /\ CalendarInit

MCNext ==
  \/ scene = "board" /\ BoardTextNext /\ UNCHANGED <<noteVars, fileVars, journal, calendarVars, scene>>
  \/ scene = "note" /\ NoteTextNext /\ UNCHANGED <<textVars, fileVars, journal, calendarVars, scene>>
  \/ scene = "file" /\ FileNext /\ UNCHANGED <<textVars, noteVars, journal, calendarVars, scene>>
  \/ scene = "journal" /\ JournalNext /\ UNCHANGED <<textVars, noteVars, fileVars, calendarVars, scene>>
  \/ scene = "clock" /\ CalendarNext /\ UNCHANGED <<textVars, noteVars, fileVars, journal, scene>>

MCVars == <<textVars, noteVars, fileVars, journal, calendarVars, scene>>

MCSpec == MCInit /\ [][MCNext]_MCVars
=============================================================================
