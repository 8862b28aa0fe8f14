------------------------------ MODULE TuiRender ------------------------------
(***************************************************************************)
(* The renderer of the terminal interface (agent_tui/tui.py) on a terminal.*)
(*                                                                         *)
(* TUI keeps what it drew last, where it believes the cursor to be and     *)
(* which logical line is at the top of the screen, and writes only what    *)
(* has changed, with relative cursor moves.  The terminal does what a      *)
(* terminal does: moves stop at its edges, a newline on the last row       *)
(* scrolls, a line that is too wide goes on in the next row.               *)
(* Rows are counted from 0, as in the code.  Columns, styles and whether   *)
(* the cursor is visible are left out.                                     *)
(***************************************************************************)
EXTENDS Integers, Sequences, SequencesExt, FiniteSetsExt

CONSTANTS
  Line,        \* what components render: <<text, cells>>
  MaxLines,    \* bound: lines of a frame
  Columns,     \* the widths the terminal can have
  Heights,     \* the heights it can have
  MaxResizes,  \* bound: resizes
  MaxHops      \* bound: requests on their way to the thread of the loop

ASSUME TuiRenderAssumption ==
  /\ Line \subseteq STRING \X (Nat \ {0}) /\ Line # {}
  /\ Columns \subseteq Nat \ {0} /\ Heights \subseteq Nat \ {0}
  /\ {MaxLines, MaxResizes, MaxHops} \subseteq Nat

VARIABLES
  content,    \* what the components would render: [lines, marker]
  tui,        \* what TUI keeps of the last frame
  term,       \* the terminal
  requested,  \* _render_requested
  timer,      \* _render_timer is set
  callbacks,  \* scheduled calls of _do_scheduled_render
  hops,       \* calls of request_render on their way to the loop
  stopped,    \* _stopped
  resizes, damaged  \* resizes so far; one since the last full redraw

schedule == <<requested, timer, callbacks, hops>>
vars == <<content, tui, term, schedule, stopped, resizes, damaged>>

NoMarker == -1
Blank == <<"", 0>>
Junk == <<"junk", 0>>

-----------------------------------------------------------------------------
(* The terminal: [rows, at, columns, delayed] *)

Height(t) == Len(t.rows)
Up(t, n) == [t EXCEPT !.at = Max({0, @ - n})]
Down(t, n) == [t EXCEPT !.at = Min({Height(t) - 1, @ + n})]
Move(t, delta) == IF delta > 0 THEN Down(t, delta) ELSE Up(t, -delta)

Newline(t) ==
  IF t.at < Height(t) - 1 THEN [t EXCEPT !.at = @ + 1]
  ELSE [t EXCEPT !.rows = Append(Tail(@), Blank)]
ClearLine(t) == [t EXCEPT !.rows[t.at + 1] = Blank]
ClearAll(t) == [t EXCEPT !.rows = [i \in DOMAIN @ |-> Blank], !.at = 0]
Home(t) == [t EXCEPT !.at = 0]

\* Without delayed wrap a line that fills the row already moves the cursor on
Wraps(t, line) == line[2] > t.columns \/ (line[2] = t.columns /\ ~t.delayed)
Put(t, line) ==
  LET u == [t EXCEPT !.rows[t.at + 1] = line]
  IN  IF Wraps(t, line) THEN Newline(u) ELSE u

WriteLines(t, lines) ==
  FoldLeft(LAMBDA u, i : Put(IF i = 1 THEN u ELSE Newline(u), lines[i]),
           t, [i \in DOMAIN lines |-> i])
RewriteLines(t, lines) ==
  FoldLeft(LAMBDA u, i : Put(ClearLine(IF i = 1 THEN u ELSE Newline(u)), lines[i]),
           t, [i \in DOMAIN lines |-> i])

-----------------------------------------------------------------------------
(* A frame: functions of what TUI keeps, the terminal and the content *)

\* The last column is left free where a full row would wrap at once
Width(t) == IF t.delayed THEN t.columns ELSE Max({1, t.columns - 1})

\* Mutant: lines are as wide as components make them
FitNothing(line, width) == line

\* _fit_line_to_width
Fit(line, width) == IF line[2] <= width THEN line ELSE <<line[1], width>>
Rendered(t, c) == [i \in DOMAIN c.lines |-> Fit(c.lines[i], Width(t))]

WidthChanged(u, t) == u.width # 0 /\ u.width # Width(t)
HeightChanged(u, t) == u.height # 0 /\ u.height # Height(t)
ViewportTop(u, t) ==
  IF HeightChanged(u, t)
  THEN Max({0, (IF u.height > 0 THEN u.top + u.height ELSE Height(t)) - Height(t)})
  ELSE u.top

\* _extract_cursor_position: a marker off the screen does not count
Marker(u, t, c) ==
  LET bottom == Max({0, Len(c.lines) - Height(t)})
      top == IF u.prev = <<>> \/ WidthChanged(u, t) \/ HeightChanged(u, t)
             THEN bottom ELSE Max({ViewportTop(u, t), bottom})
  IN  IF c.marker \in top .. top + Height(t) - 1 THEN c.marker ELSE NoMarker

\* _position_hardware_cursor
Position(s, marker) ==
  IF marker = NoMarker THEN s
  ELSE [tui |-> [s.tui EXCEPT !.hw = marker], term |-> Move(s.term, marker - s.tui.hw)]

Kept(new, t, top, hw) ==
  [prev |-> new, width |-> Width(t), height |-> Height(t), top |-> top, hw |-> hw]

FullRender(u, t, new, marker) ==
  Position([tui |-> Kept(new, t, Max({Height(t), Len(new)}) - Height(t), Max({0, Len(new) - 1})),
            term |-> WriteLines(t, new)], marker)

\* _write_deleted_lines: only lines at the end have gone
Deleted(u, t, new, marker) ==
  LET top == ViewportTop(u, t)
      target == Max({0, Len(new) - 1})
      extra == Len(u.prev) - Len(new)
      below == IF new = <<>> THEN 0 ELSE 1
      cleared == FoldLeft(LAMBDA v, i : ClearLine(IF i = 1 THEN v ELSE Down(v, 1)),
                          Down(Move(t, target - u.hw), below), [i \in 1 .. extra |-> i])
  IN  IF target < top \/ extra > Height(t)
      THEN FullRender(u, ClearAll(t), new, marker)
      ELSE Position([tui |-> Kept(new, t, top, target),
                     term |-> Up(cleared, extra - 1 + below)], marker)

\* A pure append enters its first row with a newline
Enter(t, append) == IF append THEN Newline(t) ELSE t

\* Where the cursor is left after the changed lines
RowAfter(marker, final, old) == IF marker = NoMarker THEN final ELSE marker

\* The lines from first to last have changed (or are new, or have gone)
Differential(u, t, new, marker, first, last) ==
  LET append == Len(u.prev) = first /\ first > 0 /\ Len(new) > first
      target == IF append THEN first - 1 ELSE first
      end == Min({last, Len(new) - 1})
      extra == Max({0, Len(u.prev) - Len(new)})
      entered == Enter(Move(t, target - u.hw), append)
      written == RewriteLines(entered, SubSeq(new, first + 1, end + 1))
      shrunk == IF extra = 0 THEN written
                ELSE Up(FoldLeft(LAMBDA v, i : ClearLine(Newline(v)),
                                 Down(written, Len(new) - 1 - end), [i \in 1 .. extra |-> i]), extra)
      final == IF extra = 0 THEN end ELSE Len(new) - 1
  IN  [tui |-> Kept(new, t, Max({u.top, final - Height(t) + 1}), RowAfter(marker, final, u.hw)),
       term |-> IF marker = NoMarker THEN shrunk ELSE Move(shrunk, marker - final)]

\* _do_render
Render(u, t, c) ==
  LET new == Rendered(t, c)
      marker == Marker(u, t, c)
      At(lines, i) == IF i \in DOMAIN lines THEN lines[i] ELSE Blank
      changed == {i \in 1 .. Max({Len(new), Len(u.prev)}) : At(u.prev, i) # At(new, i)}
      first == Min(changed) - 1
  IN  IF WidthChanged(u, t) \/ HeightChanged(u, t) THEN FullRender(u, ClearAll(t), new, marker)
      ELSE IF u.prev = <<>> THEN FullRender(u, Home(t), new, marker)
      ELSE IF changed = {}
      THEN Position([tui |-> [u EXCEPT !.top = ViewportTop(u, t)], term |-> t], marker)
      ELSE IF first >= Len(new) THEN Deleted(u, t, new, marker)
      ELSE IF first < u.top THEN FullRender(u, ClearAll(t), new, marker)
      ELSE Differential(u, t, new, marker, first, Max(changed) - 1)

-----------------------------------------------------------------------------
(* Scheduling *)

Frames == UNION {[1 .. n -> Line] : n \in 0 .. MaxLines}
Contents == {[lines |-> f, marker |-> m] : f \in Frames, m \in {NoMarker} \cup 0 .. MaxLines - 1}
Shaped == {c \in Contents : c.marker < Len(c.lines)}

\* The terminal as someone else leaves it
Screens(h, w, d) ==
  {[rows |-> [i \in 1 .. h |-> Junk], at |-> r, columns |-> w, delayed |-> d] : r \in 0 .. h - 1}

Init ==
  /\ content \in {c \in Shaped : c.lines = <<>>}
  /\ tui = [prev |-> <<>>, width |-> 0, height |-> 0, top |-> 0, hw |-> 0]
  /\ \E h \in Heights, w \in Columns, d \in BOOLEAN : term \in Screens(h, w, d)
  /\ requested \in BOOLEAN /\ timer = FALSE /\ callbacks = 0 /\ hops = 0
  /\ stopped = TRUE /\ resizes = 0 /\ damaged = FALSE

\* start: request_render(force=True), which forgets what was drawn and what
\* was asked for before the start
Start ==
  /\ stopped /\ stopped' = FALSE
  /\ tui' = [prev |-> <<>>, width |-> -1, height |-> -1, top |-> 0, hw |-> 0]
  /\ requested' = TRUE /\ timer' = FALSE
  /\ callbacks' = (IF timer THEN callbacks - 1 ELSE callbacks) + 1
  /\ tui.width = 0
  /\ UNCHANGED <<content, term, hops, resizes, damaged>>

\* Components change, and ask for a frame, on any thread
Change ==
  /\ ~stopped /\ hops < MaxHops /\ hops' = hops + 1
  /\ content' \in Shaped \ {content}
  /\ UNCHANGED <<tui, term, requested, timer, callbacks, stopped, resizes, damaged>>

\* The terminal shows something of its own after a resize.  Sizes that differ
\* from the last frame's: see the README on a resize that is undone in time
Resize ==
  /\ ~stopped /\ ~damaged /\ resizes < MaxResizes /\ resizes' = resizes + 1
  /\ hops < MaxHops /\ hops' = hops + 1
  /\ \E h \in Heights, w \in Columns :
       /\ <<h, w>> # <<Height(term), term.columns>>
       /\ term' \in Screens(h, w, term.delayed)
  /\ damaged' = TRUE
  /\ UNCHANGED <<content, tui, requested, timer, callbacks, stopped>>

\* request_render, in the thread of the loop
RequestRender ==
  /\ hops > 0 /\ hops' = hops - 1 /\ requested' = TRUE
  /\ LET schedules == ~requested /\ ~stopped /\ ~timer
     IN  /\ timer' = (timer \/ schedules)
         /\ callbacks' = IF schedules THEN callbacks + 1 ELSE callbacks
  /\ UNCHANGED <<content, tui, term, stopped, resizes, damaged>>

Draws ==
  LET r == Render(tui, term, content)
  IN  /\ tui' = r.tui /\ term' = r.term
      /\ damaged' = (damaged /\ ~WidthChanged(tui, term) /\ ~HeightChanged(tui, term))

\* _do_scheduled_render: the handle is dropped whichever call this is
ScheduledRender ==
  /\ callbacks > 0 /\ callbacks' = callbacks - 1 /\ timer' = FALSE
  /\ IF stopped \/ ~requested
     THEN UNCHANGED <<tui, term, requested, damaged>>
     ELSE Draws /\ requested' = FALSE
  /\ UNCHANGED <<content, hops, stopped, resizes>>

\* render_now, for streamed text
RenderNow ==
  /\ ~stopped /\ Draws
  /\ requested' = FALSE /\ timer' = FALSE
  /\ callbacks' = IF timer THEN callbacks - 1 ELSE callbacks
  /\ UNCHANGED <<content, hops, stopped, resizes>>

\* The cursor goes to the end of what was drawn, and to a new line
LeavesBelow(u, t) ==
  IF u.prev = <<>> THEN t ELSE Newline(Move(t, Len(u.prev) - u.hw))

Stop ==
  /\ ~stopped /\ stopped' = TRUE
  /\ timer' = FALSE /\ callbacks' = IF timer THEN callbacks - 1 ELSE callbacks
  /\ term' = LeavesBelow(tui, term)
  /\ UNCHANGED <<content, tui, requested, hops, resizes, damaged>>

Next == Start \/ Change \/ Resize \/ RequestRender \/ ScheduledRender \/ RenderNow \/ Stop

Spec == Init /\ [][Next]_vars

-----------------------------------------------------------------------------
Drawn == tui.width > 0

TypeOK ==
  /\ content \in Shaped
  /\ tui.hw \in 0 .. MaxLines /\ tui.top \in 0 .. MaxLines
  /\ term.at \in 0 .. Height(term) - 1
  /\ callbacks \in Nat /\ hops \in 0 .. MaxHops

\* After every frame the screen shows the lines from the viewport's top on,
\* nothing else, and the cursor is where TUI believes it is: relative moves
\* never drift (_do_render, _write_deleted_lines).
ScreenShowsTheLines ==
  Drawn /\ ~damaged /\ ~stopped =>
    /\ tui.hw = tui.top + term.at
    /\ \A r \in DOMAIN term.rows :
         term.rows[r] = IF tui.top + r \in DOMAIN tui.prev THEN tui.prev[tui.top + r] ELSE Blank

\* The cursor of the focused component, for input methods, is on its line when
\* a frame that showed the line has been drawn, unless that frame scrolled back
\* (_extract_cursor_position judges by the viewport of the frame before).
CursorFollowsItsMarker ==
  [][tui' # tui /\ tui.width > 0 /\ tui'.top >= tui.top /\ ~damaged'
     /\ content.marker - tui'.top \in 0 .. Height(term) - 1
     => tui'.top + term'.at = content.marker]_vars

\* What comes after the program does not overwrite what it showed: the cursor
\* is left below it (the comment in stop).
ExitLeavesTheScreen ==
  stopped /\ Drawn /\ ~damaged /\ tui.prev # <<>> =>
    \A r \in DOMAIN term.rows : r > term.at => term.rows[r] = Blank

\* A change is drawn: as long as the screen is behind what components show, a
\* request or a scheduled call that will draw it is on its way, however requests
\* of other threads, timers and forced frames interleave (request_render).
ChangesAreDrawn ==
  ~stopped /\ (damaged \/ tui.prev # Rendered(term, content)) =>
    hops > 0 \/ (requested /\ callbacks > 0)

\* What a frame leaves is what the components show, lines and cursor; whatever
\* is not yet drawn will be; and what was drawn stays after the end
\* (_do_render, request_render, stop).
FramesShowTheDocument ==
  /\ [](ScreenShowsTheLines /\ ExitLeavesTheScreen /\ ChangesAreDrawn)
  /\ CursorFollowsItsMarker
=============================================================================
