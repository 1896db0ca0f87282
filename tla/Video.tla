------------------------------- MODULE Video -------------------------------
(***************************************************************************)
(* video.c draws no more than has changed.  Writes to screen memory mark   *)
(* chunks of eight bytes; switches record, line by line, the mode each     *)
(* line of the frame is shown in; an event every line, or every eighth,    *)
(* redraws what is marked up to the beam into one of five images, each of  *)
(* which remembers in what mode each of its lines was last drawn; and at   *)
(* the end of the frame what was redrawn is copied to the host's window.   *)
(*                                                                         *)
(* A chunk of memory holds one of two values, and a picture is what it is  *)
(* computed from: the mode, the chunks it depends on and the colours.      *)
(* Hires lines lie in memory one after the other.  The host has true       *)
(* colours (g_installed_full_superhires_colormap); the border, which is    *)
(* one colour around the lines, is left out.                               *)
(***************************************************************************)
EXTENDS Integers

CONSTANTS
  ScreenRows,   \* rows of text, the one that only super hires uses included (25)
  RowLines,     \* lines in a row (8)
  MixedLine,    \* where the text of a mixed screen begins (160)
  BorderLine,   \* the first line only super hires uses (192)
  Chunks,       \* chunks in a line of 40 bytes (5); super hires has four times as many
  FlashPeriod   \* frames between two changes of flashing text (30)

VARIABLES
  video,        \* the variables of video.c, and screen memory
  beam          \* lines begun since the vertical blank

Last == ScreenRows * RowLines - 1
ScreenLine == 0..Last
RowOf(l) == l \div RowLines
\* Line 262, the end of a frame.
End == Last + RowLines
Chunk == 0..Chunks - 1
Super == 0..4 * Chunks - 1
\* The width of a line in pixels of no particular size.
Width == 4 * Chunks
None == "none"
Least(i, j) == IF i < j THEN i ELSE j

\* Where a chunk is in either bank of 64 KB: both share the marks.
TextAt(page, row, c) == <<"text", page, row, c>>
HiresAt(page, l, c) == <<"graphics", (page * (Last + 1) + l) * Chunks + c>>
SuperAt(l, c) == <<"graphics", l * 4 * Chunks + c>>
PaletteAt(p) == <<"palette", p>>
Palette == {0, 1}

Where == {TextAt(page, row, c) : page \in {0, 1}, row \in 0..ScreenRows - 1, c \in Chunk}
         \cup {SuperAt(l, c) : l \in ScreenLine, c \in Super} \cup {PaletteAt(p) : p \in Palette}

\* The images, each with a mode for each of its lines, and the border's modes.
Image == {"text0", "text1", "hires0", "hires1", "super"}
NoStat == [mode |-> None, page |-> 0, dbl |-> FALSE, color |-> FALSE,
           altchar |-> FALSE, tint |-> FALSE, flash |-> FALSE]
Black == <<None>>
Paged(name, page) == CASE name = "text" -> IF page = 0 THEN "text0" ELSE "text1"
                       [] name = "hires" -> IF page = 0 THEN "hires0" ELSE "hires1"

-----------------------------------------------------------------------------
(* Modes *)

\* g_cur_a2_stat is the set of switches that are on; "TINT" stands for the
\* colours of text and its background.
video_all_stat_to_line_stat(l, s) ==
  LET plain == "SUPER_HIRES" \in s \/ l >= BorderLine
      text == ~plain /\ ("TEXT" \in s \/ (l >= MixedLine /\ "MIX_T_GR" \in s))
      hires == ~plain /\ ~text /\ "HIRES" \in s
  IN [mode |-> IF "SUPER_HIRES" \in s THEN "super" ELSE IF plain THEN "border"
               ELSE IF text THEN "text" ELSE IF hires THEN "hires" ELSE "gr",
      page |-> IF ~plain /\ "PAGE2" \in s /\ "ST80" \notin s THEN 1 ELSE 0,
      dbl |-> ~plain /\ "VID80" \in s /\ (text \/ "ANNUNC3" \notin s),
      color |-> ~plain /\ ~text
                /\ ("COLOR_C021" \in s \/ (hires /\ "DIS_COLOR_DHIRES" \in s)),
      altchar |-> text /\ "ALTCHARSET" \in s,
      tint |-> text /\ "TINT" \in s,
      flash |-> text /\ "FLASH_STATE" \in s /\ "ALTCHARSET" \notin s]

kimage(stat) == CASE stat.mode \in {"text", "gr"} -> Paged("text", stat.page)
                  [] stat.mode = "hires" -> Paged("hires", stat.page)
                  [] stat.mode = "super" -> "super"
                  [] stat.mode = "border" -> "text0"
\* The array that says how the line was drawn.
mode_ptr(stat) == IF stat.mode = "border" THEN "border" ELSE kimage(stat)

\* A line changes to another mode, and tells whether it has to be drawn anew.
\* Hires and super hires use the same marks, so each spoils the other's lines.
video_update_kimage_ptr(v, l, stat) ==
  LET spoiled == CASE stat.mode = "hires" -> {"super"}
                   [] stat.mode = "super" -> {"hires0", "hires1"}
                   [] OTHER -> {}
  IN [v EXCEPT !.line_kimage[l] = kimage(stat),
               !.parsed = [a \in DOMAIN @ |->
                  [@[a] EXCEPT ![l] = IF a = mode_ptr(stat) THEN stat
                                      ELSE IF a \in spoiled THEN NoStat ELSE @]]]

video_update_all_stat_through_line(v, line) ==
  LET to == Least(Last, line) IN
  [v EXCEPT !.new_stat = [l \in ScreenLine |-> IF l > v.stat_line /\ l <= to
                                               THEN @[v.stat_line] ELSE @[l]],
            !.stat_line = to]

\* A switch holds from the line after the one that is being shown.
change_display_mode(v, line) ==
  LET w == video_update_all_stat_through_line(v, line) IN
  IF line <= Last THEN [w EXCEPT !.new_stat[line] = v.cur_stat] ELSE w

-----------------------------------------------------------------------------
(* Pictures *)

\* What a chunk of line l looks like in mode stat: all that it is drawn from.
main(v, a) == <<0, a>> \in v.memory
aux(v, a) == <<1, a>> \in v.memory

Text40(v, l, stat, c, flash) ==
  <<"text40", stat, main(v, TextAt(stat.page, RowOf(l), c)), ~stat.altchar /\ flash>>
Text80(v, l, stat, c, flash) ==
  LET a == TextAt(stat.page, RowOf(l), c) IN
  <<"text80", stat, main(v, a), aux(v, a), ~stat.altchar /\ flash>>
Gr(v, l, stat, c) == <<"gr", stat, main(v, TextAt(stat.page, RowOf(l), c))>>
DblGr(v, l, stat, c) ==
  LET a == TextAt(stat.page, RowOf(l), c) IN <<"dbl_gr", stat, main(v, a), aux(v, a)>>

\* A colour depends on the dots on either side, and so on the chunks there.
HiresBw(v, l, stat, c) == <<"hires_bw", stat, main(v, HiresAt(stat.page, l, c))>>
HiresColor(v, l, stat, c) ==
  LET on(k) == k \in Chunk /\ main(v, HiresAt(stat.page, l, k)) IN
  <<"hires_color", stat, on(c), on(c - 1), on(c + 1)>>
DblHiresBw(v, l, stat, c) ==
  LET a == HiresAt(stat.page, l, c) IN <<"dbl_hires_bw", stat, main(v, a), aux(v, a)>>
DblHiresColor(v, l, stat, c) ==
  LET a == HiresAt(stat.page, l, c) IN
  <<"dbl_hires_color", stat, main(v, a), aux(v, a),
    c > 0 /\ main(v, HiresAt(stat.page, l, c - 1)),
    c < Chunks - 1 /\ aux(v, HiresAt(stat.page, l, c + 1))>>

\* A pixel 0 of a line in fill mode looks like the last one that is not 0.
SuperHires(v, l, c, colour) ==
  LET control == v.scan[l] IN
  <<"super", control.mode640, control.fill, colour[control.palette],
    {k \in Super : aux(v, SuperAt(l, k)) /\ (k = c \/ (control.fill /\ k < c))}>>

Picture(v, l, stat, c, flash, colour) ==
  CASE stat.mode = "text" /\ ~stat.dbl -> Text40(v, l, stat, c, flash)
    [] stat.mode = "text" /\ stat.dbl -> Text80(v, l, stat, c, flash)
    [] stat.mode = "gr" /\ ~stat.dbl -> Gr(v, l, stat, c)
    [] stat.mode = "gr" /\ stat.dbl -> DblGr(v, l, stat, c)
    [] stat.mode = "hires" /\ ~stat.dbl /\ stat.color -> HiresBw(v, l, stat, c)
    [] stat.mode = "hires" /\ ~stat.dbl /\ ~stat.color -> HiresColor(v, l, stat, c)
    [] stat.mode = "hires" /\ stat.dbl /\ stat.color -> DblHiresBw(v, l, stat, c)
    [] stat.mode = "hires" /\ stat.dbl /\ ~stat.color -> DblHiresColor(v, l, stat, c)
    [] stat.mode = "super" -> SuperHires(v, l, c, colour)
    [] stat.mode = "border" -> Black

Columns(stat) == IF stat.mode = "super" THEN Super ELSE Chunk

\* Chunks spots[l] of each line l in DOMAIN spots are drawn in mode stat.
Drawn(v, stat, spots) ==
  [v EXCEPT !.image[kimage(stat)] = [l \in ScreenLine |->
     IF l \notin DOMAIN spots THEN @[l]
     ELSE [c \in Super |-> IF c \in spots[l]
            THEN Picture(v, l, stat, c, "FLASH_STATE" \in v.cur_stat, v.colour)
            ELSE @[l][c]]],
            !.buffer_changed = @ \cup {RowOf(l) : l \in {k \in DOMAIN spots : spots[k] # {}}}]

\* left and right edge of what is new on these lines; none if nothing is.
Edges(v, lines, cs, width) ==
  LET left == IF cs = {} THEN Width ELSE width * (CHOOSE c \in cs : \A k \in cs : c <= k)
      right == IF cs = {} THEN 0 ELSE width * (1 + CHOOSE c \in cs : \A k \in cs : c >= k)
  IN [v EXCEPT !.left = [l \in ScreenLine |-> IF l \in lines THEN left ELSE @[l]],
               !.right = [l \in ScreenLine |-> IF l \in lines THEN right ELSE @[l]]]

\* A mutant: whichever line it is.
AlwaysTakes(st_line) == TRUE

\* Do lines of text or lores from st_line on take the marks of their row away?
\* Only the first line of a row does: what is found changed is drawn to its end.
TakesMarks(st_line) == st_line % RowLines = 0

\* Text and lores, of 40 or 80 columns.
redraw_changed_text(v, st_line, reparse) ==
  LET stat == v.line_stat[st_line]
      row == RowOf(st_line)
      rest == st_line..(row + 1) * RowLines - 1
      found == {c \in Chunk : TextAt(stat.page, row, c) \in v.changed}
      cs == IF reparse THEN Chunk ELSE found
      w == IF TakesMarks(st_line)
           THEN [v EXCEPT !.changed = @ \ {TextAt(stat.page, row, c) : c \in found}] ELSE v
  IN IF cs = {} THEN w
     ELSE Edges(Drawn(w, stat, [l \in rest |-> cs]), rest, cs, 4)

\* The chunks of a hires line that are drawn for those that changed: in colour
\* their neighbours too, or in double hires all of them.
Affected(stat, cs) ==
  CASE cs = {} -> {}
    [] stat.color /\ stat.dbl -> cs
    [] ~stat.color /\ stat.dbl -> Chunk
    [] OTHER -> {c \in Chunk : \E k \in cs : c \in k - 1..k + 1}

redraw_changed_hires(v, st_line, num_lines, reparse) ==
  LET stat == v.line_stat[st_line]
      lines == st_line..st_line + num_lines - 1
      found == [l \in lines |-> {c \in Chunk : HiresAt(stat.page, l, c) \in v.changed}]
      spots == [l \in lines |-> Affected(stat, IF reparse THEN Chunk ELSE found[l])]
      w == [v EXCEPT !.changed = @ \ UNION {{HiresAt(stat.page, l, c) : c \in found[l]} : l \in lines}]
  IN Edges(Drawn(w, stat, spots), lines, UNION {spots[l] : l \in lines}, 4)

\* Is the line's palette another, or has it other colours, than when the line
\* was drawn?  The first line that uses it takes the mark, and counts, so that
\* the others compare.
video_rebuild_super_hires_palette(v, l, reparse) ==
  LET p == v.scan[l].palette
      old == v.scan_save[l]
      marked == PaletteAt(p) \in v.changed
      diffs == reparse \/ p # old.palette
      look == diffs \/ marked \/ v.palette_change_cnt[p] # old.cnt
      fresh == look /\ (diffs \/ v.saved_palette[l] # v.palette[p])
  IN [v |-> [v EXCEPT !.changed = @ \ {PaletteAt(p)},
                      !.scan_save[l] = [palette |-> p, mode640 |-> v.scan[l].mode640,
                                        fill |-> v.scan[l].fill, cnt |-> v.palette_change_cnt[p]],
                      !.palette_change_cnt[p] = IF look /\ marked THEN @ + 1 ELSE @,
                      !.saved_palette[l] = IF fresh THEN v.palette[p] ELSE @,
                      !.colour[p] = IF fresh THEN v.palette[p] ELSE @],
      changed |-> fresh]

\* One line of super hires, and what is new on it.
SuperLine(v, l, reparse) ==
  LET found == {c \in Super : SuperAt(l, c) \in v.changed}
      control == v.scan[l]
      old == v.scan_save[l]
      r == video_rebuild_super_hires_palette([v EXCEPT !.changed = @ \ {SuperAt(l, c) : c \in found}],
                                             l, reparse)
      whole == r.changed \/ reparse \/ control.mode640 # old.mode640 \/ control.fill # old.fill
      cs == IF whole \/ (control.fill /\ found # {}) THEN Super ELSE found
  IN [v |-> Drawn(r.v, v.line_stat[l], [k \in {l} |-> cs]), checks |-> cs]

redraw_changed_super_hires(v, st_line, num_lines, reparse) ==
  LET f[n \in 0..num_lines] ==
        IF n = 0 THEN [v |-> v, checks |-> {}]
        ELSE LET before == f[n - 1]
                 r == SuperLine(before.v, st_line + n - 1, reparse)
             IN [r EXCEPT !.checks = @ \cup before.checks]
  IN Edges(f[num_lines].v, st_line..st_line + num_lines - 1, f[num_lines].checks, 1)

-----------------------------------------------------------------------------
(* A frame *)

video_refresh_lines(v, st_line, num_lines, must_reparse) ==
  LET mode == v.line_stat[st_line].mode
      lines == st_line..st_line + num_lines - 1
  IN CASE mode \in {"text", "gr"} -> redraw_changed_text(v, st_line, must_reparse)
       [] mode = "hires" -> redraw_changed_hires(v, st_line, num_lines, must_reparse)
       [] mode = "super" -> redraw_changed_super_hires(v, st_line, num_lines, must_reparse)
       [] mode = "border" -> [v EXCEPT !.left = [l \in ScreenLine |-> IF l \in lines THEN 0 ELSE @[l]],
                                       !.right = [l \in ScreenLine |-> IF l \in lines THEN Width ELSE @[l]]]

\* The row that is marked for line: shifted out of the word at the end of the
\* frame, which C leaves open; processors take the count modulo 32, or give 0.
RowMark(v, line) == IF line <= Last THEN {RowOf(line)} ELSE IF v.shift_wraps THEN {0} ELSE {}

\* Line l comes to mode stat, which is another, in an update up to line.
ModeChanges(v, l, line, stat) ==
  LET mark == RowMark(v, line) IN
  [v |-> [video_update_kimage_ptr([v EXCEPT !.line_stat[l] = stat], l, stat)
            EXCEPT !.full_refresh = @ \cup mark, !.buffer_changed = @ \cup mark],
   reparse |-> v.parsed[mode_ptr(stat)][l] # stat]

\* Line l gets the mode that was recorded for it.
NewStat(v, l, line) ==
  LET stat == video_all_stat_to_line_stat(l, v.new_stat[l])
      w == [v EXCEPT !.cur_all[l] = v.new_stat[l]]
  IN IF v.new_stat[l] = v.cur_all[l] \/ stat = v.line_stat[l] THEN [v |-> w, reparse |-> FALSE]
     ELSE ModeChanges(w, l, line, stat)

\* Lines of one row and mode are refreshed together, when the next one differs.
\* What n, this one, has found of a new mode goes with those before it, and is
\* forgotten.
Together(r, n, l) ==
  LET stat == n.v.line_stat[l]
      reparse == r.reparse \/ n.reparse
  IN IF r.num_lines = 0 \/ (stat = r.prev /\ l % RowLines # 0)
     THEN [v |-> n.v, num_lines |-> r.num_lines + 1, prev |-> stat, reparse |-> reparse]
     ELSE [v |-> video_refresh_lines(n.v, l - r.num_lines, r.num_lines, reparse),
           num_lines |-> 1, prev |-> stat, reparse |-> FALSE]

NextLine(r, l, line) == Together(r, NewStat(r.v, l, line), l)

\* The lines that wait for the next one are refreshed without it.
LastLines(r, end) ==
  IF r.num_lines = 0 THEN r.v
  ELSE video_refresh_lines(r.v, end - r.num_lines, r.num_lines, r.reparse)

\* In which of its lines a stretch of lines to copy has the same image as l.
Stretch(v, l, copied) ==
  {k \in copied : \A j \in Least(k, l)..(k + l - Least(k, l)) :
      j \in copied /\ v.line_kimage[j] = v.line_kimage[l]}

\* What was redrawn goes to the window, stretch by stretch, each in a rectangle.
video_push_kimages(v) ==
  LET full(l) == RowOf(l) \in v.full_refresh
      left(l) == IF full(l) THEN 0 ELSE v.left[l]
      right(l) == IF full(l) THEN Width ELSE v.right[l]
      copied == {l \in ScreenLine : RowOf(l) \in v.buffer_changed /\ left(l) <= right(l)}
      width(l) == IF v.line_kimage[l] = "super" THEN 1 ELSE 4
      inside(l, c) == \E i, j \in Stretch(v, l, copied) :
                         left(i) <= c * width(l) /\ (c + 1) * width(l) <= right(j)
  IN IF v.buffer_changed = {} THEN v ELSE
     [v EXCEPT !.window = [l \in ScreenLine |-> IF l \notin copied THEN @[l] ELSE
                 [c \in Super |-> IF inside(l, c) THEN v.image[v.line_kimage[l]][l][c] ELSE @[l][c]]],
               !.buffer_changed = {}, !.full_refresh = {}]

\* What the lines from one to another show if they are drawn now in the mode the
\* beam met on them (seen): kept beside the code's variables, for comparison.
Shown(v, first, last) ==
  LET stat(l) == video_all_stat_to_line_stat(l, v.seen[l]) IN
  [v EXCEPT !.shown = [l \in ScreenLine |-> IF l \notin first..last THEN @[l] ELSE
     [c \in Columns(stat(l)) |-> Picture(v, l, stat(l), c, stat(l).flash, v.palette)]]]

\* The lines on which the window is not what they showed.
Compared(v) ==
  [v EXCEPT !.wrong = {l \in ScreenLine : \E c \in DOMAIN v.shown[l] : v.window[l][c] # v.shown[l][c]}]

video_update_through_line(v, line) ==
  LET first == v.last_line
      end == Least(Last, line) + 1
      f[n \in 0..Last + 1] ==
        IF n = 0 THEN [v |-> video_update_all_stat_through_line(v, line), num_lines |-> 0,
                       prev |-> NoStat, reparse |-> FALSE]
        ELSE NextLine(f[n - 1], first + n - 1, line)
      drawn == Shown([LastLines(f[IF end > first THEN end - first ELSE 0], end)
                        EXCEPT !.last_line = end], first, end - 1)
  IN IF line < End THEN drawn ELSE Compared(video_push_kimages(drawn))

\* The next event after one for line, and what is done at the end of a frame.
NextEvent(v, line) ==
  LET new_line == line + v.line_ref_amt IN
  IF new_line <= Last THEN [v EXCEPT !.event = new_line]
  ELSE IF line >= End THEN [video_update_through_line(v, 0) EXCEPT !.event = 1]
  ELSE [v EXCEPT !.event = 0]

\* line_ref_amt is how many lines an event is for.
video_update_event_line(v, line) == NextEvent(video_update_through_line(v, line), line)

FullRefresh(v) ==
  LET rows == 0..ScreenRows - 1 IN
  IF v.needfullrefresh
  THEN [v EXCEPT !.full_refresh = rows, !.buffer_changed = rows, !.needfullrefresh = FALSE] ELSE v

Flashes(v) ==
  LET toggled == (v.cur_stat \ {"FLASH_STATE"}) \cup ({"FLASH_STATE"} \ v.cur_stat) IN
  IF v.flash_count + 1 < FlashPeriod THEN [v EXCEPT !.flash_count = @ + 1]
  ELSE change_display_mode([v EXCEPT !.flash_count = 0, !.cur_stat = toggled], 0)

FrameBegins(v) ==
  video_update_through_line([v EXCEPT !.stat_line = 0, !.new_stat[0] = v.cur_stat,
                                      !.seen[0] = v.cur_stat, !.last_line = 0], 0)

\* The 60 Hz update, at the end of a frame; skip_amt frames are passed over.
video_update(v) ==
  IF v.skip_count - 1 < 0
  THEN FrameBegins(Flashes([video_update_event_line(FullRefresh(v), End)
                              EXCEPT !.skip_count = v.skip_amt]))
  ELSE Flashes([FullRefresh(v) EXCEPT !.skip_count = @ - 1])

\* video_init, for a host that updates every line_ref_amt lines and skips frames.
video_init(line_ref_amt, skip_amt, shift_wraps) ==
  LET blank == [l \in ScreenLine |-> [c \in Super |-> Black]]
      no == [l \in ScreenLine |-> NoStat]
      v == [cur_stat |-> {"TEXT", "ANNUNC3", "TINT"}, stat_line |-> 0, last_line |-> 0,
            new_stat |-> [l \in ScreenLine |-> {}], cur_all |-> [l \in ScreenLine |-> {None}],
            line_stat |-> no, line_kimage |-> [l \in ScreenLine |-> "text0"],
            parsed |-> [a \in Image \cup {"border"} |-> no], image |-> [a \in Image |-> blank],
            left |-> [l \in ScreenLine |-> 0], right |-> [l \in ScreenLine |-> 0],
            buffer_changed |-> 0..ScreenRows - 1, full_refresh |-> 0..ScreenRows - 1,
            needfullrefresh |-> TRUE, changed |-> Where, memory |-> {},
            scan |-> [l \in ScreenLine |-> [palette |-> 0, mode640 |-> FALSE, fill |-> FALSE]],
            scan_save |-> [l \in ScreenLine |->
                             [palette |-> -1, mode640 |-> FALSE, fill |-> FALSE, cnt |-> 0]],
            palette |-> [p \in Palette |-> 0], palette_change_cnt |-> [p \in Palette |-> 0],
            saved_palette |-> [l \in ScreenLine |-> -1], colour |-> [p \in Palette |-> -1],
            flash_count |-> 0, skip_count |-> 0, event |-> 0,
            line_ref_amt |-> line_ref_amt, skip_amt |-> skip_amt, shift_wraps |-> shift_wraps,
            seen |-> [l \in ScreenLine |-> {"TEXT", "ANNUNC3", "TINT"}],
            window |-> blank, shown |-> [l \in ScreenLine |-> <<>>], wrong |-> {}, hasty |-> FALSE]
  IN video_update_through_line(change_display_mode(v, 0), End)

-----------------------------------------------------------------------------
(* What happens *)

\* The beam goes on to the next line, or into the blank, where it stays; an
\* event that is due redraws.
NextLineBegins ==
  /\ beam <= Last
  /\ beam' = beam + 1
  /\ LET v == IF beam = Last THEN video ELSE [video EXCEPT !.seen[beam + 1] = video.cur_stat]
     IN video' = IF video.event = beam + 1 THEN video_update_event_line(v, beam + 1) ELSE v

FrameEnds == beam = Last + 1 /\ beam' = 0 /\ video' = video_update(video)

\* When the code follows a change.  In the blank, of anything.  Before the first
\* line of a row, from text or lores to text or lores.  And on a host that
\* updates every line, before any line from hires to hires.  (hasty: the program
\* has made another; kept for ScreenIsCurrent, and not the code's.)
Blank == beam > Last
Rowwise(s) == s \cap {"HIRES", "SUPER_HIRES"} = {}
Linewise(s) == "HIRES" \in s /\ s \cap {"TEXT", "MIX_T_GR", "SUPER_HIRES"} = {}
InTime(s, t) ==
  \/ Blank
  \/ Rowwise(s) /\ Rowwise(t) /\ (beam + 1) % RowLines = 0
  \/ Linewise(s) /\ Linewise(t) /\ video.line_ref_amt = 1 /\ video.skip_amt < 0

\* Soft switches of moremem.c change g_cur_a2_stat to s, but for the flashing.
Switch(s) ==
  LET stat == s \cup (video.cur_stat \cap {"FLASH_STATE"}) IN
  /\ stat # video.cur_stat
  /\ video' = change_display_mode(
                 [video EXCEPT !.cur_stat = stat, !.hasty = ~InTime(video.cur_stat, stat)],
                 beam + 1)
  /\ UNCHANGED beam

\* The program changes a byte in a chunk of bank b.
WriteScreen(b, a) ==
  /\ video' = [video EXCEPT !.memory = (@ \ {<<b, a>>}) \cup ({<<b, a>>} \ @),
                            !.changed = @ \cup {a}]
  /\ UNCHANGED beam
WriteScan(l, scan) ==
  /\ scan # video.scan[l]
  /\ video' = [video EXCEPT !.scan[l] = scan, !.hasty = ~Blank]
  /\ UNCHANGED beam
WritePalette(p, n) ==
  /\ n # video.palette[p]
  /\ video' = [video EXCEPT !.palette[p] = n, !.changed = @ \cup {PaletteAt(p)},
                            !.hasty = ~Blank]
  /\ UNCHANGED beam

\* The host wants the whole window, as after another window was in front of it.
win_event_redraw == ~video.needfullrefresh /\ video' = [video EXCEPT !.needfullrefresh = TRUE]
                    /\ UNCHANGED beam

-----------------------------------------------------------------------------
(* As long as the program has made no hasty change, the window shows at the end
   of each frame, on every line, what that line's mode and memory gave when the
   beam was there, whatever it writes and whenever: marks that are taken away too
   early, a mode that passes for drawn, an edge that is forgotten or a row that is
   not copied leave something old on it.  A hasty change may: the style of text
   inside a row (each update draws its row to the end), between text and hires
   inside a screen, updates of eight lines (video.c:2838 and 2859), super hires
   with another mode on one screen (they share marks), or a palette in mid-frame
   (all lines share colours); of those nothing is said. *)
ScreenIsCurrent == video.wrong # {} => video.hasty
=============================================================================
