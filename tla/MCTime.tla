------------------------------- MODULE MCTime -------------------------------
(***************************************************************************)
(* Time in the emulator, for TLC: the event list under devices that use it *)
(* in every way (a 60 Hz event, one of a sound oscillator that may be      *)
(* removed, a scan line event that may be late); or the video and timer    *)
(* interrupts on a screen of a few lines; or what the beam shows on it.    *)
(* A behaviour is about one of them.                                       *)
(***************************************************************************)
EXTENDS Vgc, EventList, Video

CONSTANTS hz60, doc, scan, MaxSwitches, MaxPages
VARIABLES
  focus,   \* what the behaviour is about
  budget   \* how much the program may still do to the screen

all == <<vgc, listVars, video, beam, focus, budget>>
screen == <<video, beam, budget>>

\* Whose modes and memory the program uses: text and lores, hires, all kinds, or
\* the colours of super hires.  When it uses them is left to it.
Shows == {"text", "hires", "kinds", "colours"}

\* The host: how many lines an update is for, frames it skips, and what a
\* shift by 32 gives.  (Kinds and colours pass on all four; two keep the run short.)
Hosts == {<<1, -1, FALSE>>, <<RowLines, -1, TRUE>>}
         \cup IF focus \in {"kinds", "colours"} THEN {} ELSE {<<RowLines, -1, FALSE>>, <<1, 1, FALSE>>}

Modes == CASE focus = "text" -> {{"TEXT", "PAGE2", "ALTCHARSET"}, {"MIX_T_GR"},
                                 {"VID80", "ST80", "PAGE2", "MIX_T_GR", "ALTCHARSET"}}
           [] focus = "hires" -> {{"HIRES"}, {"HIRES", "PAGE2", "VID80"}}
           [] focus = "kinds" -> {{"HIRES", "VID80", "DIS_COLOR_DHIRES"},
                                  {"HIRES", "MIX_T_GR"}, {"SUPER_HIRES"}}
           [] OTHER -> {{"SUPER_HIRES"}}

Places == CASE focus = "text" -> {<<0, TextAt(0, 0, 0)>>, <<0, TextAt(0, 0, Chunks - 1)>>,
                                  <<1, TextAt(0, 1, 0)>>}
            [] focus = "hires" -> {<<0, HiresAt(0, 1, 0)>>, <<1, HiresAt(1, 1, 1)>>}
            [] focus = "kinds" -> {<<0, HiresAt(0, 1, 0)>>, <<1, HiresAt(0, 1, 1)>>}
            [] OTHER -> {<<1, SuperAt(1, 0)>>}

Scans == {<<0, [palette |-> 1, mode640 |-> FALSE, fill |-> FALSE]>>,
          <<1, [palette |-> 0, mode640 |-> FALSE, fill |-> TRUE]>>}

ProgramActs ==
  /\ budget > 0 /\ budget' = budget - 1
  /\ \/ \E s \in Modes : Switch(s)
     \/ \E a \in Places : WriteScreen(a[1], a[2])
     \/ focus = "colours" /\ \E p \in Palette, n \in {0, 1} : WritePalette(p, n)
     \/ focus = "colours" /\ \E s \in Scans : WriteScan(s[1], s[2])
     \/ focus = "text" /\ win_event_redraw

\* A behaviour that is not about the screen has none.
NoScreen == [wrong |-> {}, hasty |-> FALSE]

\* A program that has made a hasty change is not followed further.
VideoNext ==
  \/ ~video.hasty /\ ProgramActs
  \/ ~video.hasty /\ (NextLineBegins \/ FrameEnds) /\ UNCHANGED budget
  \/ video.hasty /\ UNCHANGED screen

TimeInit ==
  /\ Init /\ ListInit /\ beam = Last + 1 /\ focus \in {"list", "vgc"} \cup Shows
  /\ budget = IF focus = "text" THEN MaxSwitches ELSE MaxPages
  /\ IF focus \in Shows THEN \E h \in Hosts : video = video_init(h[1], h[2], h[3])
                         ELSE video = NoScreen

AtList(A) == focus = "list" /\ A /\ UNCHANGED <<vgc, screen, focus>>
AtVgc(A) == focus = "vgc" /\ A /\ UNCHANGED <<listVars, screen, focus>>
AtScreen(A) == focus \in Shows /\ A /\ UNCHANGED <<vgc, listVars, focus>>
TimeNext == AtList(ListNext) \/ AtVgc(Next) \/ AtScreen(VideoNext)

\* The loop of run_prog goes on; it takes the events that are due, and every
\* instruction takes time, however often the program makes an event due.
TimeSpec ==
  /\ TimeInit /\ [][TimeNext]_all
  /\ WF_all(AtList(ListNext))
  /\ WF_all(AtVgc(ScanEvent)) /\ WF_all(AtVgc(VblEvent)) /\ WF_all(AtVgc(Event60Hz))
  /\ SF_all(AtVgc(Tick))

\* While the behaviour is about interrupts the list stays as it is at first.
Promise == INSTANCE Timers WITH
  Clock <- EV_60HZ, due <- IF focus = "list" THEN DueOf(Now) ELSE [t \in {EV_60HZ} |-> Period]

(* The list and the loop implement Timers: events go off in the order of their
   times, none is lost, none is still waiting when an instruction starts after
   its time, and the 60 Hz clock does not drift. *)
TimersInOrder == Promise!Spec

\* However the devices use the list, the 60 Hz update comes round again; and
\* interrupts that stay enabled keep coming: of a line that asks for one for
\* good, or of another line, in spite of what the program does to the others;
\* and of the vertical blank and the quarter second.
TicksComeAgain == (focus = "list" => TicksAgain) /\ (focus = "vgc" => ScanServed /\ C041Served)
=============================================================================
