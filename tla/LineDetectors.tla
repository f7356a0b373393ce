---------------------------- MODULE LineDetectors ----------------------------
(***************************************************************************)
(* The detectors that read lines and clocks: tracebacks and stalls         *)
(* (src/autosentry/detectors).  A line is what the regular expressions     *)
(* take it for.  Of the languages of the traceback detector two have rules *)
(* of their own, python (a last line) and javascript (a header known by    *)
(* the line after it); the others have a header and frames like python.    *)
(* The loop that calls them has two phases, lines and a tick; the child    *)
(* may be started again in either, and the detectors hear of it at the top *)
(* of the next tick that finds it running (monitor.py, _tick).             *)
(***************************************************************************)
EXTENDS Integers, Sequences

CONSTANTS
  MaxHeard,       \* bound on lines
  MaxClock,       \* bound on the clock
  MaxTraceLines,  \* _MAX_TRACE_LINES
  Cooldown,       \* cooldown_seconds
  NoProgress,     \* no_progress_seconds
  MaxChildren     \* bound on starts of the child

ASSUME LineDetectorsAssumption ==
  /\ MaxHeard \in Nat /\ MaxClock \in Nat /\ MaxTraceLines \in Nat \ {0, 1}
  /\ Cooldown \in Nat /\ NoProgress \in Nat \ {0} /\ MaxChildren \in Nat \ {0}

\* An exception line of python is an error line of javascript.
TraceTexts == {"head", "frame", "exception", "nodeFrame", "other", "blank"}

\* A line with one of two values of the metric, or with none.
StepTexts == {"step1", "step2", "other"}

NoTrace == [lang |-> "none", lines |-> <<>>, quiet |-> 0]

VARIABLES
  detectorKind, \* traceback; progress (a stall with a metric), output (without)
  clock,
  observed,     \* lines: their text, and when
  prev,         \* _prev_line, by its number, 0 for None
  trace,        \* _state: language, lines by their number, quiet_lines
  firedAt,      \* _last_fired_at, -Cooldown for never
  value,        \* _last_progress_value
  progressAt, lineAt,  \* _last_progress_at, _last_line_at
  ticking,      \* a tick has begun, and it is not over for this detector
  up,           \* the child runs
  starts,       \* starts so far
  knownStart,   \* _detector_child_started_at: the start the detectors know of
  launchedAt,   \* when the last start was
  alarms        \* detections: when, after how many lines, the trace; when the child was
                \* started, and whether the detector began anew for it

lineVars  == <<observed, prev, trace>>
stallVars == <<value, progressAt, lineAt>>
childVars == <<up, starts, launchedAt>>
alarmVars == <<firedAt, alarms>>
detectorVars == <<detectorKind, clock, lineVars, alarmVars, stallVars, ticking, childVars,
                  knownStart>>

LineDetectorsInit ==
  /\ detectorKind \in {"traceback", "progress", "output"}
  /\ clock = 0 /\ observed = <<>> /\ prev = 0 /\ trace = NoTrace /\ firedAt = -Cooldown
  /\ value = "none" /\ progressAt = 0 /\ lineAt = 0 /\ alarms = <<>>
  /\ ticking = FALSE /\ up = FALSE /\ starts = 0 /\ knownStart = 0 /\ launchedAt = 0

Coming == Len(observed) + 1
Hear(t) == observed' = Append(observed, [text |-> t, at |-> clock])
OnCooldown == clock - firedAt < Cooldown

Raise(lines) ==
  /\ firedAt' = clock
  /\ alarms' = Append(alarms, [at |-> clock, upTo |-> Len(observed), lines |-> lines,
                               launched |-> launchedAt,
                               anew |-> starts > 1 /\ knownStart = starts])

ClockTicks ==
  /\ clock < MaxClock /\ clock' = clock + 1
  /\ UNCHANGED <<detectorKind, lineVars, alarmVars, stallVars, ticking, childVars, knownStart>>

-----------------------------------------------------------------------------
(* Tracebacks *)

IsFrame(lang, t) ==
  \/ lang = "python" /\ t \in {"frame", "exception"}
  \/ lang = "javascript" /\ t = "nodeFrame"

\* A trace that ends inside the cooldown is dropped.
CloseTrace(lines) ==
  /\ trace' = NoTrace
  /\ IF OnCooldown THEN UNCHANGED <<firedAt, alarms>> ELSE Raise(lines)

MaybeOpen(t) ==
  /\ UNCHANGED <<firedAt, alarms>> /\ prev' = Coming
  /\ trace' = CASE t = "head" -> [lang |-> "python", lines |-> <<Coming>>, quiet |-> 0]
                [] t = "nodeFrame" /\ prev # 0 /\ observed[prev].text = "exception" ->
                     [lang |-> "javascript", lines |-> <<prev, Coming>>, quiet |-> 0]
                [] OTHER -> NoTrace

\* Mutant: a frame does not end the quiet.
CollectQuietly(t) ==
  /\ UNCHANGED prev
  /\ IF Len(trace.lines) >= MaxTraceLines THEN CloseTrace(trace.lines)
     ELSE IF trace.lang = "python" /\ t = "exception" THEN CloseTrace(Append(trace.lines, Coming))
     ELSE IF ~IsFrame(trace.lang, t) /\ t = "blank" THEN CloseTrace(trace.lines)
     ELSE trace' = [trace EXCEPT !.lines = Append(@, Coming)] /\ UNCHANGED <<firedAt, alarms>>

\* The line that finds a trace full, a blank line and the second line in a row that
\* is no frame close it, and are read for nothing else.
Collect(t) ==
  /\ UNCHANGED prev
  /\ IF Len(trace.lines) >= MaxTraceLines THEN CloseTrace(trace.lines)
     ELSE IF IsFrame(trace.lang, t)
       THEN IF trace.lang = "python" /\ t = "exception"
              THEN CloseTrace(Append(trace.lines, Coming))
              ELSE /\ trace' = [trace EXCEPT !.lines = Append(@, Coming), !.quiet = 0]
                   /\ UNCHANGED <<firedAt, alarms>>
     ELSE IF trace.quiet + 1 >= 2 \/ t = "blank" THEN CloseTrace(trace.lines)
     ELSE /\ trace' = [trace EXCEPT !.lines = Append(@, Coming), !.quiet = @ + 1]
          /\ UNCHANGED <<firedAt, alarms>>

TracebackLine(t) ==
  /\ detectorKind = "traceback" /\ ~ticking /\ starts > 0 /\ Len(observed) < MaxHeard
  /\ Hear(t)
  /\ IF trace = NoTrace THEN MaybeOpen(t) ELSE Collect(t)
  /\ UNCHANGED <<detectorKind, clock, stallVars, ticking, childVars, knownStart>>

-----------------------------------------------------------------------------
(* Stalls *)

StallLine(t) ==
  /\ detectorKind # "traceback" /\ ~ticking /\ starts > 0 /\ Len(observed) < MaxHeard
  /\ Hear(t)
  /\ lineAt' = clock
  /\ IF detectorKind = "progress" /\ t # "other" /\ t # value
       THEN value' = t /\ progressAt' = clock
       ELSE UNCHANGED <<value, progressAt>>
  /\ UNCHANGED <<detectorKind, clock, prev, trace, alarmVars, ticking, childVars, knownStart>>

LastActivity == IF detectorKind = "progress" THEN progressAt ELSE lineAt

\* observe_tick, in its turn among the detectors: those before it in the tick may
\* have had the child restarted.  The traceback detector has none.
ObserveTick ==
  /\ ticking /\ ticking' = FALSE
  /\ IF detectorKind # "traceback" /\ ~OnCooldown /\ clock - LastActivity >= NoProgress
       THEN Raise(<<>>) ELSE UNCHANGED alarmVars
  /\ UNCHANGED <<detectorKind, clock, lineVars, stallVars, childVars, knownStart>>

-----------------------------------------------------------------------------
(* The child, and what the detectors are told of it *)

\* A start, the monitor's first or a restart out of the drain or the tick.  The first
\* one is noted; it resets nothing.
ChildLaunched ==
  /\ starts < MaxChildren /\ starts' = starts + 1
  /\ up' = TRUE /\ launchedAt' = clock
  /\ knownStart' = IF starts = 0 THEN 1 ELSE knownStart
  /\ UNCHANGED <<detectorKind, clock, lineVars, alarmVars, stallVars, ticking>>

ChildDies ==
  /\ up /\ up' = FALSE
  /\ UNCHANGED <<detectorKind, clock, lineVars, alarmVars, stallVars, ticking, starts, launchedAt,
                 knownStart>>

\* Mutant: what the dead child had reached is kept (issue #9).
TickForgetsNothing ==
  /\ ~ticking /\ starts > 0 /\ ticking' = TRUE
  /\ knownStart' = IF up THEN starts ELSE knownStart
  /\ UNCHANGED <<detectorKind, clock, lineVars, alarmVars, stallVars, childVars>>

\* The top of _tick, _reset_detectors_for_restart: a child that runs and is not known
\* makes the stall detector start anew, but for its cooldown; the traceback detector
\* has no on_child_restart.
TickBegins ==
  /\ ~ticking /\ starts > 0 /\ ticking' = TRUE
  /\ knownStart' = IF up THEN starts ELSE knownStart
  /\ IF up /\ knownStart # starts /\ detectorKind # "traceback"
       THEN value' = "none" /\ progressAt' = clock /\ lineAt' = clock
       ELSE UNCHANGED stallVars
  /\ UNCHANGED <<detectorKind, clock, lineVars, alarmVars, childVars>>

LineDetectorsNext ==
  \/ ClockTicks
  \/ \E t \in TraceTexts : TracebackLine(t)
  \/ \E t \in StepTexts : StallLine(t)
  \/ TickBegins \/ ObserveTick \/ ChildLaunched \/ ChildDies

-----------------------------------------------------------------------------
(* Properties *)

LineDetectorsTypeOK ==
  /\ detectorKind \in {"traceback", "progress", "output"} /\ clock \in 0 .. MaxClock
  /\ observed \in Seq([text : TraceTexts \cup StepTexts, at : 0 .. MaxClock])
  /\ prev \in 0 .. Len(observed) /\ trace.lines \in Seq(1 .. Len(observed)) /\ trace.quiet \in 0 .. 1
  /\ trace.lang \in {"none", "python", "javascript"} /\ firedAt \in -Cooldown .. MaxClock
  /\ value \in StepTexts \cup {"none"} /\ progressAt \in 0 .. clock /\ lineAt \in 0 .. clock
  /\ ticking \in BOOLEAN /\ up \in BOOLEAN /\ launchedAt \in 0 .. clock
  /\ starts \in 0 .. MaxChildren /\ knownStart \in 0 .. starts
  /\ \A i \in 1 .. Len(alarms) : alarms[i].at \in 0 .. clock /\ alarms[i].upTo \in 0 .. Len(observed)

\* A reported trace is a piece of the log: lines in a row behind a header, cut at the
\* exception, never two in a row that are no frames (traceback.py, observe_line).
IsTrace(lines) ==
  LET n == Len(lines)
      text(i) == observed[lines[i]].text
      quiet(i) == text(i) \in {"head", "nodeFrame", "other", "blank"} \* of python
  IN /\ n <= MaxTraceLines
     /\ \A i \in 1 .. n - 1 : lines[i + 1] = lines[i] + 1
     /\ \/ /\ text(1) = "head"
           /\ \A i \in 2 .. n - 1 : text(i) # "exception" /\ ~(quiet(i) /\ quiet(i + 1))
        \/ /\ text(1) = "exception" /\ n > 1 /\ text(2) = "nodeFrame"
           /\ \A i \in 2 .. n - 1 : text(i) = "nodeFrame" \/ text(i + 1) = "nodeFrame"
     /\ \A i \in 1 .. n : text(i) # "blank"

\* For the whole window before a stall no line, or no new value of the metric, was
\* read, of whatever child; and once the detector has begun anew for a restarted
\* child, that child has had the whole window since its start (stall.py, issue #9).
\* The second half is not so of the first child, whose detector is older than it is,
\* and until the restarted child has been found running at the top of a tick: in the
\* tick that restarted it, and for one that died at once, the clock is that of the
\* child before (monitor.py:372-392, 487-494).
IsStall(a) ==
  /\ a.anew => a.at - a.launched >= NoProgress
  /\ \A i \in 1 .. a.upTo :
       a.at - observed[i].at < NoProgress =>
         /\ detectorKind = "progress"
         /\ observed[i].text # "other" =>
              \E j \in 1 .. i - 1 : observed[j].text = observed[i].text
                /\ \A k \in j .. i : observed[k].text \in {"other", observed[i].text}

\* What the detectors report is there, once per cooldown: traces are pieces of the
\* log (which may begin in one child's lines and end in the next one's: base.py:49-52
\* asks for a clean slate, which this detector does not make), stalls had their window
\* without activity, whatever lines, deaths, restarts and other reports come between
\* (detectors/traceback.py, stall.py, base.py).
DetectorsSound ==
  /\ \A i \in 1 .. Len(alarms) :
       IF detectorKind = "traceback" THEN IsTrace(alarms[i].lines) ELSE IsStall(alarms[i])
  /\ \A i, j \in 1 .. Len(alarms) : i < j => alarms[j].at - alarms[i].at >= Cooldown
=============================================================================
