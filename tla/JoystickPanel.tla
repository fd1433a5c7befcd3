---------------------------- MODULE JoystickPanel ----------------------------
(***************************************************************************)
(* The control panel with what it makes of the joysticks: every valid line *)
(* goes through a JoystickAxisProcessor per joystick, which calibrates     *)
(* itself on the first lines of a session, averages the axes over the last *)
(* lines and debounces the button.                                         *)
(*                                                                         *)
(* The processors are independent of each other, and y is treated like x:  *)
(* of the first joystick we follow x and the button.  A published axis is  *)
(* a fraction, as the code computes it but for the rounding of doubles.    *)
(***************************************************************************)
EXTENDS ControlPanel, Integers

CONSTANTS
    MovingAverageDepth,
    BaselineSamples,
    ButtonDebounceSamples,
    Readings,       \* what an axis may read
    Half,           \* half the range of an axis, 512 in the code
    InvertX

ASSUME JoystickAssumption ==
    /\ MovingAverageDepth \in Nat \ {0}
    /\ BaselineSamples \in Nat \ {0}
    /\ ButtonDebounceSamples \in Nat \ {0}
    /\ Half \in Nat \ {0}
    /\ Readings \subseteq 0..(2 * Half - 1)
    /\ InvertX \in BOOLEAN

VARIABLES
    samples,        \* history: the valid lines of this session, first joystick
    processor,      \* its JoystickAxisProcessor
    output,         \* what it has made of the last line
    signals         \* _x[0] and _b[0]

joystick == <<samples, processor, output, signals>>
allVars == <<vars, joystick>>

Samples == [x : Readings, button : BOOLEAN]
Signals == [x : [num : Int, den : Nat \ {0}], button : BOOLEAN]
Silence == [x |-> [num |-> 0, den |-> 1], button |-> FALSE]

FreshProcessor ==
    [window |-> <<>>, sum |-> 0,
     baselineAcc |-> 0, baselineCount |-> 0, baselineReady |-> FALSE,
     stable |-> FALSE, pending |-> FALSE, pendingCount |-> 0]

JoystickInit ==
    /\ Init
    /\ samples = <<>> /\ processor = FreshProcessor
    /\ output = Silence /\ signals = Silence

-----------------------------------------------------------------------------
(* JoystickAxisProcessor::process.                                         *)

Calibrate(p, x) ==
    IF p.baselineReady THEN p
    ELSE [p EXCEPT !.baselineAcc = @ + x, !.baselineCount = @ + 1,
                   !.baselineReady = p.baselineCount + 1 >= BaselineSamples]

Average(p, x) ==
    IF Len(p.window) < MovingAverageDepth
    THEN [p EXCEPT !.window = Append(@, x), !.sum = @ + x]
    ELSE [p EXCEPT !.window = Append(Tail(@), x), !.sum = @ + x - Head(p.window)]

\* Mutant of DebounceButton: a bounce back does not begin the count again.
DebounceButtonKeepsCount(p, b) ==
    LET count == IF b = p.stable THEN p.pendingCount ELSE p.pendingCount + 1
        taken == b # p.stable /\ count >= ButtonDebounceSamples
    IN [p EXCEPT !.stable = IF taken THEN b ELSE @, !.pending = b,
                 !.pendingCount = IF taken THEN 0 ELSE count]

DebounceButton(p, b) ==
    LET count == IF b = p.stable THEN 0
                 ELSE IF b = p.pending THEN p.pendingCount + 1 ELSE 1
        taken == b # p.stable /\ count >= ButtonDebounceSamples
    IN [p EXCEPT !.stable = IF taken THEN b ELSE @, !.pending = b,
                 !.pendingCount = IF taken THEN 0 ELSE count]

Process(p, s) == DebounceButton(Average(Calibrate(p, s.x), s.x), s.button)

\* clipToUnitRange
Clipped(num, den) ==
    [num |-> IF num > den THEN den ELSE IF num < -den THEN -den ELSE num,
     den |-> den]

\* The mean of the window less the baseline, in units of half the range; the
\* sign is turned for an inverted axis when it is stored.
Axis(p) ==
    IF ~p.baselineReady THEN Silence.x
    ELSE LET v == Clipped(p.sum * p.baselineCount - p.baselineAcc * Len(p.window),
                          Len(p.window) * p.baselineCount * Half)
         IN [v EXCEPT !.num = IF InvertX THEN -@ ELSE @]

-----------------------------------------------------------------------------
(* What the steps of ControlPanel do to the first joystick.                *)

\* resetSignalProcessingState
OwnerSignals ==
    IF ownerPc = "resetSignals"
    THEN /\ samples' = <<>> /\ processor' = FreshProcessor
         /\ output' = Silence /\ signals' = Silence
    ELSE UNCHANGED joystick

\* processLine: a line is processed once it is accepted as a whole ...
AcceptSample ==
    /\ readerPc = "check" /\ readerPc' = "publish"
    /\ \E s \in Samples :
         /\ samples' = Append(samples, s)
         /\ processor' = Process(processor, s)
         /\ output' = [x |-> Axis(processor'), button |-> processor'.stable]
    /\ UNCHANGED signals

\* ... and what comes out is stored field by field.
StoreSignal ==
    /\ readerPc = "publish"
    /\ signals' = CASE field = 1 -> [signals EXCEPT !.x = output.x]
                    [] field = 3 -> [signals EXCEPT !.button = output.button]
                    [] OTHER -> signals
    /\ UNCHANGED <<samples, processor, output>>

ReaderSignals ==
    \/ AcceptSample
    \/ StoreSignal
    \/ /\ readerPc # "publish" /\ readerPc' # "publish"
       /\ UNCHANGED joystick

Owner == OwnerStep /\ OwnerSignals
Reader == ReaderStep /\ ReaderSignals

JoystickNext ==
    \/ BeginInitialize /\ UNCHANGED joystick
    \/ BeginReset /\ UNCHANGED joystick
    \/ BeginSnapshot /\ UNCHANGED joystick
    \/ Owner
    \/ Reader

JoystickSpec == JoystickInit /\ [][JoystickNext]_allVars

\* As in FairSpec of ControlPanel.
FairJoystickSpec == JoystickSpec /\ WF_allVars(Owner) /\ WF_allVars(Reader)

-----------------------------------------------------------------------------
(* Properties.                                                             *)

JoystickTypeOK ==
    /\ TypeOK
    /\ samples \in Seq(Samples)
    /\ processor.window \in Seq(Readings)
    /\ processor.stable \in BOOLEAN /\ processor.pending \in BOOLEAN
    /\ output \in Signals /\ signals \in Signals

\* What the lines ss amount to, without a processor: the axis is the mean of the
\* last lines less that of the first ones, the button what the last
\* ButtonDebounceSamples equal lines in a row say.
Total(ss) ==
    LET sumOf[n \in 0..Len(ss)] == IF n = 0 THEN 0 ELSE sumOf[n - 1] + ss[n].x
    IN sumOf

MeanOf(ss, from, to) == [num |-> Total(ss)[to] - Total(ss)[from - 1], den |-> to - from + 1]

AxisAfter(ss, n) ==
    LET past == MeanOf(ss, IF n <= MovingAverageDepth THEN 1 ELSE n - MovingAverageDepth + 1, n)
        rest == MeanOf(ss, 1, BaselineSamples)
    IN Clipped((past.num * rest.den - rest.num * past.den) * (IF InvertX THEN -1 ELSE 1),
               past.den * rest.den * Half)

Steady(ss, n) == \A i, j \in (n - ButtonDebounceSamples + 1)..n : ss[i].button = ss[j].button

ButtonAfter(ss, n) ==
    \E k \in ButtonDebounceSamples..n :
        /\ Steady(ss, k) /\ ss[k].button
        /\ \A m \in (k + 1)..n : ~Steady(ss, m)

\* An axis shows 0 until the session is calibrated, and then, like the button,
\* what the lines of this session up to the last one stored amount to: nothing
\* of an earlier session or of a rejected line, no drift of the running sum and
\* no button that bounces.
SignalsFollowLines ==
    /\ LET n == published[1].line
       IN IF n < BaselineSamples THEN signals.x.num = 0
          ELSE LET axis == AxisAfter(samples, n)
               IN signals.x.num * axis.den = axis.num * signals.x.den
    /\ signals.button = ButtonAfter(samples, published[3].line)
=============================================================================
