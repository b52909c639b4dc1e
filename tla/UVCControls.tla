----------------------------- MODULE UVCControls ------------------------------
(***************************************************************************)
(* The controls of a camera, as Java sets and reads them in percent of     *)
(* their range.  What a camera supports and the limits of each control are *)
(* cached twice: UVCCamera.cpp asks the camera for the minimum, the        *)
(* maximum and the default, each a request of its own that may fail, and   *)
(* JNI copies the result to fields of UVCCamera.java.  The methods of Java *)
(* are synchronized: a call is one step.                                   *)
(*                                                                         *)
(* Modelled are controls of the ten that Java scales: the tables below     *)
(* hold what sets one apart from the others.  The camera stays connected.  *)
(* A float product or quotient of Java is exact up to its truncation, as   *)
(* long as ranges and percentages fit the 24 bits of a float.              *)
(***************************************************************************)
EXTENDS Integers, FiniteSets

CONSTANTS
    Controls,       \* the controls modelled
    Limits,         \* Limits[c]: the camera's min, max and def of control c
    Percents,       \* the percentages asked for
    MaxCalls,       \* bound: calls
    MaxFails        \* bound: requests that fail

\* The type of the native setter's argument: int16_t or uint16_t, as that of
\* the limits.
Signed(c) == c \in {"focus", "hue"}
Words16(c) == IF Signed(c) THEN -32768..32767 ELSE 0..65535

Zero == [min |-> 0, max |-> 0, def |-> 0]

ASSUME ControlsAssumption ==
    /\ Controls \subseteq {"focus", "whiteBalance", "contrast", "saturation", "hue"}
    /\ "whiteBalance" \in Controls => "focus" \in Controls
    /\ "hue" \in Controls => "saturation" \in Controls
    /\ Limits \in [Controls -> [min : Int, max : Int, def : Int]]
    /\ \A c \in Controls :
          /\ Limits[c].min < Limits[c].max
          /\ Limits[c].def \in Limits[c].min..Limits[c].max
          /\ Limits[c].min..Limits[c].max \subseteq Words16(c)
    /\ Percents \subseteq Int /\ MaxCalls \in Nat /\ MaxFails \in Nat

Words == {"ctrl", "proc"}

\* The bit word of the camera that says whether control c is supported.
WordOf(c) == IF c = "focus" THEN "ctrl" ELSE "proc"

\* Mutant: another reset that is copied without change.
DefaultOfHue(c) == IF c \in {"hue", "contrast"} THEN "saturation" ELSE c

\* resetHue sends the default of the saturation.
DefaultOf(c) == IF c = "hue" THEN "saturation" ELSE c

\* getWhiteBalance scales the value with the limits of the focus.
ReadWith(c) == IF c = "whiteBalance" THEN "focus" ELSE c

VARIABLES
    supported,      \* the controls the camera has
    cur,            \* cur[c]: the camera's value of control c
    mSupports,      \* UVCCamera.cpp: mCtrlSupports and mPUSupports
    values,         \* UVCCamera.cpp: the cached limits of each control
    jSupports,      \* UVCCamera.java: mControlSupports and mProcSupports
    jLimits,        \* UVCCamera.java: mFocusMin, mFocusMax, mFocusDef, ...
    sent,           \* history: what the last call sent to the camera, ...
    read,           \* ... what it read (each a set of one element at most), ...
    asked,          \* ... and {p} if cur[c] was last set to p percent
    calls, fails

vars == <<supported, cur, mSupports, values, jSupports, jLimits, sent, read, asked,
          calls, fails>>

Init ==
    /\ supported \in SUBSET Controls
    /\ cur = [c \in Controls |-> Limits[c].def]
    /\ mSupports = [w \in Words |-> {}] /\ jSupports = [w \in Words |-> {}]
    /\ values = [c \in Controls |-> Zero] /\ jLimits = [c \in Controls |-> Zero]
    /\ sent = {} /\ read = {} /\ asked = [c \in Controls |-> {}]
    /\ calls = 0 /\ fails = 0

-----------------------------------------------------------------------------
(* UVCCamera.cpp.                                                          *)

\* Which of the three requests for the limits of a control fails.
Failures == {"none", "min", "max", "def"}

\* Mutant: limits known are asked for again, a failure notwithstanding.
UpdateAlways(v, c, f) ==
    [ok |-> f = "none",
     values |-> [min |-> Limits[c].min, max |-> IF f = "max" THEN 0 ELSE Limits[c].max,
                 def |-> IF f = "none" THEN Limits[c].def ELSE v.def]]

\* update_ctrl_values: the limits are asked for, one after the other, only
\* while both are 0.
UpdateValues(v, c, f) ==
    IF v.min # 0 \/ v.max # 0 THEN [ok |-> TRUE, values |-> v] ELSE
    [ok |-> f = "none",
     values |-> [min |-> IF f = "min" THEN v.min ELSE Limits[c].min,
                 max |-> IF f \in {"min", "max"} THEN v.max ELSE Limits[c].max,
                 def |-> IF f # "none" THEN v.def ELSE Limits[c].def]]

\* Mutant: values above the maximum pass.
ClampBelow(v, x) == IF x < v.min THEN v.min ELSE x

Clamp(v, x) == IF x < v.min THEN v.min ELSE IF x > v.max THEN v.max ELSE x

\* Conversion of an int to the setter's parameter, int16_t or uint16_t: what
\* does not fit wraps.
Narrow(c, x) ==
    IF x \in Words16(c) THEN x
    ELSE IF Signed(c) THEN ((x + 32768) % 65536) - 32768 ELSE x % 65536

Supports(c) == c \in mSupports[WordOf(c)]

\* An update of the limits of a control that is not supported.
Update(v, c, f) == IF Supports(c) THEN UpdateValues(v, c, f) ELSE [ok |-> FALSE, values |-> v]

-----------------------------------------------------------------------------
(* UVCCamera.java and the JNI functions.                                   *)

Call == calls < MaxCalls /\ calls' = calls + 1 /\ UNCHANGED supported

\* n requests fail in this call.
Failing(n) == fails + n <= MaxFails /\ fails' = fails + n
Bit(failed) == IF failed THEN 1 ELSE 0

Range(l) == IF l.max >= l.min THEN l.max - l.min ELSE l.min - l.max

\* A quotient truncated to an integer.
Trunc(n, d) == IF n >= 0 THEN n \div d ELSE -((-n) \div d)

\* (int) (p / 100.f * range): a product that is an integer may come out just
\* below it (towards 0), unless p / 100.f is exact.
Scale(p, range) ==
    LET v == Trunc(p * range, 100)
    IN {v} \cup IF (p * range) % 100 # 0 \/ p % 25 = 0 THEN {} ELSE
              IF v > 0 THEN {v - 1} ELSE {v + 1}

\* Mutant: the minimum is not subtracted.
PercentOfMax(x, l) == IF Range(l) = 0 THEN 0 ELSE Trunc(x * 100, Range(l))

\* (int) ((x - min) * 100.f / range)
Percent(x, l) == IF Range(l) = 0 THEN 0 ELSE Trunc((x - l.min) * 100, Range(l))

\* What the camera supports.
Fetched == [w \in Words |-> {c \in supported : WordOf(c) = w}]

\* updateCameraParams fetches the words that are 0 and, if none is 0 then, the
\* limits of every control.
UpdateCameraParams ==
    /\ Call /\ \E w \in Words : jSupports[w] = {}
    /\ mSupports' = Fetched /\ jSupports' = Fetched
    /\ IF \A w \in Words : Fetched[w] # {}
       THEN \E f \in [Controls -> Failures] :
              LET new == [c \in Controls |-> IF c \in supported
                            THEN UpdateValues(values[c], c, f[c])
                            ELSE [ok |-> FALSE, values |-> values[c]]]
              IN /\ Failing(Cardinality({c \in Controls : f[c] # "none"}))
                 /\ values' = [c \in Controls |-> new[c].values]
                 /\ jLimits' = [c \in Controls |-> IF new[c].ok THEN new[c].values ELSE jLimits[c]]
       ELSE UNCHANGED <<values, jLimits, fails>>
    /\ sent' = {} /\ read' = {} /\ UNCHANGED <<cur, asked>>

\* internalSetCtrlValue with limits v: x is sent unless they cannot be
\* had.  Whether the camera takes it is not looked at.
Send(c, v, x, f, taken, percent) ==
    LET u == Update(v, c, f)
        y == Clamp(u.values, Narrow(c, x))
    IN /\ values' = [values EXCEPT ![c] = u.values]
       /\ sent' = IF u.ok THEN {[control |-> c, value |-> y, reset |-> percent = {}]} ELSE {}
       /\ cur' = IF u.ok /\ taken THEN [cur EXCEPT ![c] = y] ELSE cur
       /\ asked' = IF u.ok /\ taken THEN [asked EXCEPT ![c] = percent] ELSE asked

\* setFocus(p) and the like; setContrast first updates the limits.  Without a
\* range nothing is sent.
Set(c, p) ==
    /\ Call
    /\ \E f \in Failures, taken \in BOOLEAN :
         LET u == IF c = "contrast" THEN Update(values[c], c, f)
                  ELSE [ok |-> FALSE, values |-> values[c]]
             l == IF u.ok THEN u.values ELSE jLimits[c]
         IN /\ Failing(Bit(f # "none") + Bit(~taken))
            /\ jLimits' = [jLimits EXCEPT ![c] = l]
            /\ \/ /\ Range(l) = 0 /\ values' = [values EXCEPT ![c] = u.values]
                  /\ sent' = {} /\ UNCHANGED <<cur, asked>>
               \/ /\ Range(l) > 0
                  /\ \E s \in Scale(p, Range(l)) : Send(c, u.values, s + l.min, f, taken, {p})
    /\ read' = {} /\ UNCHANGED <<mSupports, jSupports>>

\* resetFocus() and the like.
Reset(c) ==
    /\ Call
    /\ \E f \in Failures, taken \in BOOLEAN :
         /\ Failing(Bit(f # "none") + Bit(~taken))
         /\ Send(c, values[c], jLimits[DefaultOf(c)].def, f, taken, {})
    /\ read' = {} /\ UNCHANGED <<mSupports, jSupports, jLimits>>

\* getFocus() and the like: the native getter updates the limits and asks for
\* the value, which is 0 if either fails; getFocus(value) updates the limits
\* again, getContrast(value) does not.
Get(c) ==
    /\ Call
    /\ \E f, g \in Failures, answered \in BOOLEAN :
         LET u == Update(values[c], c, f)
             x == IF u.ok /\ answered THEN cur[c] ELSE 0
             d == ReadWith(c)
             w == IF d = "contrast" THEN [ok |-> FALSE, values |-> u.values]
                  ELSE Update(IF d = c THEN u.values ELSE values[d], d, g)
             l == IF w.ok THEN w.values ELSE jLimits[d]
         IN /\ Failing(Bit(f # "none") + Bit(g # "none") + Bit(~answered))
            /\ values' = [values EXCEPT ![c] = u.values, ![d] = w.values]
            /\ jLimits' = [jLimits EXCEPT ![d] = l]
            /\ read' = IF u.ok /\ answered
                       THEN {[control |-> c, percent |-> Percent(x, l)]} ELSE {}
    /\ sent' = {} /\ UNCHANGED <<cur, mSupports, jSupports, asked>>

Next ==
    \/ UpdateCameraParams
    \/ \E c \in Controls : Reset(c) \/ Get(c) \/ \E p \in Percents : Set(c, p)

Spec == Init /\ [][Next]_vars

-----------------------------------------------------------------------------
(* What the controls promise.                                              *)

\* Java knows no limits of a control, or those that UVCCamera.cpp works with.
CachesAgree == \A c \in Controls : jLimits[c] \in {Zero, values[c]}

\* "When minimum and maximum could be obtained", a value is sent that lies
\* between them, whatever was asked for; it can lie outside only if the
\* request for the maximum failed after that for the minimum: the minimum
\* alone is then taken for known limits.
SentInRange ==
    \A s \in sent :
        \/ s.value \in Limits[s.control].min..Limits[s.control].max
        \/ values[s.control].max # Limits[s.control].max

\* Once Java knows a control's default, a reset sends it (but see DefaultOf).
ResetsToDefault ==
    \A s \in sent :
        s.reset /\ s.control # "hue" /\ jLimits[s.control] = Limits[s.control] =>
            s.value = Limits[s.control].def

\* A percentage set is read back: never as a larger one, and at most one
\* smaller where the range has 100 steps (but see ReadWith).
ReadsBack ==
    \A r \in read : \A p \in asked[r.control] \cap 0..100 :
        r.control # "whiteBalance" /\ jLimits[r.control] = Limits[r.control] =>
            /\ r.percent <= p
            /\ Range(Limits[r.control]) >= 100 => r.percent >= p - 1
=============================================================================
