-------------------------- MODULE UVCControlsProofs ---------------------------
(***************************************************************************)
(* Proofs about the controls of a camera, for any limits of 16 bits, any   *)
(* percentages and any number of calls and of requests that fail: the two  *)
(* caches of the limits agree, what is sent is in range, a percentage set  *)
(* is read back, and a reset sends the default.                            *)
(***************************************************************************)
EXTENDS UVCControls, TLAPS

\* What UVCCamera.cpp can know of the limits of a control: nothing, or what
\* the requests before the one that failed have answered.
Known(c) ==
    {Zero, [min |-> Limits[c].min, max |-> 0, def |-> 0],
     [min |-> Limits[c].min, max |-> Limits[c].max, def |-> 0], Limits[c]}

\* The inductive invariant: the native cache knows what it can know, and Java
\* the same or nothing.
ControlsInv ==
    /\ values \in [Controls -> [min : Int, max : Int, def : Int]]
    /\ jLimits \in [Controls -> [min : Int, max : Int, def : Int]]
    /\ \A c \in Controls : values[c] \in Known(c) /\ jLimits[c] \in {Zero, values[c]}

\* Limits are asked for only while nothing is known of them, and then known
\* further; a success leaves a range.
LEMMA UpdateKnows ==
    ASSUME NEW c \in Controls, NEW v \in Known(c), NEW f \in Failures
    PROVE  /\ UpdateValues(v, c, f).values \in Known(c)
           /\ v # Zero => UpdateValues(v, c, f) = [ok |-> TRUE, values |-> v]
           /\ UpdateValues(v, c, f).ok => UpdateValues(v, c, f).values # Zero
<1>1. /\ Limits[c] \in [min : Int, max : Int, def : Int]
      /\ Limits[c].min < Limits[c].max
  BY ControlsAssumption DEF ControlsAssumption
<1>2. v # Zero => v.min # 0 \/ v.max # 0
  BY <1>1 DEF Known, Zero
<1>3. CASE v.min # 0 \/ v.max # 0
  <2>1. v # Zero BY <1>3 DEF Zero
  <2>2. UpdateValues(v, c, f) = [ok |-> TRUE, values |-> v]
    BY <1>3 DEF UpdateValues
  <2> QED BY <2>1, <2>2
<1>4. CASE ~(v.min # 0 \/ v.max # 0)
  <2>1. v = Zero BY <1>2, <1>4
  <2>2. UpdateValues(v, c, f) =
          [ok |-> f = "none",
           values |-> [min |-> IF f = "min" THEN 0 ELSE Limits[c].min,
                       max |-> IF f \in {"min", "max"} THEN 0 ELSE Limits[c].max,
                       def |-> IF f # "none" THEN 0 ELSE Limits[c].def]]
    BY <1>4, <2>1 DEF UpdateValues, Zero
  <2>3. CASE f = "none"
    <3>1. UpdateValues(v, c, f) = [ok |-> TRUE, values |-> Limits[c]]
      BY <1>1, <2>2, <2>3
    <3>2. Limits[c] # Zero BY <1>1 DEF Zero
    <3> QED BY <2>1, <3>1, <3>2 DEF Known
  <2>4. CASE f = "min"
    <3>1. UpdateValues(v, c, f) = [ok |-> FALSE, values |-> Zero]
      BY <2>2, <2>4 DEF Zero
    <3> QED BY <2>1, <3>1 DEF Known
  <2>5. CASE f = "max"
    <3>1. UpdateValues(v, c, f) =
            [ok |-> FALSE, values |-> [min |-> Limits[c].min, max |-> 0, def |-> 0]]
      BY <2>2, <2>5 DEF Zero
    <3> QED BY <2>1, <3>1 DEF Known
  <2>6. CASE f = "def"
    <3>1. UpdateValues(v, c, f) =
            [ok |-> FALSE, values |-> [min |-> Limits[c].min, max |-> Limits[c].max, def |-> 0]]
      BY <2>2, <2>6 DEF Zero
    <3> QED BY <2>1, <3>1 DEF Known
  <2> QED BY <2>3, <2>4, <2>5, <2>6 DEF Failures
<1> QED BY <1>3, <1>4

\* The same of a control that may not be supported.
LEMMA UpdateOfKnows ==
    ASSUME NEW c \in Controls, NEW v \in Known(c), NEW f \in Failures
    PROVE  /\ Update(v, c, f).values \in Known(c)
           /\ v # Zero => Update(v, c, f).values = v
           /\ Update(v, c, f).ok => Update(v, c, f).values # Zero
  BY UpdateKnows DEF Update

-----------------------------------------------------------------------------
(* The arithmetic of a setter.                                             *)

\* A narrowed value is a number, and one that fits is kept.
LEMMA NarrowExact ==
    ASSUME NEW c \in Controls, NEW x \in Int
    PROVE  /\ Narrow(c, x) \in Int
           /\ x \in Words16(c) => Narrow(c, x) = x
<1>1. CASE x \in Words16(c) BY <1>1 DEF Narrow
<1>2. CASE x \notin Words16(c) BY <1>2 DEF Narrow
<1> QED BY <1>1, <1>2

\* A scaled percentage is a number.
LEMMA ScaleInt ==
    ASSUME NEW p \in Int, NEW r \in Int
    PROVE  Scale(p, r) \subseteq Int
<1>1. Trunc(p * r, 100) \in Int
  <2>1. p * r \in Int /\ 100 \in Int OBVIOUS
  <2>2. \A n \in Int : Trunc(n, 100) \in Int BY DEF Trunc
  <2> QED BY <2>1, <2>2
<1> QED BY <1>1 DEF Scale

\* A value is clamped to limits that are in order, and one within them kept.
LEMMA ClampBetween ==
    ASSUME NEW v \in [min : Int, max : Int, def : Int], v.min <= v.max, NEW x \in Int
    PROVE  /\ Clamp(v, x) \in v.min..v.max
           /\ x \in v.min..v.max => Clamp(v, x) = x
  BY DEF Clamp

\* What can be known of limits are numbers, and the minimum is known first.
LEMMA KnownLimits ==
    ASSUME NEW c \in Controls, NEW v \in Known(c)
    PROVE  /\ v \in [min : Int, max : Int, def : Int]
           /\ v # Zero => v.min = Limits[c].min
<1>1. Limits[c] \in [min : Int, max : Int, def : Int]
  BY ControlsAssumption DEF ControlsAssumption
<1> QED BY <1>1 DEF Known, Zero

\* What Java has of the limits are numbers.
LEMMA JavaLimits ==
    ASSUME ControlsInv, NEW c \in Controls
    PROVE  /\ values[c] \in Known(c) /\ jLimits[c] \in Known(c)
           /\ jLimits[c].min \in Int /\ jLimits[c].def \in Int /\ Range(jLimits[c]) \in Int
<1>1. values[c] \in Known(c) /\ jLimits[c] \in Known(c) BY DEF ControlsInv, Known
<1>2. jLimits[c] \in [min : Int, max : Int, def : Int] BY DEF ControlsInv
<1> QED BY <1>1, <1>2 DEF Range

-----------------------------------------------------------------------------
(* What a step does to the caches and to the camera.                       *)

\* The caches agree after a step that forgets nothing the native one knew, and
\* leaves Java what it had, nothing, or the same.
LEMMA Grows ==
    ASSUME ControlsInv,
           values' = [c \in Controls |-> values'[c]],
           jLimits' = [c \in Controls |-> jLimits'[c]],
           \A c \in Controls :
               /\ values'[c] \in Known(c)
               /\ values[c] # Zero => values'[c] = values[c]
               /\ jLimits'[c] = jLimits[c] \/ jLimits'[c] = values'[c]
    PROVE  ControlsInv'
<1>1. \A c \in Controls : jLimits'[c] \in {Zero, values'[c]}
  BY DEF ControlsInv
<1>2. \A c \in Controls : values'[c] \in [min : Int, max : Int, def : Int]
  BY KnownLimits
<1>3. Zero \in [min : Int, max : Int, def : Int] BY DEF Zero
<1>4. \A c \in Controls : jLimits'[c] \in [min : Int, max : Int, def : Int]
  BY <1>1, <1>2, <1>3
<1>5. values' \in [Controls -> [min : Int, max : Int, def : Int]] BY <1>2
<1>6. jLimits' \in [Controls -> [min : Int, max : Int, def : Int]] BY <1>4
<1>7. \A c \in Controls : Known(c)' = Known(c) BY DEF Known, Zero
<1>8. Zero' = Zero BY DEF Zero
<1> QED BY <1>1, <1>5, <1>6, <1>7, <1>8 DEF ControlsInv

\* What a setter with limits v sends: a value in range, if the maximum is
\* known, and x itself if it is a value in range.
LEMMA SendSafe ==
    ASSUME NEW c \in Controls, NEW v \in Known(c), NEW x \in Int,
           NEW f \in Failures, NEW taken, NEW percent,
           values \in [Controls -> [min : Int, max : Int, def : Int]],
           Send(c, v, x, f, taken, percent)
    PROVE  /\ values' = [values EXCEPT ![c] = Update(v, c, f).values]
           /\ \A s \in sent' :
                 /\ s.control = c /\ (s.reset => percent = {})
                 /\ \/ s.value \in Limits[c].min..Limits[c].max
                    \/ values'[c].max # Limits[c].max
                 /\ v = Limits[c] /\ x \in Limits[c].min..Limits[c].max => s.value = x
<1> DEFINE u == Update(v, c, f)
           y == Clamp(u.values, Narrow(c, x))
<1>1. values' = [values EXCEPT ![c] = u.values]
  BY DEF Send
<1>2. values'[c] = u.values BY <1>1
<1>3. u.values \in Known(c) /\ (u.ok => u.values # Zero) /\ (v # Zero => u.values = v)
  BY UpdateOfKnows
<1>4. ASSUME NEW s \in sent'
      PROVE  /\ s.control = c /\ (s.reset => percent = {})
             /\ \/ s.value \in Limits[c].min..Limits[c].max
                \/ values'[c].max # Limits[c].max
             /\ v = Limits[c] /\ x \in Limits[c].min..Limits[c].max => s.value = x
  <2>1. u.ok /\ s = [control |-> c, value |-> y, reset |-> percent = {}]
    BY <1>4 DEF Send
  <2>2. s.control = c /\ (s.reset => percent = {}) /\ s.value = y BY <2>1
  <2>3. /\ Limits[c] \in [min : Int, max : Int, def : Int] /\ Limits[c].min < Limits[c].max
        /\ Limits[c].min..Limits[c].max \subseteq Words16(c)
    BY ControlsAssumption DEF ControlsAssumption
  <2>4. u.values \in [min : Int, max : Int, def : Int] /\ u.values.min = Limits[c].min
    BY <1>3, <2>1, KnownLimits
  <2>5. Narrow(c, x) \in Int BY NarrowExact
  <2>6. CASE u.values.max = Limits[c].max
    <3>1. /\ y \in u.values.min..u.values.max
          /\ Narrow(c, x) \in u.values.min..u.values.max => y = Narrow(c, x)
      BY <2>3, <2>4, <2>5, <2>6, ClampBetween
    <3>2. x \in Limits[c].min..Limits[c].max => Narrow(c, x) = x
      BY <2>3, NarrowExact
    <3> QED BY <2>2, <2>4, <2>6, <3>1, <3>2
  <2>7. CASE u.values.max # Limits[c].max
    <3>1. v # Limits[c]
      <4>1. Limits[c] # Zero BY <2>3 DEF Zero
      <4> QED BY <1>3, <2>7, <4>1
    <3> QED BY <1>2, <2>2, <2>7, <3>1
  <2> QED BY <2>6, <2>7
<1> HIDE DEF u, y
<1> QED BY <1>1, <1>4 DEF u

-----------------------------------------------------------------------------
(* Steps.                                                                  *)

\* What a call leaves behind: caches that agree and safe values sent.
Good == ControlsInv /\ SentInRange /\ ResetsToDefault

\* Limits that are known are not asked for again, and stay.
LimitsStay == \A c \in Controls : values[c] # Zero => values'[c] = values[c]

\* Nothing sent is safe.
LEMMA NothingSent == sent' = {} => SentInRange' /\ ResetsToDefault'
  BY DEF SentInRange, ResetsToDefault

\* Known limits are in the range and so is the default.
LEMMA RealLimits ==
    ASSUME NEW c \in Controls
    PROVE  /\ Limits[c] # Zero /\ Limits[c].def \in Limits[c].min..Limits[c].max
           /\ Limits[c].def \in Int /\ Limits[c] \in Known(c)
  BY ControlsAssumption DEF ControlsAssumption, Zero, Known

\* The first state has empty caches.
LEMMA GoodInit == Init => Good
<1> SUFFICES ASSUME Init PROVE Good
  OBVIOUS
<1>1. Zero \in [min : Int, max : Int, def : Int] BY DEF Zero
<1>2. ControlsInv BY <1>1 DEF Init, ControlsInv, Known
<1> QED BY <1>2 DEF Init, Good, SentInRange, ResetsToDefault

\* updateCameraParams: what a request has answered is cached, and what was
\* fetched in full is copied.
LEMMA UpdateStep == Good /\ UpdateCameraParams => Good' /\ LimitsStay
<1> SUFFICES ASSUME Good, UpdateCameraParams PROVE Good' /\ LimitsStay
  OBVIOUS
<1>1. SentInRange' /\ ResetsToDefault' BY NothingSent DEF UpdateCameraParams
<1>2. CASE UNCHANGED <<values, jLimits>>
  BY <1>1, <1>2 DEF Good, ControlsInv, Known, Zero, LimitsStay
<1>3. ASSUME NEW f \in [Controls -> Failures], NEW new,
             new = [c \in Controls |-> IF c \in supported
                            THEN UpdateValues(values[c], c, f[c])
                            ELSE [ok |-> FALSE, values |-> values[c]]],
             values' = [c \in Controls |-> new[c].values],
             jLimits' = [c \in Controls |-> IF new[c].ok THEN new[c].values ELSE jLimits[c]]
      PROVE  ControlsInv' /\ LimitsStay
  <2>1. ASSUME NEW c \in Controls
        PROVE  /\ values'[c] \in Known(c)
               /\ values[c] # Zero => values'[c] = values[c]
               /\ jLimits'[c] = jLimits[c] \/ jLimits'[c] = values'[c]
    <3>1. values[c] \in Known(c) BY DEF Good, ControlsInv
    <3>2. f[c] \in Failures OBVIOUS
    <3>3. /\ UpdateValues(values[c], c, f[c]).values \in Known(c)
          /\ values[c] # Zero => UpdateValues(values[c], c, f[c]).values = values[c]
      BY <3>1, <3>2, UpdateKnows
    <3>4. new[c].values \in Known(c) /\ (values[c] # Zero => new[c].values = values[c])
      BY <1>3, <3>1, <3>3
    <3> QED BY <1>3, <3>4
  <2>2. /\ values' = [c \in Controls |-> values'[c]]
        /\ jLimits' = [c \in Controls |-> jLimits'[c]]
    BY <1>3
  <2> QED BY <2>1, <2>2, Grows DEF Good, LimitsStay
<1> QED BY <1>1, <1>2, <1>3 DEF UpdateCameraParams, Good

\* A setter: the limits are cached once more, and what is sent is in range.
LEMMA SetStep ==
    ASSUME NEW c \in Controls, NEW p \in Percents, Good, Set(c, p)
    PROVE  Good' /\ LimitsStay
<1>1. PICK f \in Failures, taken \in BOOLEAN :
         LET u == IF c = "contrast" THEN Update(values[c], c, f)
                  ELSE [ok |-> FALSE, values |-> values[c]]
             l == IF u.ok THEN u.values ELSE jLimits[c]
         IN /\ jLimits' = [jLimits EXCEPT ![c] = l]
            /\ \/ /\ Range(l) = 0 /\ values' = [values EXCEPT ![c] = u.values]
                  /\ sent' = {} /\ UNCHANGED <<cur, asked>>
               \/ /\ Range(l) > 0
                  /\ \E s \in Scale(p, Range(l)) : Send(c, u.values, s + l.min, f, taken, {p})
  BY DEF Set
<1> DEFINE u == IF c = "contrast" THEN Update(values[c], c, f)
                ELSE [ok |-> FALSE, values |-> values[c]]
           l == IF u.ok THEN u.values ELSE jLimits[c]
<1>2. /\ values[c] \in Known(c) /\ jLimits[c] \in Known(c)
      /\ values \in [Controls -> [min : Int, max : Int, def : Int]]
      /\ jLimits \in [Controls -> [min : Int, max : Int, def : Int]]
      /\ jLimits[c] \in {Zero, values[c]}
  BY JavaLimits DEF Good, ControlsInv
<1>3. /\ u.values \in Known(c) /\ (values[c] # Zero => u.values = values[c])
      /\ u.ok => u.values # Zero
  BY <1>2, UpdateOfKnows
<1>4. l \in Known(c) /\ (u.ok => l = u.values) /\ (~u.ok => l = jLimits[c])
  BY <1>2, <1>3
<1>5. l.min \in Int /\ Range(l) \in Int BY <1>4, KnownLimits DEF Range
<1>6. /\ jLimits' = [jLimits EXCEPT ![c] = l]
      /\ \/ values' = [values EXCEPT ![c] = u.values] /\ sent' = {}
         \/ \E s \in Scale(p, Range(l)) : Send(c, u.values, s + l.min, f, taken, {p})
  BY <1>1
<1> HIDE DEF u, l
<1>7. CASE values' = [values EXCEPT ![c] = u.values] /\ sent' = {}
  <2>1. ControlsInv' BY <1>2, <1>3, <1>4, <1>6, <1>7, Grows DEF Good, ControlsInv
  <2>2. LimitsStay BY <1>2, <1>3, <1>7 DEF LimitsStay
  <2> QED BY <1>7, <2>1, <2>2, NothingSent DEF Good
<1>8. ASSUME NEW s \in Scale(p, Range(l)), Send(c, u.values, s + l.min, f, taken, {p})
      PROVE  Good' /\ LimitsStay
  <2>1. s \in Int
    BY <1>5, ScaleInt, ControlsAssumption DEF ControlsAssumption
  <2>2. s + l.min \in Int BY <1>5, <2>1
  <2>3. /\ values' = [values EXCEPT ![c] = Update(u.values, c, f).values]
        /\ \A r \in sent' :
              /\ r.control = c /\ (r.reset => {p} = {})
              /\ \/ r.value \in Limits[c].min..Limits[c].max
                 \/ values'[c].max # Limits[c].max
    <3>1. PICK v : v = u.values OBVIOUS
    <3>2. PICK x : x = s + l.min OBVIOUS
    <3>3. v \in Known(c) /\ x \in Int BY <1>3, <2>2, <3>1, <3>2
    <3>4. values \in [Controls -> [min : Int, max : Int, def : Int]] BY <1>2
    <3>5. PICK q : q = {p} OBVIOUS
    <3>6. Send(c, v, x, f, taken, q) BY <1>8, <3>1, <3>2, <3>5 DEF Send
    <3>7. /\ values' = [values EXCEPT ![c] = Update(v, c, f).values]
          /\ \A r \in sent' :
                /\ r.control = c /\ (r.reset => q = {})
                /\ \/ r.value \in Limits[c].min..Limits[c].max
                   \/ values'[c].max # Limits[c].max
      BY <3>3, <3>4, <3>6, SendSafe
    <3> QED BY <3>1, <3>5, <3>7
  <2>4. /\ Update(u.values, c, f).values \in Known(c)
        /\ u.values # Zero => Update(u.values, c, f).values = u.values
    BY <1>3, UpdateOfKnows
  <2>5. ControlsInv' BY <1>2, <1>3, <1>4, <1>6, <2>3, <2>4, Grows DEF Good, ControlsInv
  <2>6. SentInRange' BY <2>3 DEF SentInRange
  <2>7. ResetsToDefault' BY <2>3 DEF ResetsToDefault
  <2>8. LimitsStay BY <1>2, <1>3, <2>3, <2>4 DEF LimitsStay
  <2> QED BY <2>5, <2>6, <2>7, <2>8 DEF Good
<1> QED BY <1>6, <1>7, <1>8

\* A reset: what Java holds for the default is sent as far as it is in range.
LEMMA ResetStep ==
    ASSUME NEW c \in Controls, Good, Reset(c)
    PROVE  Good' /\ LimitsStay
<1>1. PICK f \in Failures, taken \in BOOLEAN :
         Send(c, values[c], jLimits[DefaultOf(c)].def, f, taken, {})
  BY DEF Reset
<1>2. jLimits' = jLimits BY DEF Reset
<1>3. /\ values[c] \in Known(c)
      /\ values \in [Controls -> [min : Int, max : Int, def : Int]]
      /\ jLimits \in [Controls -> [min : Int, max : Int, def : Int]]
      /\ jLimits[c] \in {Zero, values[c]}
  BY DEF Good, ControlsInv
<1>4. DefaultOf(c) \in Controls /\ (c # "hue" => DefaultOf(c) = c)
  BY ControlsAssumption DEF ControlsAssumption, DefaultOf
<1>5. jLimits[DefaultOf(c)].def \in Int BY <1>3, <1>4
<1>6. /\ values' = [values EXCEPT ![c] = Update(values[c], c, f).values]
      /\ \A s \in sent' :
            /\ s.control = c
            /\ \/ s.value \in Limits[c].min..Limits[c].max
               \/ values'[c].max # Limits[c].max
            /\ values[c] = Limits[c]
               /\ jLimits[DefaultOf(c)].def \in Limits[c].min..Limits[c].max
                  => s.value = jLimits[DefaultOf(c)].def
  BY <1>1, <1>3, <1>5, SendSafe
<1>7. /\ Update(values[c], c, f).values \in Known(c)
      /\ values[c] # Zero => Update(values[c], c, f).values = values[c]
  BY <1>3, UpdateOfKnows
<1>8. ControlsInv' BY <1>2, <1>3, <1>6, <1>7, Grows DEF Good, ControlsInv
<1>9. SentInRange' BY <1>6 DEF SentInRange
<1>10. ResetsToDefault'
  <2>1. ASSUME NEW s \in sent', s.control # "hue", jLimits[s.control] = Limits[s.control]
        PROVE  s.value = Limits[s.control].def
    <3>1. s.control = c /\ DefaultOf(c) = c BY <1>4, <1>6, <2>1
    <3>2. jLimits[c] = Limits[c] /\ values[c] = Limits[c]
      BY <1>3, <2>1, <3>1, RealLimits
    <3> QED BY <1>6, <3>1, <3>2, RealLimits
  <2> QED BY <1>2, <2>1 DEF ResetsToDefault
<1>11. LimitsStay BY <1>3, <1>6, <1>7 DEF LimitsStay
<1> QED BY <1>8, <1>9, <1>10, <1>11 DEF Good

\* A getter caches limits, of the control it reads and of the one it scales with.
LEMMA GetStep ==
    ASSUME NEW c \in Controls, Good, Get(c)
    PROVE  Good' /\ LimitsStay
<1> DEFINE d == ReadWith(c)
<1>1. PICK f \in Failures, g \in Failures :
         LET u == Update(values[c], c, f)
             w == IF d = "contrast" THEN [ok |-> FALSE, values |-> u.values]
                  ELSE Update(IF d = c THEN u.values ELSE values[d], d, g)
             l == IF w.ok THEN w.values ELSE jLimits[d]
         IN /\ values' = [values EXCEPT ![c] = u.values, ![d] = w.values]
            /\ jLimits' = [jLimits EXCEPT ![d] = l]
  BY DEF Get
<1> DEFINE u == Update(values[c], c, f)
           w == IF d = "contrast" THEN [ok |-> FALSE, values |-> u.values]
                ELSE Update(IF d = c THEN u.values ELSE values[d], d, g)
           l == IF w.ok THEN w.values ELSE jLimits[d]
<1>2. d \in Controls /\ (d = "contrast" => d = c)
  BY ControlsAssumption DEF ControlsAssumption, ReadWith
<1>3. /\ values[c] \in Known(c) /\ values[d] \in Known(d)
      /\ values \in [Controls -> [min : Int, max : Int, def : Int]]
      /\ jLimits \in [Controls -> [min : Int, max : Int, def : Int]]
  BY <1>2 DEF Good, ControlsInv
<1>4. u.values \in Known(c) /\ (values[c] # Zero => u.values = values[c])
  BY <1>3, UpdateOfKnows
<1>5. /\ w.values \in Known(d) /\ (values[d] # Zero => w.values = values[d])
  <2>1. CASE d = "contrast"
    BY <1>2, <1>4, <2>1
  <2>2. CASE d # "contrast" /\ d = c
    <3>1. w = Update(u.values, d, g) BY <2>2
    <3>2. u.values \in Known(d) BY <1>4, <2>2
    <3> HIDE DEF u, w
    <3> QED BY <1>2, <1>4, <2>2, <3>1, <3>2, UpdateOfKnows
  <2>3. CASE d # "contrast" /\ d # c
    <3>1. w = Update(values[d], d, g) BY <2>3
    <3> HIDE DEF u, w
    <3> QED BY <1>2, <1>3, <3>1, UpdateOfKnows
  <2> QED BY <2>1, <2>2, <2>3
<1>6. l = jLimits[d] \/ l = w.values OBVIOUS
<1>7. /\ values' = [values EXCEPT ![c] = u.values, ![d] = w.values]
      /\ jLimits' = [jLimits EXCEPT ![d] = l]
  BY <1>1
<1> HIDE DEF u, w, l, d
<1>8. \A e \in Controls :
         /\ values'[e] \in Known(e)
         /\ values[e] # Zero => values'[e] = values[e]
         /\ jLimits'[e] = jLimits[e] \/ jLimits'[e] = values'[e]
  BY <1>2, <1>3, <1>4, <1>5, <1>6, <1>7 DEF Good, ControlsInv
<1>9. /\ values' = [e \in Controls |-> values'[e]]
      /\ jLimits' = [e \in Controls |-> jLimits'[e]]
  BY <1>3, <1>7
<1>10. ControlsInv' BY <1>8, <1>9, Grows DEF Good
<1> QED BY <1>8, <1>10, NothingSent DEF Good, Get, LimitsStay

\* Every step leaves caches that agree and safe values behind.
THEOREM GoodInductive == Spec => []Good
<1>1. Good /\ [Next]_vars => Good'
  <2> SUFFICES ASSUME Good, [Next]_vars PROVE Good'
    OBVIOUS
  <2>1. CASE UpdateCameraParams BY <2>1, UpdateStep
  <2>2. CASE \E c \in Controls : Reset(c) BY <2>2, ResetStep
  <2>3. CASE \E c \in Controls : Get(c) BY <2>3, GetStep
  <2>4. CASE \E c \in Controls, p \in Percents : Set(c, p) BY <2>4, SetStep
  <2>5. CASE UNCHANGED vars
    BY <2>5 DEF vars, Good, ControlsInv, Known, Zero, SentInRange, ResetsToDefault
  <2> QED BY <2>1, <2>2, <2>3, <2>4, <2>5 DEF Next
<1> QED BY <1>1, GoodInit, PTL DEF Spec

\* Java never works with limits that UVCCamera.cpp does not have.
THEOREM CachesNeverDiverge == Spec => []CachesAgree
<1>1. Good => CachesAgree BY DEF Good, ControlsInv, CachesAgree
<1> QED BY <1>1, GoodInductive, PTL

\* A value outside the limits is sent only when the maximum is not known.
THEOREM ValuesStayInRange == Spec => []SentInRange
<1>1. Good => SentInRange BY DEF Good
<1> QED BY <1>1, GoodInductive, PTL

\* A reset sends the control's own default, the hue's aside.
THEOREM ResetsSendDefault == Spec => []ResetsToDefault
<1>1. Good => ResetsToDefault BY DEF Good
<1> QED BY <1>1, GoodInductive, PTL

-----------------------------------------------------------------------------
(* A percentage set is read back.                                          *)

\* Products and quotients.
LEMMA Monotone ==
    ASSUME NEW a \in Int, NEW b \in Int, NEW k \in Nat, a <= b
    PROVE  a * k <= b * k
  OBVIOUS

\* Integer division of natural numbers.
LEMMA Quotient ==
    ASSUME NEW n \in Nat, NEW r \in Nat, r > 0
    PROVE  n \div r \in Int /\ (n \div r) * r <= n /\ n < (n \div r + 1) * r
  OBVIOUS

\* The same by 100, as for a percentage.
LEMMA Hundredth ==
    ASSUME NEW n \in Nat
    PROVE  /\ n \div 100 \in Nat
           /\ (n \div 100) * 100 <= n /\ n < (n \div 100) * 100 + 100
           /\ n % 100 = 0 => (n \div 100) * 100 = n
  OBVIOUS

\* A share of a range lies in it, and is less than a hundredth too small or, where the
\* product is exact, than a hundredth and one.
LEMMA ScaleBounds ==
    ASSUME NEW p \in 0..100, NEW r \in Nat, r > 0, NEW s \in Scale(p, r)
    PROVE  /\ s \in 0..r /\ s * 100 <= p * r
           /\ r >= 100 => s * 100 >= (p - 1) * r
<1>1. PICK n \in Nat : n = p * r
  <2>1. p * r \in Int /\ 0 * r <= p * r BY Monotone
  <2> QED BY <2>1
<1>2. PICK v \in Nat : v = n \div 100 BY Hundredth
<1>3. v * 100 <= n /\ n < v * 100 + 100 /\ (n % 100 = 0 => v * 100 = n)
  BY <1>2, Hundredth
<1>4. n <= 100 * r BY <1>1, Monotone
<1>5. (p - 1) * r = n - r BY <1>1
<1>6. Trunc(n, 100) = v BY <1>2 DEF Trunc
<1>7. s = v \/ (n % 100 = 0 /\ p % 25 # 0 /\ s = IF v > 0 THEN v - 1 ELSE v + 1)
  BY <1>1, <1>6 DEF Scale
<1>8. CASE s = v BY <1>1, <1>3, <1>4, <1>5, <1>8
<1>9. CASE n % 100 = 0 /\ p % 25 # 0 /\ v > 0 /\ s = v - 1
  BY <1>1, <1>3, <1>4, <1>5, <1>9
<1>10. CASE n % 100 = 0 /\ p % 25 # 0 /\ v = 0
  <2>1. n = 0 BY <1>3, <1>10
  <2>2. p >= 1 BY <1>10
  <2>3. 1 * r <= p * r BY <2>2, Monotone
  <2> QED BY <1>1, <2>1, <2>3
<1> QED BY <1>7, <1>8, <1>9, <1>10

\* Read back, it is never larger, and at most one smaller in a range of 100 steps.
LEMMA PercentBack ==
    ASSUME NEW p \in 0..100, NEW r \in Nat, r > 0, NEW s \in Scale(p, r)
    PROVE  /\ Trunc(s * 100, r) <= p
           /\ r >= 100 => Trunc(s * 100, r) >= p - 1
<1>1. PICK m \in Nat : m = s * 100 BY ScaleBounds
<1>2. m <= p * r /\ (r >= 100 => m >= (p - 1) * r) BY <1>1, ScaleBounds
<1>3. PICK q \in Int : q = m \div r BY Quotient
<1>4. q * r <= m /\ m < (q + 1) * r BY <1>3, Quotient
<1>5. q <= p
  <2> SUFFICES ASSUME q >= p + 1 PROVE FALSE OBVIOUS
  <2>1. (p + 1) * r <= q * r BY Monotone
  <2>2. (p + 1) * r = p * r + r OBVIOUS
  <2> QED BY <1>2, <1>4, <2>1, <2>2
<1>6. r >= 100 => q >= p - 1
  <2> SUFFICES ASSUME r >= 100, q + 1 <= p - 1 PROVE FALSE OBVIOUS
  <2>1. (q + 1) * r <= (p - 1) * r BY Monotone
  <2>2. (q + 1) * r \in Int /\ (p - 1) * r \in Int OBVIOUS
  <2> QED BY <1>2, <1>4, <2>1, <2>2
<1>7. Trunc(m, r) = q BY <1>3 DEF Trunc
<1> QED BY <1>1, <1>5, <1>6, <1>7

\* What a camera is set to by p percent of the limits it has.
Landing(c, p) == {s + Limits[c].min : s \in Scale(p, Range(Limits[c]))}

\* Where a percentage was asked for, the limits are known, and when they are known in
\* full the camera is set to that share of them.
AskedInv ==
    /\ cur \in [Controls -> Int] /\ asked \in [Controls -> SUBSET Percents]
    /\ \A c \in Controls : \A p \in asked[c] :
         /\ values[c] # Zero
         /\ values[c] = Limits[c] /\ p \in 0..100 => cur[c] \in Landing(c, p)

\* The limits of a control are in order.
LEMMA RangeOfLimits ==
    ASSUME NEW c \in Controls
    PROVE  /\ Limits[c].min \in Int /\ Limits[c].max \in Int
           /\ Range(Limits[c]) \in Nat /\ Range(Limits[c]) > 0
           /\ Range(Limits[c]) = Limits[c].max - Limits[c].min
  BY ControlsAssumption DEF ControlsAssumption, Range

\* A share of the limits is within them.
LEMMA LandsInRange ==
    ASSUME NEW c \in Controls, NEW p \in 0..100, NEW s \in Scale(p, Range(Limits[c]))
    PROVE  s \in Int /\ s + Limits[c].min \in Limits[c].min..Limits[c].max
<1>1. PICK r \in Nat : r = Range(Limits[c]) BY RangeOfLimits
<1>2. r > 0 /\ r = Limits[c].max - Limits[c].min /\ Limits[c].min \in Int BY <1>1, RangeOfLimits
<1>3. s \in 0..r BY <1>1, <1>2, ScaleBounds
<1> QED BY <1>2, <1>3, RangeOfLimits

\* What a setter leaves in the camera.
LEMMA SendSets ==
    ASSUME NEW c \in Controls, NEW v \in Known(c), NEW x \in Int,
           NEW f \in Failures, NEW taken \in BOOLEAN, NEW percent \in SUBSET Percents,
           values \in [Controls -> [min : Int, max : Int, def : Int]],
           cur \in [Controls -> Int], asked \in [Controls -> SUBSET Percents],
           Send(c, v, x, f, taken, percent)
    PROVE  /\ cur' \in [Controls -> Int] /\ asked' \in [Controls -> SUBSET Percents]
           /\ \A e \in Controls \ {c} : cur'[e] = cur[e] /\ asked'[e] = asked[e]
           /\ \/ cur'[c] = cur[c] /\ asked'[c] = asked[c]
              \/ /\ asked'[c] = percent /\ values'[c] # Zero
                 /\ v = Limits[c] /\ x \in Limits[c].min..Limits[c].max => cur'[c] = x
<1> DEFINE u == Update(v, c, f)
           y == Clamp(u.values, Narrow(c, x))
<1>1. values'[c] = u.values BY DEF Send
<1>2. u.values \in Known(c) /\ (u.ok => u.values # Zero) /\ (v # Zero => u.values = v)
  BY UpdateOfKnows
<1>3. Narrow(c, x) \in Int BY NarrowExact
<1>4. y \in Int BY <1>2, <1>3, KnownLimits DEF Clamp
<1>5. CASE u.ok /\ taken
  <2>1. cur' = [cur EXCEPT ![c] = y] /\ asked' = [asked EXCEPT ![c] = percent]
    BY <1>5 DEF Send
  <2>2. v = Limits[c] /\ x \in Limits[c].min..Limits[c].max => y = x
    <3> SUFFICES ASSUME v = Limits[c], x \in Limits[c].min..Limits[c].max PROVE y = x
      OBVIOUS
    <3>1. /\ Limits[c] \in [min : Int, max : Int, def : Int]
          /\ Limits[c].min < Limits[c].max
          /\ Limits[c].min..Limits[c].max \subseteq Words16(c)
      BY ControlsAssumption DEF ControlsAssumption
    <3>2. u.values = Limits[c] BY <1>2, RealLimits
    <3>3. Narrow(c, x) = x BY <3>1, NarrowExact
    <3> QED BY <3>1, <3>2, <3>3, ClampBetween
  <2> HIDE DEF u, y
  <2> QED BY <1>1, <1>2, <1>4, <1>5, <2>1, <2>2
<1>6. CASE ~(u.ok /\ taken)
  <2>1. cur' = cur /\ asked' = asked BY <1>6 DEF Send
  <2> QED BY <2>1
<1> QED BY <1>5, <1>6

\* Limits that stay leave the shares of them what they are.
LEMMA AskedOthers ==
    ASSUME Good, AskedInv, LimitsStay, NEW c \in Controls, NEW p \in asked[c]
    PROVE  /\ values'[c] # Zero
           /\ values'[c] = Limits[c] /\ p \in 0..100 => cur[c] \in Landing(c, p)
  BY DEF AskedInv, LimitsStay

\* AskedInv stays when neither the values nor the percentages set change,
LEMMA AskedSame ==
    ASSUME Good, AskedInv, LimitsStay, UNCHANGED <<cur, asked>>
    PROVE  AskedInv'
<1>1. \A c \in Controls : \A p \in asked[c] :
         /\ values'[c] # Zero
         /\ values'[c] = Limits[c] /\ p \in 0..100 => cur[c] \in Landing(c, p)
  BY AskedOthers
<1>2. Zero' = Zero BY DEF Zero
<1> QED BY <1>1, <1>2 DEF AskedInv

\* and with a reset, which forgets the percentages set.
LEMMA AskedReset ==
    ASSUME NEW c \in Controls, Good, AskedInv, LimitsStay, Reset(c)
    PROVE  AskedInv'
<1>1. PICK f \in Failures, taken \in BOOLEAN :
         Send(c, values[c], jLimits[DefaultOf(c)].def, f, taken, {})
  BY DEF Reset
<1>2. /\ values[c] \in Known(c) /\ values \in [Controls -> [min : Int, max : Int, def : Int]]
      /\ jLimits \in [Controls -> [min : Int, max : Int, def : Int]]
  BY DEF Good, ControlsInv
<1>3. DefaultOf(c) \in Controls
  BY ControlsAssumption DEF ControlsAssumption, DefaultOf
<1>4. PICK x \in Int : x = jLimits[DefaultOf(c)].def BY <1>2, <1>3
<1>5. PICK v : v = values[c] OBVIOUS
<1>6. Send(c, v, x, f, taken, {}) BY <1>1, <1>4, <1>5
<1>7. v \in Known(c) /\ {} \in SUBSET Percents BY <1>2, <1>5
<1>8. /\ cur \in [Controls -> Int] /\ asked \in [Controls -> SUBSET Percents]
  BY DEF AskedInv
<1>9. /\ cur' \in [Controls -> Int] /\ asked' \in [Controls -> SUBSET Percents]
      /\ \A e \in Controls \ {c} : cur'[e] = cur[e] /\ asked'[e] = asked[e]
      /\ (cur'[c] = cur[c] /\ asked'[c] = asked[c]) \/ asked'[c] = {}
  BY <1>2, <1>6, <1>7, <1>8, SendSets
<1>10. Zero' = Zero BY DEF Zero
<1>11. ASSUME NEW e \in Controls, NEW p \in asked'[e]
       PROVE  /\ values'[e] # Zero
              /\ values'[e] = Limits[e] /\ p \in 0..100 => cur'[e] \in Landing(e, p)
  <2>1. asked'[e] = asked[e] /\ cur'[e] = cur[e] BY <1>9, <1>11
  <2>2. p \in asked[e] BY <1>11, <2>1
  <2> QED BY <2>1, <2>2, AskedOthers
<1> QED BY <1>9, <1>10, <1>11 DEF AskedInv

\* A setter that finds limits sends a share of them, and one that has the camera's
\* own limits sets the camera to that share.
LEMMA AskedSet ==
    ASSUME NEW c \in Controls, NEW p \in Percents, Good, AskedInv, LimitsStay, Set(c, p)
    PROVE  AskedInv'
<1>1. PICK f \in Failures, taken \in BOOLEAN :
         LET u == IF c = "contrast" THEN Update(values[c], c, f)
                  ELSE [ok |-> FALSE, values |-> values[c]]
             l == IF u.ok THEN u.values ELSE jLimits[c]
         IN \/ UNCHANGED <<cur, asked>>
            \/ /\ Range(l) > 0
               /\ \E s \in Scale(p, Range(l)) : Send(c, u.values, s + l.min, f, taken, {p})
  BY DEF Set
<1> DEFINE u == IF c = "contrast" THEN Update(values[c], c, f)
                ELSE [ok |-> FALSE, values |-> values[c]]
           l == IF u.ok THEN u.values ELSE jLimits[c]
<1>2. /\ values[c] \in Known(c) /\ jLimits[c] \in Known(c)
      /\ values \in [Controls -> [min : Int, max : Int, def : Int]]
      /\ jLimits[c] \in {Zero, values[c]}
  BY JavaLimits DEF Good, ControlsInv
<1>3. /\ u.values \in Known(c) /\ (values[c] # Zero => u.values = values[c])
      /\ ~u.ok => u.values = values[c] \/ values[c] = Zero
  BY <1>2, UpdateOfKnows
<1>4. l \in Known(c) /\ l \in {Zero, u.values}
  BY <1>2, <1>3
<1>5. \/ UNCHANGED <<cur, asked>>
      \/ /\ Range(l) > 0
         /\ \E s \in Scale(p, Range(l)) : Send(c, u.values, s + l.min, f, taken, {p})
  BY <1>1
<1> HIDE DEF u, l
<1>6. ASSUME NEW s \in Scale(p, Range(l)), Range(l) > 0,
             Send(c, u.values, s + l.min, f, taken, {p})
      PROVE  AskedInv'
  <2>1. Range(Zero) = 0 BY DEF Range, Zero
  <2>2. l = u.values BY <1>4, <1>6, <2>1
  <2>3. l.min \in Int /\ Range(l) \in Int BY <1>4, KnownLimits DEF Range
  <2>4. s \in Int BY <2>3, <1>6, ScaleInt, ControlsAssumption DEF ControlsAssumption
  <2>5. PICK x \in Int : x = s + l.min BY <2>3, <2>4
  <2>6. PICK v : v = u.values OBVIOUS
  <2>7. PICK q : q = {p} OBVIOUS
  <2>8. Send(c, v, x, f, taken, q) BY <1>6, <2>5, <2>6, <2>7
  <2>9. v \in Known(c) /\ q \in SUBSET Percents BY <1>3, <2>6, <2>7
  <2>10. cur \in [Controls -> Int] /\ asked \in [Controls -> SUBSET Percents]
    BY DEF AskedInv
  <2>11. /\ cur' \in [Controls -> Int] /\ asked' \in [Controls -> SUBSET Percents]
         /\ \A e \in Controls \ {c} : cur'[e] = cur[e] /\ asked'[e] = asked[e]
         /\ \/ cur'[c] = cur[c] /\ asked'[c] = asked[c]
            \/ /\ asked'[c] = q /\ values'[c] # Zero
               /\ v = Limits[c] /\ x \in Limits[c].min..Limits[c].max => cur'[c] = x
    BY <1>2, <2>8, <2>9, <2>10, SendSets
  <2>12. values'[c] = Limits[c] => v = Limits[c]
    <3>1. values'[c] = Update(v, c, f).values BY <1>2, <2>8 DEF Send
    <3>2. v # Zero BY <1>6, <2>1, <2>2, <2>6
    <3> QED BY <2>9, <3>1, <3>2, UpdateOfKnows
  <2>13. v = Limits[c] /\ p \in 0..100 =>
            x \in Landing(c, p) /\ x \in Limits[c].min..Limits[c].max
    <3> SUFFICES ASSUME v = Limits[c], p \in 0..100
                 PROVE  x \in Landing(c, p) /\ x \in Limits[c].min..Limits[c].max
      OBVIOUS
    <3>1. l = Limits[c] BY <2>2, <2>6
    <3>2. s \in Scale(p, Range(Limits[c])) /\ x = s + Limits[c].min BY <1>6, <2>5, <3>1
    <3> QED BY <3>2, LandsInRange DEF Landing
  <2>14. Zero' = Zero BY DEF Zero
  <2>15. ASSUME NEW e \in Controls, NEW o \in asked'[e]
         PROVE  /\ values'[e] # Zero
                /\ values'[e] = Limits[e] /\ o \in 0..100 => cur'[e] \in Landing(e, o)
    <3>1. CASE asked'[e] = asked[e] /\ cur'[e] = cur[e]
      <4>1. o \in asked[e] BY <2>15, <3>1
      <4> QED BY <3>1, <4>1, AskedOthers
    <3>2. CASE ~(asked'[e] = asked[e] /\ cur'[e] = cur[e])
      <4>1. e = c BY <2>11, <3>2
      <4>2. o = p BY <2>7, <2>11, <2>15, <3>2, <4>1
      <4> QED BY <2>11, <2>12, <2>13, <3>2, <4>1, <4>2
    <3> QED BY <3>1, <3>2
  <2> QED BY <2>11, <2>14, <2>15 DEF AskedInv
<1> QED BY <1>5, <1>6, AskedSame

\* The inductive invariant of a percentage set and read.
ReadInv == Good /\ AskedInv /\ ReadsBack

\* ReadInv holds at first,
LEMMA ReadInit == Init => ReadInv
<1> SUFFICES ASSUME Init PROVE ReadInv
  OBVIOUS
<1>1. AskedInv
  <2>1. \A c \in Controls : Limits[c].def \in Int BY RealLimits
  <2> QED BY <2>1 DEF Init, AskedInv
<1>2. ReadsBack BY DEF Init, ReadsBack
<1> QED BY <1>1, <1>2, GoodInit DEF ReadInv

\* Nothing is read except by a getter.
LEMMA NothingRead == read' = {} => ReadsBack'
  BY DEF ReadsBack

\* What a getter reads is the camera's value, in percent of the limits that Java then
\* knows; where they are the camera's own, those were known when it was set.
LEMMA GetReadsBack ==
    ASSUME NEW c \in Controls, ReadInv, LimitsStay, ControlsInv', Get(c)
    PROVE  ReadsBack'
<1>1. PICK f \in Failures, g \in Failures, answered \in BOOLEAN :
         LET u == Update(values[c], c, f)
             x == IF u.ok /\ answered THEN cur[c] ELSE 0
             d == ReadWith(c)
             w == IF d = "contrast" THEN [ok |-> FALSE, values |-> u.values]
                  ELSE Update(IF d = c THEN u.values ELSE values[d], d, g)
             l == IF w.ok THEN w.values ELSE jLimits[d]
         IN /\ jLimits' = [jLimits EXCEPT ![d] = l]
            /\ read' = IF u.ok /\ answered
                       THEN {[control |-> c, percent |-> Percent(x, l)]} ELSE {}
  BY DEF Get
<1>2. jLimits \in [Controls -> [min : Int, max : Int, def : Int]]
  BY DEF ReadInv, Good, ControlsInv
<1>3. c # "whiteBalance" => ReadWith(c) = c BY DEF ReadWith
<1>4. \A r \in read' :
         /\ r.control = c
         /\ c # "whiteBalance" => r.percent = Percent(cur[c], jLimits'[c])
  BY <1>1, <1>2, <1>3
<1>5. ASSUME NEW p \in asked[c] \cap 0..100, c # "whiteBalance", jLimits'[c] = Limits[c]
      PROVE  /\ Percent(cur[c], jLimits'[c]) <= p
             /\ Range(Limits[c]) >= 100 => Percent(cur[c], jLimits'[c]) >= p - 1
  <2>1. values'[c] = Limits[c]
    <3>1. Zero' = Zero BY DEF Zero
    <3>2. jLimits'[c] \in {Zero, values'[c]} BY <3>1 DEF ControlsInv
    <3> QED BY <1>5, <3>2, RealLimits
  <2>2. cur[c] \in Landing(c, p) BY <2>1, AskedOthers DEF ReadInv
  <2>3. PICK s \in Scale(p, Range(Limits[c])) : cur[c] = s + Limits[c].min
    BY <2>2 DEF Landing
  <2>4. PICK r \in Nat : r = Range(Limits[c]) BY RangeOfLimits
  <2>5. r > 0 BY <2>4, RangeOfLimits
  <2>6. s \in Int /\ Limits[c].min \in Int BY LandsInRange, RangeOfLimits
  <2>7. cur[c] - Limits[c].min = s BY <2>3, <2>6
  <2>8. Percent(cur[c], Limits[c]) = Trunc(s * 100, r) BY <2>4, <2>5, <2>7 DEF Percent
  <2>9. s \in Scale(p, r) BY <2>4
  <2> QED BY <1>5, <2>4, <2>5, <2>8, <2>9, PercentBack
<1>6. asked' = asked BY DEF Get
<1> QED BY <1>4, <1>5, <1>6 DEF ReadsBack

\* and every step keeps it.
LEMMA ReadStep == ReadInv /\ [Next]_vars => ReadInv'
<1> SUFFICES ASSUME ReadInv, [Next]_vars PROVE ReadInv'
  OBVIOUS
<1>1. Good /\ AskedInv BY DEF ReadInv
<1>2. CASE UpdateCameraParams
  <2>1. Good' /\ LimitsStay BY <1>1, <1>2, UpdateStep
  <2>2. UNCHANGED <<cur, asked>> /\ read' = {} BY <1>2 DEF UpdateCameraParams
  <2> QED BY <1>1, <2>1, <2>2, AskedSame, NothingRead DEF ReadInv
<1>3. ASSUME NEW c \in Controls, Reset(c) PROVE ReadInv'
  <2>1. Good' /\ LimitsStay BY <1>1, <1>3, ResetStep
  <2>2. read' = {} BY <1>3 DEF Reset
  <2> QED BY <1>1, <1>3, <2>1, <2>2, AskedReset, NothingRead DEF ReadInv
<1>4. ASSUME NEW c \in Controls, NEW p \in Percents, Set(c, p) PROVE ReadInv'
  <2>1. Good' /\ LimitsStay BY <1>1, <1>4, SetStep
  <2>2. read' = {} BY <1>4 DEF Set
  <2> QED BY <1>1, <1>4, <2>1, <2>2, AskedSet, NothingRead DEF ReadInv
<1>5. ASSUME NEW c \in Controls, Get(c) PROVE ReadInv'
  <2>1. Good' /\ LimitsStay BY <1>1, <1>5, GetStep
  <2>2. UNCHANGED <<cur, asked>> BY <1>5 DEF Get
  <2>3. AskedInv' BY <1>1, <2>1, <2>2, AskedSame
  <2>4. ReadsBack' BY <1>5, <2>1, GetReadsBack DEF Good
  <2> QED BY <2>1, <2>3, <2>4 DEF ReadInv
<1>6. CASE UNCHANGED vars
  BY <1>6 DEF vars, ReadInv, Good, ControlsInv, Known, Zero, SentInRange, ResetsToDefault,
     AskedInv, ReadsBack
<1> QED BY <1>2, <1>3, <1>4, <1>5, <1>6 DEF Next

\* A percentage set is read back: not as a larger one, and at most one smaller
\* where the control has 100 steps, the white balance aside.
THEOREM PercentagesAreReadBack == Spec => []ReadsBack
<1>1. ReadInv => ReadsBack BY DEF ReadInv
<1> QED BY <1>1, ReadInit, ReadStep, PTL DEF Spec
=============================================================================
