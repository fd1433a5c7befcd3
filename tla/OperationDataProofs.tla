------------------------- MODULE OperationDataProofs -------------------------
(***************************************************************************)
(* Theorems about OperationData, for any assignment of functions to bits   *)
(* in which no two functions share one, and any speeds, ramps, positions.  *)
(***************************************************************************)
EXTENDS OperationData, SequenceTheorems, WellFoundedInduction, TLAPS

-----------------------------------------------------------------------------
(* The input register.                                                     *)

\* A function that has a bit has one of the bits.
LEMMA LineIsBit ==
  ASSUME NEW n \in Assignments, NEW f \in Functions, HasLine(n, f)
  PROVE  Line(n, f) \in Bits /\ Line(n, f) # -1
<1>1. CASE Assigned(n, f)
  <2> DEFINE T == {b \in Bits : n[b] = f}
  <2>1. T \in SUBSET Nat /\ T # {}
    BY <1>1, OperationAssumption DEF Assigned
  <2> DEFINE Less == {p \in Nat \X Nat : p[1] < p[2]}
  <2>2. IsWellFoundedOn(Less, Nat)
    BY NatLessThanWellFounded, Zenon DEF OpToRel
  <2>3. PICK b \in T : \A c \in T : <<c, b>> \notin Less
    <3> HIDE DEF T, Less
    <3> QED
      BY <2>1, <2>2, WFMin
  <2>4. \A c \in T : b <= c
    <3> SUFFICES ASSUME NEW c \in T PROVE b <= c
      OBVIOUS
    <3>1. b \in Nat /\ c \in Nat
      BY <2>1
    <3>2. ~ (c < b)
      <4> SUFFICES ASSUME c < b PROVE <<c, b>> \in Less
        BY <2>3
      <4> QED
        BY <3>1
    <3> QED
      BY <3>1, <3>2
  <2>5. \E a \in Bits : n[a] = f /\ \A c \in Bits : n[c] = f => a <= c
    BY <2>3, <2>4
  <2>6. Line(n, f) \in Bits
    BY <1>1, <2>5 DEF Line
  <2> QED
    BY <2>6, OperationAssumption
<1>2. CASE ~Assigned(n, f)
  <2>1. f \in Functions \ {"C-ON"} /\ Line(n, f) = Fallback[f]
    BY <1>2 DEF HasLine, Line
  <2> QED
    BY <2>1, OperationAssumption
<1> QED
  BY <1>1, <1>2

\* What the bits of an operation number count.
LEMMA WeightFacts ==
  /\ Weight["M0"] = 1 /\ Weight["M1"] = 2 /\ Weight["M2"] = 4
  /\ Weight["MS0"] = 8 /\ Weight["MS1"] = 16 /\ Weight["MS2"] = 32
BY DEF Weight, OperationFunctions

\* Only the bits of the operation number select an operation.
LEMMA SameSelection ==
  ASSUME NEW a, NEW b,
         \A f \in OperationFunctions : Line(assigned, f) \in a <=> Line(assigned, f) \in b
  PROVE  Selected(a) = Selected(b)
BY DEF Selected, OperationFunctions

\* The bits of the operation number, and any other function, are all different.
LEMMA LinesDiffer ==
  ASSUME assigned \in Assignments
  PROVE  /\ \A f, g \in OperationFunctions : f # g => Line(assigned, f) # Line(assigned, g)
         /\ \A f \in Functions \ OperationFunctions : HasLine(assigned, f) =>
              Line(assigned, f) \notin OperationBits
         /\ \A f \in Functions \ {"C-ON"} : HasLine(assigned, "C-ON") =>
              Line(assigned, f) # Line(assigned, "C-ON")
<1>1. \A f \in OperationFunctions : f \in Functions /\ HasLine(assigned, f)
  BY DEF Functions, OperationFunctions, HasLine
<1>2. \A f, g \in Functions :
        f # g /\ HasLine(assigned, f) /\ HasLine(assigned, g)
        => Line(assigned, f) # Line(assigned, g)
  BY NoSharedBits
<1>3. \A f \in Functions \ {"C-ON"} : HasLine(assigned, "C-ON") =>
        Line(assigned, f) # Line(assigned, "C-ON")
  BY <1>2 DEF Functions, HasLine
<1>4. \A f \in Functions \ OperationFunctions : HasLine(assigned, f) =>
        Line(assigned, f) \notin OperationBits
  BY <1>1, <1>2 DEF OperationBits
<1> QED
  BY <1>1, <1>2, <1>3, <1>4

\* Setting or clearing another function's bit selects no other operation.
LEMMA FlagKeepsOperation ==
  ASSUME assigned \in Assignments, NEW bits, NEW on \in BOOLEAN,
         NEW f \in Functions \ OperationFunctions, HasLine(assigned, f)
  PROVE  Selected(WithFlag(bits, f, on)) = Selected(bits)
<1>1. \A g \in OperationFunctions : Line(assigned, g) # Line(assigned, f)
  BY LinesDiffer DEF OperationBits
<1>2. \A b : b # Line(assigned, f) => (b \in WithFlag(bits, f, on) <=> b \in bits)
  BY DEF WithFlag
<1>3. \A g \in OperationFunctions :
        Line(assigned, g) \in WithFlag(bits, f, on) <=> Line(assigned, g) \in bits
  BY <1>1, <1>2
<1> QED
  BY <1>3, SameSelection

\* What an operation number is made of.
LEMMA Digits ==
  ASSUME NEW o \in Operations, NEW f \in OperationFunctions
  PROVE  (o \div Weight[f]) % 2 = 1 <=> (o = 1 /\ f = "M0") \/ (o = 2 /\ f = "M1")
<1>1. f \in {"M0", "M1", "M2", "MS0", "MS1", "MS2"} /\ o \in {0, 1, 2}
  BY DEF OperationFunctions, Operations
<1>2. Weight[f] \in {1, 2, 4, 8, 16, 32}
      /\ (Weight[f] = 1 <=> f = "M0") /\ (Weight[f] = 2 <=> f = "M1")
  BY <1>1, WeightFacts
<1> QED
  BY <1>1, <1>2

\* Selecting an operation selects it.
LEMMA SelectionFacts ==
  ASSUME assigned \in Assignments, NEW bits, NEW o \in Operations
  PROVE  Selected(WithOperation(bits, o)) = o
<1>1. \A f \in OperationFunctions :
        Line(assigned, f) \in BitsOf(o) <=> (o = 1 /\ f = "M0") \/ (o = 2 /\ f = "M1")
  BY Digits, LinesDiffer DEF BitsOf
<1>2. \A f \in OperationFunctions :
        Line(assigned, f) \in WithOperation(bits, o) <=> Line(assigned, f) \in BitsOf(o)
  BY DEF WithOperation, OperationBits
<1>3. /\ Line(assigned, "M0") \in WithOperation(bits, o) <=> o = 1
      /\ Line(assigned, "M1") \in WithOperation(bits, o) <=> o = 2
      /\ \A f \in {"M2", "MS0", "MS1", "MS2"} :
           Line(assigned, f) \notin WithOperation(bits, o)
  BY <1>1, <1>2 DEF OperationFunctions
<1>4. o \in {0, 1, 2}
  BY DEF Operations
<1> QED
  BY <1>3, <1>4, WeightFacts DEF Selected

\* The register stays a set of bits, and what is written is not NoCache.
LEMMA RegisterType ==
  ASSUME assigned \in Assignments, NEW bits \in SUBSET Bits
  PROVE  /\ bits # NoCache
         /\ \A o \in Operations : WithOperation(bits, o) \in SUBSET Bits
         /\ \A f \in Functions : \A on \in BOOLEAN :
              HasLine(assigned, f) => WithFlag(bits, f, on) \in SUBSET Bits
<1>1. \A f \in OperationFunctions : f \in Functions /\ HasLine(assigned, f)
  BY DEF HasLine, Functions, OperationFunctions
<1>2. \A o \in Operations : BitsOf(o) \subseteq Bits
  BY <1>1, LineIsBit DEF BitsOf
<1>3. -1 \notin Bits
  BY OperationAssumption
<1> QED
  BY <1>2, <1>3, LineIsBit DEF NoCache, WithOperation, WithFlag

-----------------------------------------------------------------------------
(* What is left to do.                                                      *)

Items == Exchanges \cup Conclusions

IsPair(i)     == i.do = "prepared" /\ i.what = "pair"
SpeedWrite(i) == i.do = "data" /\ i.o \in {0, 1} /\ i.field = "speed"
COn(i)        == i.do = "flag" /\ i.f = "C-ON"

\* The order in which the calls do things: the pair counts as prepared right
\* after the operation 0 is selected, and its speeds are not written any more
\* then; the memory of C-ON changes right after the flag.
Shape(s) ==
  \A j \in 1..Len(s) :
    /\ s[j].do = "flag" => s[j].f \notin OperationFunctions /\ HasLine(assigned, s[j].f)
    /\ IsPair(s[j]) =>
         /\ j > 1 => s[j - 1].do = "select"
         /\ \A i \in j..Len(s) : ~ SpeedWrite(s[i])
    /\ s[j].do = "enabled" /\ s[j].on =>
         (j > 1 => COn(s[j - 1]) /\ s[j - 1].on)
    /\ COn(s[j]) /\ ~ s[j].on =>
         j < Len(s) /\ s[j + 1].do = "enabled" /\ ~ s[j + 1].on

\* No call begins with one of these conclusions.
Starts(s) == s # <<>> => ~ IsPair(s[1]) /\ s[1].do # "enabled"

\* Items that none of this is about.
Harmless == {i \in Items :
  /\ i.do \in {"flag", "select", "data", "prepared"}
  /\ i.do = "flag" => i.f \notin OperationFunctions \cup {"C-ON"}
  /\ ~ IsPair(i) /\ ~ SpeedWrite(i)}

DataItems == [do : {"data"}, o : Operations, field : Fields, value : Values]

LEMMA HarmlessShape ==
  ASSUME NEW s \in Seq(Harmless)
  PROVE  /\ s \in Seq(Items) /\ Shape(s) /\ Starts(s)
         /\ \A i \in 1..Len(s) : ~ SpeedWrite(s[i])
<1>1. \A i \in 1..Len(s) : s[i] \in Harmless
  BY ElementOfSeq
<1>2. s \in Seq(Items)
  BY SeqMonotonic DEF Harmless
<1> QED
  BY <1>1, <1>2 DEF Harmless, Shape, Starts, COn, HasLine

LEMMA PairShape ==
  ASSUME NEW w \in Seq(DataItems), NEW t \in Seq(Harmless)
  PROVE  /\ (w \o <<Select(0), Prepared("pair")>>) \o t \in Seq(Items)
         /\ Shape((w \o <<Select(0), Prepared("pair")>>) \o t)
         /\ Starts((w \o <<Select(0), Prepared("pair")>>) \o t)
<1> DEFINE p == <<Select(0), Prepared("pair")>>
           s == (w \o p) \o t
<1>1. /\ DataItems \subseteq Items /\ Harmless \subseteq Items
      /\ Select(0) \in Items /\ Prepared("pair") \in Items
  BY DEF DataItems, Harmless, Items, Exchanges, Conclusions, Select, Prepared, Operations
<1>2. /\ w \in Seq(Items) /\ t \in Seq(Items) /\ p \in Seq(Items)
      /\ Len(p) = 2 /\ p[1] = Select(0) /\ p[2] = Prepared("pair")
  BY <1>1, SeqMonotonic
<1>3. /\ \A i \in 1..Len(w) : w[i] \in DataItems
      /\ \A i \in 1..Len(t) : t[i] \in Harmless
  BY ElementOfSeq
<1>4. Len(w) \in Nat /\ Len(t) \in Nat
  OBVIOUS
<1> HIDE DEF p
<1>5. /\ s \in Seq(Items)
      /\ Len(s) = Len(w) + 2 + Len(t)
      /\ \A i \in 1..Len(s) :
           s[i] = IF i <= Len(w) THEN w[i]
                  ELSE IF i = Len(w) + 1 THEN p[1] ELSE IF i = Len(w) + 2 THEN p[2]
                  ELSE t[i - (Len(w) + 2)]
  <2>1. /\ w \o p \in Seq(Items) /\ Len(w \o p) = Len(w) + Len(p)
        /\ \A i \in 1..(Len(w) + Len(p)) :
             (w \o p)[i] = IF i <= Len(w) THEN w[i] ELSE p[i - Len(w)]
    BY <1>2, ConcatProperties, Zenon
  <2> DEFINE u == w \o p
  <2>a. u \in Seq(Items)
    BY <2>1
  <2> HIDE DEF u
  <2>2. /\ u \o t \in Seq(Items) /\ Len(u \o t) = Len(u) + Len(t)
        /\ \A i \in 1..(Len(u) + Len(t)) :
             (u \o t)[i] = IF i <= Len(u) THEN u[i] ELSE t[i - Len(u)]
    BY <1>2, <2>a, ConcatProperties, Zenon
  <2>3. /\ Len(u) = Len(w) + 2
        /\ \A i \in 1..(Len(w) + 2) : u[i] = IF i <= Len(w) THEN w[i] ELSE p[i - Len(w)]
    BY <1>2, <2>1 DEF u
  <2> DEFINE v == u \o t
  <2>4. s = v
    BY DEF u
  <2> HIDE DEF s, v
  <2>5. /\ v \in Seq(Items) /\ Len(v) = Len(w) + 2 + Len(t)
        /\ \A i \in 1..Len(v) : v[i] = IF i <= Len(w) + 2 THEN u[i] ELSE t[i - (Len(w) + 2)]
    BY <1>4, <2>2, <2>3 DEF v
  <2>6. \A i \in 1..Len(v) :
          v[i] = IF i <= Len(w) THEN w[i]
                 ELSE IF i = Len(w) + 1 THEN p[1] ELSE IF i = Len(w) + 2 THEN p[2]
                 ELSE t[i - (Len(w) + 2)]
    BY <1>4, <2>3, <2>5
  <2> QED
    BY <2>4, <2>5, <2>6
<1> HIDE DEF s
<1>6. /\ \A i \in 1..Len(w) : s[i].do = "data"
      /\ s[Len(w) + 1].do = "select" /\ IsPair(s[Len(w) + 2])
      /\ \A i \in (Len(w) + 3)..Len(s) : s[i] \in Harmless
  <2>1. \A i \in 1..Len(w) : s[i].do = "data"
    BY <1>3, <1>4, <1>5 DEF DataItems
  <2>2. s[Len(w) + 1] = Select(0) /\ s[Len(w) + 2] = Prepared("pair")
    BY <1>2, <1>4, <1>5
  <2>3. \A i \in (Len(w) + 3)..Len(s) : s[i] = t[i - (Len(w) + 2)]
    BY <1>4, <1>5
  <2>4. \A i \in (Len(w) + 3)..Len(s) : i - (Len(w) + 2) \in 1..Len(t)
    BY <1>4, <1>5
  <2> QED
    BY <1>3, <2>1, <2>2, <2>3, <2>4 DEF Select, Prepared, IsPair
<1>7. Shape(s)
  <2> SUFFICES ASSUME NEW j \in 1..Len(s)
               PROVE  /\ s[j].do = "flag" => s[j].f \notin OperationFunctions \cup {"C-ON"}
                      /\ IsPair(s[j]) => j = Len(w) + 2
                      /\ s[j].do # "enabled"
                      /\ j >= Len(w) + 2 => ~ SpeedWrite(s[j])
    BY <1>4, <1>5, <1>6 DEF Shape, COn, HasLine
  <2>1. \/ j \in 1..Len(w) \/ j = Len(w) + 1 \/ j = Len(w) + 2
        \/ j \in (Len(w) + 3)..Len(s)
    BY <1>4, <1>5
  <2> QED
    BY <1>4, <1>6, <2>1 DEF Harmless, IsPair, SpeedWrite
<1>8. Starts(s)
  <2>1. s[1].do \in {"data", "select"}
    BY <1>4, <1>6
  <2> QED
    BY <2>1 DEF Starts, IsPair
<1> QED
  BY <1>5, <1>7, <1>8 DEF s, p

\* What is left after the first item is done.
LEMMA TailFacts ==
  ASSUME todo \in Seq(Items), todo # <<>>, todo' = Tail(todo), assigned' = assigned,
         Shape(todo)
  PROVE  /\ todo' \in Seq(Items) /\ Len(todo) \in Nat \ {0}
         /\ Len(todo') = Len(todo) - 1
         /\ Head(todo) = todo[1] /\ todo[1] \in Items
         /\ \A i \in 1..Len(todo') : todo'[i] = todo[i + 1]
         /\ Shape(todo)'
<1>1. /\ todo' \in Seq(Items) /\ Len(todo) \in Nat \ {0}
      /\ Len(todo') = Len(todo) - 1
      /\ Head(todo) = todo[1] /\ todo[1] \in Items
      /\ \A i \in 1..Len(todo') : todo'[i] = todo[i + 1]
  BY HeadTailProperties
<1>2. Shape(todo)'
  <2> SUFFICES ASSUME NEW j \in 1..Len(todo')
               PROVE  /\ todo'[j].do = "flag" => /\ todo'[j].f \notin OperationFunctions
                                               /\ HasLine(assigned, todo'[j].f)
                      /\ IsPair(todo'[j]) =>
                           /\ j > 1 => todo'[j - 1].do = "select"
                           /\ \A i \in j..Len(todo') : ~ SpeedWrite(todo'[i])
                      /\ todo'[j].do = "enabled" /\ todo'[j].on =>
                           (j > 1 => COn(todo'[j - 1]) /\ todo'[j - 1].on)
                      /\ COn(todo'[j]) /\ ~ todo'[j].on =>
                           /\ j < Len(todo') /\ todo'[j + 1].do = "enabled"
                           /\ ~ todo'[j + 1].on
    BY DEF Shape, HasLine, Assigned, IsPair, SpeedWrite, COn
  <2>1. /\ j + 1 \in 1..Len(todo) /\ todo'[j] = todo[j + 1]
        /\ j > 1 => todo'[j - 1] = todo[j]
        /\ j < Len(todo') => todo'[j + 1] = todo[j + 2]
        /\ \A i \in j..Len(todo') : i + 1 \in (j + 1)..Len(todo) /\ todo'[i] = todo[i + 1]
    BY <1>1
  <2> QED
    BY <1>1, <2>1 DEF Shape
<1> QED
  BY <1>1, <1>2

-----------------------------------------------------------------------------
(* What the calls consist of.                                               *)

RampItems == [do : {"data"}, o : Operations, field : Ramps, value : Rates]

LEMMA ItemTypes ==
  /\ RampItems \subseteq DataItems /\ RampItems \subseteq Harmless
  /\ DataItems \subseteq Items /\ Harmless \subseteq Items
<1>1. /\ Ramps \subseteq Fields /\ Rates \subseteq Values /\ "speed" \notin Ramps
  BY OperationAssumption DEF Fields, Values
<1> QED
  BY <1>1 DEF RampItems, DataItems, Harmless, Items, Exchanges, IsPair, SpeedWrite

LEMMA RampWritesType ==
  ASSUME NEW o \in Operations, NEW ramp \in [Ramps -> Rates]
  PROVE  RampWrites(o, ramp) \in Seq(RampItems)
<1>1. \A k \in Ramps : <<Write(o, k, ramp[k])>> \in Seq(RampItems)
  BY DEF Write, RampItems
<1>2. <<>> \in Seq(RampItems)
  OBVIOUS
<1> DEFINE a == IF "acceleration" \in Ramps
                THEN <<Write(o, "acceleration", ramp["acceleration"])>> ELSE <<>>
           d == IF "deceleration" \in Ramps
                THEN <<Write(o, "deceleration", ramp["deceleration"])>> ELSE <<>>
<1>3. a \in Seq(RampItems) /\ d \in Seq(RampItems)
  BY <1>1, <1>2
<1>4. RampWrites(o, ramp) = a \o d
  BY DEF RampWrites
<1> HIDE DEF a, d
<1> QED
  BY <1>3, <1>4, ConcatProperties

LEMMA PrepareSingleType ==
  ASSUME NEW r \in Runtimes
  PROVE  PrepareSingle(r) \in Seq(Harmless)
<1> DEFINE a == <<Write(2, "form", Incremental), Write(2, "speed", r.speed)>>
           b == RampWrites(2, r.ramp)
           c == <<Prepared("single")>>
<1>1. r.speed \in Values /\ Incremental \in Values /\ r.ramp \in [Ramps -> Rates]
  BY DEF Runtimes, Values
<1>2. a \in Seq(Harmless)
  BY <1>1 DEF Write, Harmless, Items, Exchanges, Operations, Fields, IsPair, SpeedWrite
<1>3. c \in Seq(Harmless)
  BY DEF Prepared, Harmless, Items, Conclusions, IsPair, SpeedWrite
<1>4. b \in Seq(Harmless)
  BY <1>1, RampWritesType, ItemTypes, SeqMonotonic DEF Operations
<1>5. PrepareSingle(r) = IF r.single THEN <<>> ELSE a \o b \o c
  BY DEF PrepareSingle
<1>6. <<>> \in Seq(Harmless)
  OBVIOUS
<1> HIDE DEF a, b, c
<1>7. a \o b \in Seq(Harmless)
  BY <1>2, <1>4, ConcatProperties
<1>8. a \o b \o c \in Seq(Harmless)
  BY <1>3, <1>7, ConcatProperties
<1> QED
  BY <1>5, <1>6, <1>8

\* The pair is prepared at most once, and then whatever the call has to do.
LEMMA PreparePairShape ==
  ASSUME NEW r \in Runtimes, NEW t \in Seq(Harmless)
  PROVE  /\ PreparePair(r) \o t \in Seq(Items) /\ Shape(PreparePair(r) \o t)
         /\ Starts(PreparePair(r) \o t) /\ PreparePair(r) \in Seq(Items)
         /\ r.pair => \A i \in 1..Len(PreparePair(r) \o t) :
                        ~ SpeedWrite((PreparePair(r) \o t)[i])
<1>1. CASE r.pair
  <2>1. PreparePair(r) \o t = t /\ PreparePair(r) \in Seq(Items)
    BY <1>1, ConcatEmptySeq DEF PreparePair
  <2> QED
    BY <1>1, <2>1, HarmlessShape
<1>2. CASE ~ r.pair
  <2> DEFINE a == <<Write(0, "form", Incremental), Write(1, "form", Incremental),
                    Write(0, "speed", r.speed), Write(1, "speed", r.speed)>>
             b == RampWrites(0, r.ramp)
             c == RampWrites(1, r.ramp)
             w == a \o b \o c
             p == <<Select(0), Prepared("pair")>>
  <2>1. r.speed \in Values /\ Incremental \in Values /\ r.ramp \in [Ramps -> Rates]
    BY DEF Runtimes, Values
  <2>2. a \in Seq(DataItems)
    BY <2>1 DEF Write, DataItems, Operations, Fields
  <2>3. b \in Seq(DataItems) /\ c \in Seq(DataItems)
    BY <2>1, RampWritesType, ItemTypes, SeqMonotonic DEF Operations
  <2>4. w \in Seq(DataItems)
    <3> HIDE DEF a, b, c
    <3>1. a \o b \in Seq(DataItems)
      BY <2>2, <2>3, ConcatProperties
    <3> QED
      BY <2>3, <3>1, ConcatProperties
  <2>5. PreparePair(r) = w \o p
    BY <1>2 DEF PreparePair
  <2> HIDE DEF w
  <2>a. w \in Seq(Items) /\ p \in Seq(Items)
    <3>1. Select(0) \in Items /\ Prepared("pair") \in Items
      BY DEF Items, Exchanges, Conclusions, Select, Prepared, Operations
    <3> QED
      BY <2>4, <3>1, ItemTypes, SeqMonotonic
  <2>b. w \o p \in Seq(Items)
    BY <2>a, ConcatProperties, Zenon
  <2>6. (w \o p) \o t \in Seq(Items) /\ Shape((w \o p) \o t) /\ Starts((w \o p) \o t)
    BY <2>4, PairShape
  <2> QED
    BY <1>2, <2>5, <2>6, <2>b
<1> QED
  BY <1>1, <1>2

LEMMA SimpleItems ==
  /\ \A d : Turn(d) \in Seq(Harmless)
  /\ \A f \in {"START", "STOP"} : Pulse(f) \in Seq(Harmless)
  /\ <<Flag("FWD", FALSE), Flag("RVS", FALSE)>> \in Seq(Harmless)
  /\ \A o \in Operations : <<Select(o)>> \in Seq(Harmless)
  /\ \A k \in Ramps : \A v \in Rates : \A o \in Operations :
       Write(o, k, v) \in Harmless
  /\ \A v \in Positions : Write(2, "position", v) \in Harmless
<1>1. \A f \in {"FWD", "RVS", "START", "STOP"} : \A on \in BOOLEAN :
        Flag(f, on) \in Harmless
  <2> SUFFICES ASSUME NEW f \in {"FWD", "RVS", "START", "STOP"}, NEW on \in BOOLEAN
               PROVE  Flag(f, on) \in Harmless
    OBVIOUS
  <2>1. Flag(f, on) \in [do : {"flag"}, f : Functions, on : BOOLEAN]
    BY DEF Flag, Functions
  <2>2. Flag(f, on).do = "flag" /\ Flag(f, on).f = f
    BY DEF Flag
  <2> QED
    BY <2>1, <2>2 DEF Harmless, Items, Exchanges, IsPair, SpeedWrite, OperationFunctions
<1>2. \A o \in Operations : Select(o) \in Harmless
  BY DEF Select, Harmless, Items, Exchanges, IsPair, SpeedWrite
<1>3. \A k \in Ramps : \A v \in Rates : \A o \in Operations :
        Write(o, k, v) \in Harmless
  BY ItemTypes DEF Write, RampItems
<1>4. \A v \in Positions : Write(2, "position", v) \in Harmless
  BY DEF Write, Harmless, Items, Exchanges, Fields, Operations, Values, IsPair, SpeedWrite
<1>5. \A x, y \in Harmless : <<x, y>> \in Seq(Harmless) /\ <<x>> \in Seq(Harmless)
  OBVIOUS
<1>6. \A f \in {"FWD", "RVS", "START", "STOP"} :
        Flag(f, TRUE) \in Harmless /\ Flag(f, FALSE) \in Harmless
  BY <1>1, Zenon
<1>7. \A f \in {"START", "STOP"} : Pulse(f) \in Seq(Harmless)
  BY <1>5, <1>6, Zenon DEF Pulse
<1>8. /\ <<Flag("FWD", FALSE), Flag("RVS", FALSE)>> \in Seq(Harmless)
      /\ <<Flag("RVS", FALSE), Flag("FWD", TRUE)>> \in Seq(Harmless)
      /\ <<Flag("FWD", FALSE), Flag("RVS", TRUE)>> \in Seq(Harmless)
  BY <1>5, <1>6, Zenon
<1>9. \A d : Turn(d) \in Seq(Harmless)
  BY <1>8 DEF Turn
<1> QED
  BY <1>2, <1>3, <1>4, <1>5, <1>7, <1>8, <1>9, Zenon

-----------------------------------------------------------------------------
(* The inductive invariant.                                                 *)

ReadsFirst(s) ==
  \E j \in 1..Len(s) :
    s[j].do = "read" /\ \A i \in 1..(j - 1) : s[i].do \notin {"flag", "select"}

CallerInv ==
  /\ caller = "none" <=> todo = <<>>
  /\ ~ bus => todo = <<>> /\ ~ runtime.pair
  /\ caller \in {"command", "guarded"} => \A i \in 1..Len(todo) : todo[i].do # "select"
  /\ caller = "initialize" => todo[Len(todo)].do = "started"

\* The cached register is there before anything is written with it, and true
\* unless an answer was lost.
CacheInv ==
  /\ bus /\ rawCache = NoCache => ReadsFirst(todo) /\ caller \in {"loop", "initialize"}
  /\ ~ astray /\ rawCache # NoCache => rawCache = register /\ opCache = Selected(register)
  /\ Selected(register) \in Operations
  /\ rawCache # NoCache => Selected(rawCache) \in Operations

\* Once the pair is prepared the cached operation is the one that is selected,
\* lost answers or not, and only the first thing to do may write the speed of
\* one of the two, which is the other one.
PairInv ==
  /\ runtime.pair =>
       /\ opCache = Selected(register)
       /\ rawCache # NoCache => Selected(rawCache) = opCache
       /\ \A i \in 1..Len(todo) : SpeedWrite(todo[i]) => i = 1 /\ todo[1].o # opCache
  /\ todo # <<>> /\ IsPair(todo[1]) =>
       rawCache # NoCache /\ opCache = Selected(register) /\ Selected(rawCache) = opCache

\* As long as the parameters are not in effect, initialize will see to it.
SettingsInv ==
  bus /\ settings # "inEffect" =>
    /\ caller = "initialize"
    /\ \E j \in 1..Len(todo) :
         /\ todo[j].do = "settings" /\ todo[j].step = "execute"
         /\ settings = "unknown" =>
              \E i \in 1..(j - 1) : todo[i].do = "settings" /\ todo[i].step = "write"

\* The memory of C-ON is true, or about to be set right.
EnabledInv ==
  bus /\ ~ astray /\ Assigned(assigned, "C-ON") =>
    /\ caller # "initialize" /\ runtime.enabled =>
         \/ Line(assigned, "C-ON") \in register
         \/ todo # <<>> /\ todo[1].do = "enabled" /\ ~ todo[1].on
    /\ todo # <<>> /\ todo[1].do = "enabled" /\ todo[1].on =>
         Line(assigned, "C-ON") \in register

DataInv ==
  /\ OperationTypeOK /\ Shape(todo) /\ CallerInv /\ CacheInv
  /\ PairInv /\ SettingsInv /\ EnabledInv

-----------------------------------------------------------------------------
LEMMA FreshType == FreshRuntime \in Runtimes /\ ~ FreshRuntime.pair
<1>1. [k \in Ramps |-> StartRate] \in [Ramps -> Rates]
  BY OperationAssumption
<1> QED
  BY <1>1, OperationAssumption DEF FreshRuntime, Runtimes, Magnitudes

LEMMA DataInit == Init => DataInv
<1> SUFFICES ASSUME Init PROVE DataInv
  OBVIOUS
<1>1. \A k \in Fields : Factory[k] \in Values
  BY DEF Values
<1>2. Factory \in [Fields -> Values]
  BY <1>1, OperationAssumption
<1>3. data \in [Operations -> [Fields -> Values]]
  BY <1>2 DEF Init
<1>4. bus \in BOOLEAN /\ astray \in BOOLEAN
  BY DEF Init
<1>5. OperationTypeOK
  <2>1. /\ assigned \in Assignments /\ register \in SUBSET Bits
        /\ settings \in {"unknown", "written", "inEffect"}
        /\ rawCache \in (SUBSET Bits) \cup {NoCache} /\ opCache \in Operations
        /\ caller \in {"none", "loop", "command", "guarded", "initialize"}
        /\ todo \in Seq(Exchanges \cup Conclusions)
    BY DEF Init, Operations
  <2>2. runtime \in Runtimes
    BY FreshType DEF Init
  <2> QED
    BY <1>3, <1>4, <2>1, <2>2, Zenon DEF OperationTypeOK
<1>6. Shape(todo) /\ CallerInv /\ SettingsInv /\ EnabledInv
  BY FreshType DEF Init, Shape, CallerInv, SettingsInv, EnabledInv
<1>7. CacheInv /\ PairInv
  <2>1. Selected(register) = 0
    BY DEF Init, Selected
  <2> QED
    BY <2>1, FreshType DEF Init, CacheInv, PairInv, Operations
<1> QED
  BY <1>5, <1>6, <1>7 DEF DataInv

\* A call begins.
LEMMA CallKeeps ==
  ASSUME DataInv, NEW who \in {"loop", "command", "guarded"}, NEW r \in Runtimes,
         NEW items \in Seq(Items), Call(who, r, items), Shape(items), Starts(items),
         r.pair = runtime.pair, r.enabled = runtime.enabled,
         \/ UNCHANGED rawCache
         \/ rawCache' = NoCache /\ ReadsFirst(items) /\ who = "loop",
         r.pair => \A i \in 1..Len(items) :
                     SpeedWrite(items[i]) => i = 1 /\ items[1].o # opCache,
         who # "loop" => \A i \in 1..Len(items) : items[i].do # "select"
  PROVE  DataInv'
<1>1. /\ todo = <<>> /\ bus /\ todo' = items /\ runtime' = r
      /\ caller' = IF items = <<>> THEN "none" ELSE who
      /\ UNCHANGED <<assigned, register, data, settings, bus, opCache, astray>>
  BY DEF Call, Idle, driver
<1>2. rawCache # NoCache
  BY <1>1 DEF DataInv, CacheInv, ReadsFirst
<1>3. OperationTypeOK'
  <2>1. caller' \in {"none", "loop", "command", "guarded", "initialize"}
    BY <1>1
  <2>2. rawCache' \in (SUBSET Bits) \cup {NoCache}
    <3>1. rawCache \in (SUBSET Bits) \cup {NoCache}
      BY DEF DataInv, OperationTypeOK
    <3>2. rawCache' = rawCache \/ rawCache' = NoCache
      OBVIOUS
    <3> QED
      BY <3>1, <3>2
  <2>3. /\ assigned' = assigned /\ register' = register /\ data' = data
        /\ settings' = settings /\ bus' = bus /\ opCache' = opCache /\ astray' = astray
        /\ runtime' \in Runtimes /\ todo' \in Seq(Exchanges \cup Conclusions)
    BY <1>1 DEF Items
  <2>4. OperationTypeOK
    BY DEF DataInv
  <2>5. /\ assigned' \in Assignments /\ register' \subseteq Bits
        /\ data' \in [Operations -> [Fields -> Values]]
        /\ settings' \in {"unknown", "written", "inEffect"} /\ opCache' \in Operations
    BY <2>3, <2>4 DEF OperationTypeOK
  <2>6. bus' \in BOOLEAN /\ astray' \in BOOLEAN
    BY <2>3, <2>4, Zenon DEF OperationTypeOK
  <2> QED
    BY <2>1, <2>2, <2>3, <2>5, <2>6, Zenon DEF OperationTypeOK
<1>4. Shape(todo)'
  BY <1>1 DEF Shape, HasLine, Assigned
<1>5. CallerInv'
  BY <1>1 DEF DataInv, CallerInv
<1>6. Selected(register)' = Selected(register) /\ Selected(rawCache') = Selected(rawCache)'
  BY <1>1 DEF Selected
<1>7. CacheInv'
  <2>1. CASE UNCHANGED rawCache
    BY <1>1, <1>2, <2>1 DEF DataInv, CacheInv, Selected
  <2>2. CASE rawCache' = NoCache /\ ReadsFirst(items) /\ who = "loop"
    <3>1. items # <<>> /\ ReadsFirst(todo)'
      BY <1>1, <2>2 DEF ReadsFirst
    <3> QED
      BY <1>1, <2>2, <3>1 DEF DataInv, CacheInv, Selected
  <2> QED
    BY <2>1, <2>2
<1>8. PairInv'
  BY <1>1, <1>2 DEF DataInv, PairInv, Selected, Starts, IsPair, SpeedWrite
<1>9. SettingsInv' /\ EnabledInv'
  BY <1>1 DEF DataInv, CallerInv, SettingsInv, EnabledInv, Starts, Assigned, Line
<1> QED
  BY <1>3, <1>4, <1>5, <1>7, <1>8, <1>9 DEF DataInv

LEMMA PreparePairAlone ==
  ASSUME NEW r \in Runtimes
  PROVE  /\ PreparePair(r) \in Seq(Items) /\ Shape(PreparePair(r)) /\ Starts(PreparePair(r))
         /\ r.pair => PreparePair(r) = <<>>
<1>1. <<>> \in Seq(Harmless)
  OBVIOUS
<1>2. PreparePair(r) \in Seq(Items)
  BY <1>1, PreparePairShape
<1>3. PreparePair(r) \o <<>> = PreparePair(r)
  BY <1>2, ConcatEmptySeq
<1>4. Shape(PreparePair(r) \o <<>>) /\ Starts(PreparePair(r) \o <<>>)
  BY <1>1, PreparePairShape
<1> QED
  BY <1>2, <1>3, <1>4 DEF PreparePair

\* A call of the control loop all of whose items are harmless.
LEMMA HarmlessCall ==
  ASSUME DataInv, NEW r \in Runtimes, NEW items \in Seq(Harmless),
         Call("loop", r, items), UNCHANGED rawCache,
         r.pair = runtime.pair, r.enabled = runtime.enabled
  PROVE  DataInv'
BY HarmlessShape, CallKeeps

LEMMA SetModeKeeps ==
  ASSUME DataInv, NEW mode \in {"Speed", "Position"}, SetMode(mode)
  PROVE  DataInv'
<1> DEFINE r == [runtime EXCEPT !.mode = mode]
<1>1. r \in Runtimes /\ r.pair = runtime.pair /\ r.enabled = runtime.enabled
  BY DEF DataInv, OperationTypeOK, Runtimes
<1>2. /\ Call("loop", r, IF mode = "Speed" THEN PreparePair(r) ELSE PrepareSingle(r))
      /\ UNCHANGED rawCache
  BY DEF SetMode
<1> HIDE DEF r
<1>3. CASE mode = "Speed"
  BY <1>1, <1>2, <1>3, PreparePairAlone, CallKeeps
<1>4. CASE mode # "Speed"
  BY <1>1, <1>2, <1>4, PrepareSingleType, HarmlessCall
<1> QED
  BY <1>3, <1>4

\* The operation that gets the new speed is not the cached one.
LEMMA UpdateBufferedFacts ==
  ASSUME NEW v \in Values
  PROVE  /\ UpdateBuffered(v) \in Seq(Items) /\ Shape(UpdateBuffered(v))
         /\ Starts(UpdateBuffered(v))
         /\ \A i \in 1..Len(UpdateBuffered(v)) :
              SpeedWrite(UpdateBuffered(v)[i]) => i = 1 /\ UpdateBuffered(v)[1].o # opCache
<1> DEFINE next == IF opCache = 0 THEN 1 ELSE 0
           a == Write(next, "speed", v)
           b == Select(next)
<1>1. /\ a \in Items /\ a.do = "data" /\ a.o = next /\ next # opCache
      /\ b \in Items /\ b.do = "select"
  BY DEF Write, Select, Items, Exchanges, Fields, Operations
<1>2. UpdateBuffered(v) = <<a, b>>
  BY DEF UpdateBuffered
<1> HIDE DEF a, b
<1> QED
  BY <1>1, <1>2 DEF Shape, Starts, IsPair, SpeedWrite, COn

LEMMA SetSpeedKeeps ==
  ASSUME DataInv, NEW v \in Speeds, SetSpeed(v)
  PROVE  DataInv'
<1> DEFINE r == [runtime EXCEPT !.speed = Abs(v)]
<1>1. /\ r \in Runtimes /\ r.pair = runtime.pair /\ r.enabled = runtime.enabled
      /\ r.speed \in Values
  BY DEF DataInv, OperationTypeOK, Runtimes, Magnitudes, Values
<1>2. /\ Call("loop", r, IF r.mode = "Position" THEN <<>>
                        ELSE IF r.pair THEN UpdateBuffered(r.speed) ELSE PreparePair(r))
      /\ UNCHANGED rawCache
  BY DEF SetSpeed
<1> HIDE DEF r
<1>3. CASE r.mode = "Position"
  <2>1. <<>> \in Seq(Harmless)
    OBVIOUS
  <2> QED
    BY <1>1, <1>2, <1>3, <2>1, HarmlessCall
<1>4. CASE r.mode # "Position" /\ r.pair
  BY <1>1, <1>2, <1>4, UpdateBufferedFacts, CallKeeps
<1>5. CASE r.mode # "Position" /\ ~ r.pair
  BY <1>1, <1>2, <1>5, PreparePairAlone, CallKeeps
<1> QED
  BY <1>3, <1>4, <1>5

LEMMA SetRampKeeps ==
  ASSUME DataInv, NEW k \in Ramps, NEW v \in Rates, SetRamp(k, v)
  PROVE  DataInv'
<1> DEFINE r == [runtime EXCEPT !.ramp[k] = v]
<1>1. r \in Runtimes /\ r.pair = runtime.pair /\ r.enabled = runtime.enabled
  BY DEF DataInv, OperationTypeOK, Runtimes
<1>2. Call("loop", r, RampUpdate(k, v)) /\ UNCHANGED rawCache
  BY DEF SetRamp
<1>3. RampUpdate(k, v) \in Seq(Harmless)
  <2> DEFINE a == IF runtime.pair THEN <<Write(0, k, v), Write(1, k, v)>> ELSE <<>>
             b == IF runtime.single THEN <<Write(2, k, v)>> ELSE <<>>
  <2>1. \A o \in Operations : Write(o, k, v) \in Harmless
    BY SimpleItems
  <2>2. a \in Seq(Harmless) /\ b \in Seq(Harmless)
    BY <2>1 DEF Operations
  <2>3. RampUpdate(k, v) = a \o b
    BY DEF RampUpdate
  <2> HIDE DEF a, b
  <2> QED
    BY <2>2, <2>3, ConcatProperties
<1> HIDE DEF r
<1> QED
  BY <1>1, <1>2, <1>3, HarmlessCall

LEMMA SetPositionKeeps ==
  ASSUME DataInv, NEW p \in Positions, SetPosition(p)
  PROVE  DataInv'
<1> DEFINE r == [runtime EXCEPT !.position = p]
           a == PrepareSingle(runtime)
           b == <<Write(2, "position", p)>>
<1>1. /\ r \in Runtimes /\ r.pair = runtime.pair /\ r.enabled = runtime.enabled
      /\ runtime \in Runtimes
  BY DEF DataInv, OperationTypeOK, Runtimes
<1>2. /\ Call("loop", r, IF runtime.mode = "Speed" THEN <<>> ELSE a \o b)
      /\ UNCHANGED rawCache
  BY DEF SetPosition
<1>3. a \in Seq(Harmless) /\ b \in Seq(Harmless)
  BY <1>1, PrepareSingleType, SimpleItems
<1>4. <<>> \in Seq(Harmless)
  OBVIOUS
<1> HIDE DEF r, a, b
<1>5. a \o b \in Seq(Harmless)
  BY <1>3, ConcatProperties
<1> QED
  BY <1>1, <1>2, <1>4, <1>5, HarmlessCall

LEMMA SetDirectionKeeps ==
  ASSUME DataInv, NEW d \in {"Forward", "Reverse"}, SetDirection(d)
  PROVE  DataInv'
<1> DEFINE r == [runtime EXCEPT !.direction = d]
<1>1. r \in Runtimes /\ r.pair = runtime.pair /\ r.enabled = runtime.enabled
  BY DEF DataInv, OperationTypeOK, Runtimes
<1>2. Call("loop", r, Turn(d)) /\ UNCHANGED rawCache
  BY DEF SetDirection
<1> HIDE DEF r
<1> QED
  BY <1>1, <1>2, SimpleItems, HarmlessCall

LEMMA StartMovementKeeps == DataInv /\ StartMovement => DataInv'
<1> SUFFICES ASSUME DataInv, StartMovement PROVE DataInv'
  OBVIOUS
<1> DEFINE a == PrepareSingle(runtime)
           b == <<Write(2, "position", runtime.position), Select(2)>>
           c == Pulse("START")
           t == Turn(runtime.direction)
           q == PreparePair(runtime) \o t
<1>1. runtime \in Runtimes /\ runtime.position \in Positions
  BY DEF DataInv, OperationTypeOK, Runtimes
<1>2. /\ Call("loop", runtime, IF runtime.mode = "Speed" THEN q ELSE a \o b \o c)
      /\ UNCHANGED rawCache
  BY DEF StartMovement
<1>3. /\ a \in Seq(Harmless) /\ b \in Seq(Harmless) /\ c \in Seq(Harmless)
      /\ t \in Seq(Harmless)
  <2>1. Write(2, "position", runtime.position) \in Harmless /\ Select(2) \in Harmless
    <3>1. Select(2) \in Harmless
      BY DEF Select, Harmless, Items, Exchanges, Operations, IsPair, SpeedWrite
    <3> QED
      BY <1>1, <3>1, SimpleItems
  <2> QED
    BY <1>1, <2>1, PrepareSingleType, SimpleItems
<1>4. CASE runtime.mode = "Speed"
  <2>1. /\ q \in Seq(Items) /\ Shape(q) /\ Starts(q)
        /\ runtime.pair => \A i \in 1..Len(q) : ~ SpeedWrite(q[i])
    <3> HIDE DEF t
    <3> QED
      BY <1>1, <1>3, PreparePairShape
  <2> HIDE DEF q
  <2> QED
    BY <1>1, <1>2, <1>4, <2>1, CallKeeps
<1>5. CASE runtime.mode # "Speed"
  <2> HIDE DEF a, b, c
  <2>1. a \o b \in Seq(Harmless)
    BY <1>3, ConcatProperties
  <2>2. a \o b \o c \in Seq(Harmless)
    BY <1>3, <2>1, ConcatProperties
  <2> QED
    BY <1>1, <1>2, <1>5, <2>2, HarmlessCall
<1> QED
  BY <1>4, <1>5

LEMMA StopMovementKeeps == DataInv /\ StopMovement => DataInv'
<1> SUFFICES ASSUME DataInv, StopMovement PROVE DataInv'
  OBVIOUS
<1> DEFINE items == IF runtime.mode = "Speed"
                    THEN <<Flag("FWD", FALSE), Flag("RVS", FALSE)>> ELSE Pulse("STOP")
<1>1. runtime \in Runtimes
  BY DEF DataInv, OperationTypeOK
<1>2. Call("loop", runtime, items) /\ UNCHANGED rawCache
  BY DEF StopMovement
<1>3. items \in Seq(Harmless)
  BY SimpleItems
<1> HIDE DEF items
<1> QED
  BY <1>1, <1>2, <1>3, HarmlessCall

\* What is done with C-ON: the flag, then the memory of it.
LEMMA EnableItems ==
  ASSUME NEW on \in BOOLEAN, HasLine(assigned, "C-ON")
  PROVE  /\ <<Flag("C-ON", on), Enabled(on)>> \in Seq(Items)
         /\ Shape(<<Flag("C-ON", on), Enabled(on)>>)
         /\ Starts(<<Flag("C-ON", on), Enabled(on)>>)
<1> DEFINE a == Flag("C-ON", on)
           b == Enabled(on)
<1>1. a \in [do : {"flag"}, f : Functions, on : BOOLEAN] /\ b \in [do : {"enabled"}, on : BOOLEAN]
  BY DEF Flag, Enabled, Functions
<1>2. a.do = "flag" /\ a.f = "C-ON" /\ b.do = "enabled"
  BY DEF Flag, Enabled
<1>3. (a.on <=> on) /\ (b.on <=> on)
  BY DEF Flag, Enabled
<1>4. a \in Items /\ b \in Items
  BY <1>1 DEF Items, Exchanges, Conclusions
<1> HIDE DEF a, b
<1>5. <<a, b>> \in Seq(Items)
  BY <1>4
<1>6. Shape(<<a, b>>) /\ Starts(<<a, b>>)
  BY <1>2, <1>3 DEF Shape, Starts, IsPair, COn, OperationFunctions
<1> QED
  BY <1>5, <1>6 DEF a, b

LEMMA SetEnabledKeeps ==
  ASSUME DataInv, NEW on \in BOOLEAN, SetEnabled(on)
  PROVE  DataInv'
<1> DEFINE items == <<Flag("C-ON", on), Enabled(on)>>
<1>1. runtime \in Runtimes
  BY DEF DataInv, OperationTypeOK
<1>2. Call("command", runtime, items) /\ UNCHANGED rawCache /\ HasLine(assigned, "C-ON")
  BY DEF SetEnabled, HasLine
<1>3. items \in Seq(Items) /\ Shape(items) /\ Starts(items)
  BY <1>2, EnableItems
<1>4. \A i \in 1..Len(items) : items[i].do # "select" /\ ~ SpeedWrite(items[i])
  BY DEF Flag, Enabled, SpeedWrite
<1> HIDE DEF items
<1> QED
  BY <1>1, <1>2, <1>3, <1>4, CallKeeps

\* Items of the commands that have to do with neither register nor data.
Quiet == {Read, Other, Settings("write"), Settings("execute"), Started}

LEMMA QuietShape ==
  ASSUME NEW s \in Seq(Quiet)
  PROVE  /\ s \in Seq(Items) /\ Shape(s) /\ Starts(s)
         /\ \A i \in 1..Len(s) : s[i].do # "select" /\ ~ SpeedWrite(s[i])
<1>1. Quiet \subseteq Items
  BY DEF Quiet, Items, Exchanges, Conclusions, Read, Other, Settings, Started
<1>2. \A i \in Quiet : i.do \in {"read", "other", "settings", "started"}
  BY DEF Quiet, Read, Other, Settings, Started
<1>3. \A i \in 1..Len(s) : s[i].do \in {"read", "other", "settings", "started"}
  BY <1>2, ElementOfSeq
<1>4. s \in Seq(Items)
  BY <1>1, SeqMonotonic
<1> QED
  BY <1>3, <1>4 DEF Shape, Starts, IsPair, SpeedWrite, COn

LEMMA GuardedKeeps ==
  ASSUME DataInv, Diagnose \/ (\E alarm \in BOOLEAN : ResetAlarm(alarm))
  PROVE  DataInv'
<1>1. runtime \in Runtimes
  BY DEF DataInv, OperationTypeOK
<1>2. \A items \in Seq(Quiet) : Call("guarded", runtime, items) /\ UNCHANGED rawCache => DataInv'
  BY <1>1, QuietShape, CallKeeps
<1>3. Read \in Quiet /\ Other \in Quiet /\ Settings("write") \in Quiet /\ Settings("execute") \in Quiet
  BY DEF Quiet
<1>4. CASE Diagnose
  <2> DEFINE a == <<Read, Other>>
             b == <<Other>>
  <2>1. a \in Seq(Quiet) /\ b \in Seq(Quiet)
    BY <1>3
  <2>2. Call("guarded", runtime, a \o b) /\ UNCHANGED rawCache
    BY <1>4 DEF Diagnose, StatusReads, CodeReads
  <2> HIDE DEF a, b
  <2>3. a \o b \in Seq(Quiet)
    BY <2>1, ConcatProperties
  <2> QED
    BY <1>2, <2>2, <2>3
<1>5. ASSUME NEW alarm \in BOOLEAN, ResetAlarm(alarm) PROVE DataInv'
  <2> DEFINE a == <<Other>>
             b == IF alarm THEN <<Other, Other>> ELSE <<>>
             c == <<Settings("write"), Settings("execute")>>
  <2>1. a \in Seq(Quiet) /\ b \in Seq(Quiet) /\ c \in Seq(Quiet)
    BY <1>3
  <2>2. Call("guarded", runtime, a \o b \o c) /\ UNCHANGED rawCache
    BY <1>5 DEF ResetAlarm, ApplyParameters
  <2> HIDE DEF a, b, c
  <2>3. a \o b \in Seq(Quiet)
    BY <2>1, ConcatProperties
  <2>4. a \o b \o c \in Seq(Quiet)
    BY <2>1, <2>3, ConcatProperties
  <2> QED
    BY <1>2, <2>2, <2>4
<1> QED
  BY <1>4, <1>5

\* Sequences put together are what they look like.
LEMMA Elementwise ==
  ASSUME NEW S, NEW u \in Seq(S), NEW v \in Seq(S), NEW w \in Seq(S),
         Len(w) = Len(u) + Len(v),
         \A i \in 1..Len(u) : w[i] = u[i],
         \A i \in 1..Len(v) : w[Len(u) + i] = v[i]
  PROVE  u \o v = w
<1>1. /\ u \o v \in Seq(S) /\ Len(u \o v) = Len(u) + Len(v)
      /\ \A i \in 1..(Len(u) + Len(v)) :
           (u \o v)[i] = IF i <= Len(u) THEN u[i] ELSE v[i - Len(u)]
  BY ConcatProperties, Zenon
<1>2. Len(u) \in Nat /\ Len(v) \in Nat
  OBVIOUS
<1> DEFINE x == u \o v
<1> HIDE DEF x
<1>3. \A i \in 1..Len(w) : x[i] = w[i]
  <2> SUFFICES ASSUME NEW i \in 1..Len(w) PROVE x[i] = w[i]
    OBVIOUS
  <2>1. CASE i <= Len(u)
    BY <1>1, <1>2, <2>1 DEF x
  <2>2. CASE ~(i <= Len(u))
    <3>1. i - Len(u) \in 1..Len(v) /\ Len(u) + (i - Len(u)) = i
      BY <1>2, <2>2
    <3>2. x[i] = v[i - Len(u)]
      BY <1>1, <1>2, <2>2 DEF x
    <3> QED
      BY <3>1, <3>2
  <2> QED
    BY <2>1, <2>2
<1>4. x \in Seq(S) /\ Len(x) = Len(w)
  BY <1>1 DEF x
<1>5. x = w
  BY <1>3, <1>4, SeqEqual
<1> QED
  BY <1>5 DEF x

LEMMA Joined ==
  ASSUME NEW a, NEW b, NEW c
  PROVE  /\ <<a>> \o <<>> = <<a>> /\ <<a>> \o <<b>> = <<a, b>>
         /\ <<a, b>> \o <<c>> = <<a, b, c>>
<1> DEFINE S == {a, b, c}
<1>1. <<a>> \o <<>> = <<a>>
  <2> DEFINE u == <<a>>
             v == <<>>
             w == <<a>>
  <2>1. /\ u \in Seq(S) /\ v \in Seq(S) /\ w \in Seq(S)
        /\ Len(w) = Len(u) + Len(v)
        /\ \A i \in 1..Len(u) : w[i] = u[i]
        /\ \A i \in 1..Len(v) : w[Len(u) + i] = v[i]
    OBVIOUS
  <2> HIDE DEF S, u, v, w
  <2>2. u \o v = w
    BY <2>1, Elementwise, Zenon
  <2> QED
    BY <2>2 DEF u, v, w
<1>2. <<a>> \o <<b>> = <<a, b>>
  <2> DEFINE u == <<a>>
             v == <<b>>
             w == <<a, b>>
  <2>1. /\ u \in Seq(S) /\ v \in Seq(S) /\ w \in Seq(S)
        /\ Len(w) = Len(u) + Len(v)
        /\ \A i \in 1..Len(u) : w[i] = u[i]
        /\ \A i \in 1..Len(v) : w[Len(u) + i] = v[i]
    <3>1. Len(u) = 1 /\ Len(v) = 1 /\ w[1] = u[1] /\ w[2] = v[1] /\ Len(w) = 2
      OBVIOUS
    <3>2. u \in Seq(S) /\ v \in Seq(S) /\ w \in Seq(S)
      OBVIOUS
    <3> HIDE DEF u, v, w, S
    <3> QED
      BY <3>1, <3>2
  <2> HIDE DEF S, u, v, w
  <2>2. u \o v = w
    BY <2>1, Elementwise, Zenon
  <2> QED
    BY <2>2 DEF u, v, w
<1>3. <<a, b>> \o <<c>> = <<a, b, c>>
  <2> DEFINE u == <<a, b>>
             v == <<c>>
             w == <<a, b, c>>
  <2>1. /\ u \in Seq(S) /\ v \in Seq(S) /\ w \in Seq(S)
        /\ Len(w) = Len(u) + Len(v)
        /\ \A i \in 1..Len(u) : w[i] = u[i]
        /\ \A i \in 1..Len(v) : w[Len(u) + i] = v[i]
    OBVIOUS
  <2> HIDE DEF S, u, v, w
  <2>2. u \o v = w
    BY <2>1, Elementwise, Zenon
  <2> QED
    BY <2>2 DEF u, v, w
<1> QED
  BY <1>1, <1>2, <1>3

LEMMA JoinedSix ==
  ASSUME NEW a, NEW b, NEW c, NEW d, NEW e, NEW f
  PROVE  <<a, b>> \o <<c, d>> \o <<e, f>> = <<a, b, c, d, e, f>>
<1> DEFINE S == {a, b, c, d, e, f}
<1>1. <<a, b>> \o <<c, d>> = <<a, b, c, d>>
  <2> DEFINE u == <<a, b>>
             v == <<c, d>>
             w == <<a, b, c, d>>
  <2>1. /\ u \in Seq(S) /\ v \in Seq(S) /\ w \in Seq(S)
        /\ Len(w) = Len(u) + Len(v)
        /\ \A i \in 1..Len(u) : w[i] = u[i]
        /\ \A i \in 1..Len(v) : w[Len(u) + i] = v[i]
    OBVIOUS
  <2> HIDE DEF S, u, v, w
  <2>2. u \o v = w
    BY <2>1, Elementwise, Zenon
  <2> QED
    BY <2>2 DEF u, v, w
<1>2. <<a, b, c, d>> \o <<e, f>> = <<a, b, c, d, e, f>>
  <2> DEFINE u == <<a, b, c, d>>
             v == <<e, f>>
             w == <<a, b, c, d, e, f>>
  <2>1. /\ u \in Seq(S) /\ v \in Seq(S) /\ w \in Seq(S)
        /\ Len(w) = Len(u) + Len(v)
        /\ \A i \in 1..Len(u) : w[i] = u[i]
        /\ \A i \in 1..Len(v) : w[Len(u) + i] = v[i]
    OBVIOUS
  <2> HIDE DEF S, u, v, w
  <2>2. u \o v = w
    BY <2>1, Elementwise, Zenon
  <2> QED
    BY <2>2 DEF u, v, w
<1> QED
  BY <1>1, <1>2

LEMMA OnAlarmClearedKeeps == DataInv /\ OnAlarmCleared => DataInv'
<1> SUFFICES ASSUME DataInv, OnAlarmCleared PROVE DataInv'
  OBVIOUS
<1> DEFINE f == Flag("C-ON", FALSE)
           e == Enabled(FALSE)
           items == IF Assigned(assigned, "C-ON") THEN <<Read, f, e>> ELSE <<Read, e>>
<1>1. runtime \in Runtimes
  BY DEF DataInv, OperationTypeOK
<1>2. Call("loop", runtime, items) /\ rawCache' = NoCache
  <2>1. /\ <<Read>> \o <<>> = <<Read>> /\ <<Read>> \o <<e>> = <<Read, e>>
        /\ <<Read>> \o <<f>> = <<Read, f>> /\ <<Read, f>> \o <<e>> = <<Read, f, e>>
    <3> HIDE DEF f, e
    <3> QED
      BY Joined
  <2>2. <<Read>> \o (IF Assigned(assigned, "C-ON") THEN <<f>> ELSE <<>>) \o <<e>> = items
    <3>1. CASE Assigned(assigned, "C-ON")
      <4> HIDE DEF f, e
      <4> QED
        BY <2>1, <3>1
    <3>2. CASE ~ Assigned(assigned, "C-ON")
      <4> HIDE DEF f, e
      <4> QED
        BY <2>1, <3>2
    <3> QED
      BY <3>1, <3>2
  <2>3. /\ Call("loop", runtime,
               <<Read>> \o (IF Assigned(assigned, "C-ON") THEN <<f>> ELSE <<>>) \o <<e>>)
        /\ rawCache' = NoCache
    BY DEF OnAlarmCleared
  <2> QED
    BY <2>2, <2>3
<1>3. /\ f \in [do : {"flag"}, f : Functions, on : BOOLEAN]
      /\ e \in [do : {"enabled"}, on : BOOLEAN] /\ Read \in [do : {"read", "other"}]
  BY DEF Flag, Enabled, Functions, Read
<1>4. /\ f.do = "flag" /\ f.f = "C-ON" /\ e.do = "enabled" /\ Read.do = "read"
      /\ ~ f.on /\ ~ e.on
  BY DEF Flag, Enabled, Read
<1>5. f \in Items /\ e \in Items /\ Read \in Items
  BY <1>3 DEF Items, Exchanges, Conclusions
<1> HIDE DEF f, e
<1>6. items \in Seq(Items)
  BY <1>5
<1>7. Shape(items) /\ Starts(items) /\ ReadsFirst(items)
  <2>1. CASE Assigned(assigned, "C-ON")
    BY <1>4, <2>1 DEF Shape, Starts, IsPair, SpeedWrite, COn, ReadsFirst, HasLine,
                       OperationFunctions
  <2>2. CASE ~ Assigned(assigned, "C-ON")
    BY <1>4, <2>2 DEF Shape, Starts, IsPair, SpeedWrite, COn, ReadsFirst, HasLine
  <2> QED
    BY <2>1, <2>2
<1>8. \A i \in 1..Len(items) : ~ SpeedWrite(items[i])
  BY <1>4 DEF SpeedWrite
<1> HIDE DEF items
<1> QED
  BY <1>1, <1>2, <1>6, <1>7, <1>8, CallKeeps

\* initialize leaves nothing behind of what was before, the registers of the
\* driver apart.
LEMMA InitializeKeeps == DataInv /\ Initialize => DataInv'
<1> SUFFICES ASSUME DataInv, Initialize PROVE DataInv'
  OBVIOUS
<1> DEFINE w == Settings("write")
           e == Settings("execute")
           items == <<Other, Read, w, e, Read, Started>>
<1>1. /\ bus' = TRUE /\ runtime' = FreshRuntime /\ rawCache' = NoCache /\ opCache' = 0
      /\ todo' = items /\ caller' = "initialize"
      /\ UNCHANGED <<assigned, register, data, settings, astray>>
  <2>1. <<Other, Read>> \o <<w, e>> \o <<Read, Started>> = items
    <3> HIDE DEF w, e
    <3> QED
      BY JoinedSix
  <2>2. todo' = <<Other, Read>> \o <<w, e>> \o <<Read, Started>>
    BY DEF Initialize, MotorInitialize, ApplyParameters
  <2> QED
    BY <2>1, <2>2 DEF Initialize, driver
<1>2. /\ Other.do = "other" /\ Read.do = "read" /\ Started.do = "started"
      /\ w.do = "settings" /\ w.step = "write" /\ e.do = "settings" /\ e.step = "execute"
  BY DEF Settings, Other, Read, Started
<1>3. /\ Other \in Quiet /\ Read \in Quiet /\ Started \in Quiet /\ w \in Quiet /\ e \in Quiet
  BY DEF Quiet
<1> HIDE DEF w, e
<1>4. /\ items \in Seq(Quiet) /\ items # <<>> /\ Len(items) = 6
      /\ items[1] = Other /\ items[2] = Read /\ items[3] = w /\ items[4] = e
      /\ items[6] = Started
  BY <1>3
<1> HIDE DEF items
<1>5. /\ items \in Seq(Items) /\ Shape(items) /\ Starts(items)
  BY <1>4, QuietShape
<1>6. OperationTypeOK'
  <2>1. OperationTypeOK
    BY DEF DataInv
  <2>2. /\ assigned' \in Assignments /\ register' \subseteq Bits
        /\ data' \in [Operations -> [Fields -> Values]]
        /\ settings' \in {"unknown", "written", "inEffect"} /\ opCache' \in Operations
        /\ runtime' \in Runtimes
        /\ caller' \in {"none", "loop", "command", "guarded", "initialize"}
        /\ rawCache' \in (SUBSET Bits) \cup {NoCache}
        /\ todo' \in Seq(Exchanges \cup Conclusions)
    BY <1>1, <1>5, <2>1, FreshType DEF OperationTypeOK, Operations, Items
  <2>3. astray' = astray /\ bus' = TRUE
    BY <1>1
  <2>4. bus' \in BOOLEAN /\ astray' \in BOOLEAN
    BY <2>1, <2>3, Zenon DEF OperationTypeOK
  <2> QED
    BY <2>2, <2>4, Zenon DEF OperationTypeOK
<1>7. Shape(todo)'
  BY <1>1, <1>5 DEF Shape, HasLine, Assigned
<1>8. CallerInv'
  BY <1>1, <1>2, <1>4 DEF CallerInv
<1>9. CacheInv'
  <2>1. ReadsFirst(todo)'
    BY <1>1, <1>2, <1>4 DEF ReadsFirst
  <2>2. Selected(register)' = Selected(register) /\ Selected(register) \in Operations
    BY <1>1 DEF DataInv, CacheInv, Selected
  <2> QED
    BY <1>1, <2>1, <2>2 DEF CacheInv
<1>10. PairInv'
  BY <1>1, <1>4, <1>5, FreshType DEF PairInv, Starts, IsPair
<1>11. SettingsInv'
  BY <1>1, <1>2, <1>4 DEF SettingsInv
<1>12. EnabledInv'
  BY <1>1, <1>2, <1>4 DEF EnabledInv
<1> QED
  BY <1>6, <1>7, <1>8, <1>9, <1>10, <1>11, <1>12 DEF DataInv

-----------------------------------------------------------------------------
(* The exchanges.                                                           *)

LEMMA ProceedFacts ==
  ASSUME DataInv, Proceed, todo # <<>>, UNCHANGED <<assigned, bus>>
  PROVE  /\ bus /\ todo' \in Seq(Items)
         /\ Len(todo) \in Nat \ {0} /\ Len(todo') = Len(todo) - 1
         /\ Head(todo) = todo[1] /\ todo[1] \in Items
         /\ \A i \in 1..Len(todo') : todo'[i] = todo[i + 1]
         /\ Shape(todo)' /\ CallerInv'
         /\ caller' \in {"none", "loop", "command", "guarded", "initialize"}
         /\ caller # "initialize" => caller' # "initialize"
         /\ caller = "initialize" =>
              \/ caller' = "initialize"
              \/ Len(todo) = 1 /\ todo[1].do = "started"
         /\ Len(todo) > 1 => caller' = caller
<1>1. /\ todo \in Seq(Items) /\ Shape(todo) /\ todo' = Tail(todo) /\ assigned' = assigned
      /\ caller' = IF Len(todo) = 1 THEN "none" ELSE caller
  BY DEF DataInv, OperationTypeOK, Items, Proceed
<1>2. /\ todo' \in Seq(Items) /\ Len(todo) \in Nat \ {0}
      /\ Len(todo') = Len(todo) - 1
      /\ Head(todo) = todo[1] /\ todo[1] \in Items
      /\ \A i \in 1..Len(todo') : todo'[i] = todo[i + 1]
      /\ Shape(todo)'
  BY <1>1, TailFacts
<1>3. bus /\ caller # "none"
  BY DEF DataInv, CallerInv
<1>4. bus' = bus
  OBVIOUS
<1>5. caller \in {"none", "loop", "command", "guarded", "initialize"}
  BY DEF DataInv, OperationTypeOK
<1>6. CallerInv
  BY DEF DataInv
<1>7. caller = "initialize" => todo[Len(todo)].do = "started"
  BY <1>6 DEF CallerInv
<1>8. todo' = <<>> <=> Len(todo) = 1
  BY <1>2
<1>9. CallerInv'
  <2>1. caller' \in {"command", "guarded"} => \A i \in 1..Len(todo') : todo'[i].do # "select"
    BY <1>1, <1>2, <1>6 DEF CallerInv
  <2>2. caller' = "initialize" => todo'[Len(todo')].do = "started"
    BY <1>1, <1>2, <1>7
  <2>3. caller' = "none" <=> todo' = <<>>
    BY <1>1, <1>3, <1>8
  <2> QED
    BY <1>3, <1>4, <2>1, <2>2, <2>3 DEF CallerInv
<1> QED
  BY <1>1, <1>2, <1>3, <1>5, <1>7, <1>9

\* What is left to be read is left, unless it is being read.
LEMMA ReadsLater ==
  ASSUME DataInv, Proceed, todo # <<>>, UNCHANGED <<assigned, bus>>, ReadsFirst(todo)
  PROVE  /\ todo[1].do \notin {"flag", "select"}
         /\ todo[1].do = "read" \/ (ReadsFirst(todo)' /\ caller' = caller)
<1>1. PICK j \in 1..Len(todo) :
        todo[j].do = "read" /\ \A i \in 1..(j - 1) : todo[i].do \notin {"flag", "select"}
  BY DEF ReadsFirst
<1>2. /\ Len(todo) \in Nat /\ Len(todo') = Len(todo) - 1
      /\ \A i \in 1..Len(todo') : todo'[i] = todo[i + 1]
      /\ Len(todo) > 1 => caller' = caller
  BY ProceedFacts
<1>3. CASE j = 1
  BY <1>1, <1>3
<1>4. CASE j # 1
  <2>1. /\ j - 1 \in 1..Len(todo') /\ todo'[j - 1].do = "read"
        /\ \A i \in 1..((j - 1) - 1) : todo'[i].do \notin {"flag", "select"}
    BY <1>1, <1>2, <1>4
  <2> QED
    BY <1>1, <1>2, <1>4, <2>1 DEF ReadsFirst
<1> QED
  BY <1>3, <1>4

\* What is not about the parameters leaves them to come.
LEMMA SettingsLater ==
  ASSUME DataInv, Proceed, todo # <<>>, UNCHANGED <<assigned, bus, settings>>,
         todo[1].do # "settings"
  PROVE  SettingsInv'
<1> SUFFICES ASSUME bus', settings' # "inEffect"
             PROVE  /\ caller' = "initialize"
                    /\ \E j \in 1..Len(todo') :
                         /\ todo'[j].do = "settings" /\ todo'[j].step = "execute"
                         /\ settings' = "unknown" =>
                              \E i \in 1..(j - 1) :
                                todo'[i].do = "settings" /\ todo'[i].step = "write"
  BY DEF SettingsInv
<1>1. caller = "initialize"
  BY DEF DataInv, SettingsInv
<1>2. PICK j \in 1..Len(todo) :
        /\ todo[j].do = "settings" /\ todo[j].step = "execute"
        /\ settings = "unknown" =>
             \E i \in 1..(j - 1) : todo[i].do = "settings" /\ todo[i].step = "write"
  BY DEF DataInv, SettingsInv
<1>3. /\ Len(todo) \in Nat /\ Len(todo') = Len(todo) - 1
      /\ \A i \in 1..Len(todo') : todo'[i] = todo[i + 1]
      /\ Len(todo) > 1 => caller' = caller
  BY ProceedFacts
<1>4. j > 1 /\ j - 1 \in 1..Len(todo') /\ todo'[j - 1] = todo[j]
  BY <1>2, <1>3
<1>5. ASSUME NEW i \in 1..(j - 1), todo[i].do = "settings"
      PROVE  i - 1 \in 1..((j - 1) - 1) /\ todo'[i - 1] = todo[i]
  BY <1>2, <1>3, <1>4, <1>5
<1> QED
  BY <1>1, <1>2, <1>3, <1>4, <1>5

LEMMA CacheLater ==
  ASSUME DataInv, Proceed, todo # <<>>, todo[1].do # "read",
         UNCHANGED <<assigned, bus, register, rawCache, opCache, astray>>
  PROVE  CacheInv'
<1>1. CacheInv
  BY DEF DataInv
<1>2. bus /\ rawCache = NoCache => ReadsFirst(todo)' /\ caller' \in {"loop", "initialize"}
  BY <1>1, ReadsLater DEF CacheInv
<1>3. /\ register' = register /\ rawCache' = rawCache /\ opCache' = opCache
      /\ bus' = bus /\ astray' = astray /\ assigned' = assigned
  OBVIOUS
<1>4. Selected(register)' = Selected(register) /\ Selected(rawCache)' = Selected(rawCache)
  BY <1>3 DEF Selected
<1>5. ReadsFirst(todo') <=> ReadsFirst(todo)'
  BY DEF ReadsFirst
<1> QED
  BY <1>1, <1>2, <1>3, <1>4, <1>5 DEF CacheInv

LEMMA PairLater ==
  ASSUME DataInv, Proceed, todo # <<>>, todo[1].do # "select",
         UNCHANGED <<assigned, bus, register, rawCache, opCache>>,
         runtime'.pair => runtime.pair
  PROVE  PairInv'
<1>1. /\ Len(todo) \in Nat /\ Len(todo') = Len(todo) - 1 /\ todo' \in Seq(Items)
      /\ \A i \in 1..Len(todo') : todo'[i] = todo[i + 1]
  BY ProceedFacts
<1>2. Selected(register)' = Selected(register) /\ Selected(rawCache)' = Selected(rawCache)
  BY DEF Selected
<1>3. PairInv /\ Shape(todo)
  BY DEF DataInv
<1>4. runtime.pair => \A i \in 1..Len(todo') : ~ SpeedWrite(todo'[i])
  <2> SUFFICES ASSUME runtime.pair, NEW i \in 1..Len(todo') PROVE ~ SpeedWrite(todo'[i])
    OBVIOUS
  <2>1. i + 1 \in 1..Len(todo) /\ i + 1 # 1 /\ todo'[i] = todo[i + 1]
    BY <1>1
  <2> QED
    BY <1>3, <2>1 DEF PairInv
<1>5. todo' # <<>> => ~ IsPair(todo'[1])
  <2> SUFFICES ASSUME todo' # <<>>, IsPair(todo'[1]) PROVE FALSE
    OBVIOUS
  <2>1. 2 \in 1..Len(todo) /\ todo'[1] = todo[2]
    BY <1>1
  <2>2. todo[2 - 1].do = "select"
    BY <1>3, <2>1 DEF Shape
  <2> QED
    BY <2>2
<1> QED
  BY <1>2, <1>3, <1>4, <1>5 DEF PairInv, SpeedWrite, IsPair

LEMMA EnabledLater ==
  ASSUME DataInv, Proceed, todo # <<>>, todo[1].do \notin {"enabled", "flag", "started"},
         UNCHANGED <<assigned, bus, register, astray>>, runtime'.enabled = runtime.enabled
  PROVE  EnabledInv'
<1>1. /\ Len(todo) \in Nat /\ Len(todo') = Len(todo) - 1 /\ todo' \in Seq(Items)
      /\ \A i \in 1..Len(todo') : todo'[i] = todo[i + 1]
      /\ caller = "initialize" => caller' = "initialize"
  BY ProceedFacts
<1>2. EnabledInv /\ Shape(todo)
  BY DEF DataInv
<1>3. Assigned(assigned, "C-ON")' = Assigned(assigned, "C-ON")
      /\ Line(assigned, "C-ON")' = Line(assigned, "C-ON")
  BY DEF Assigned, Line
<1>4. todo' # <<>> => ~ (todo'[1].do = "enabled" /\ todo'[1].on)
  <2> SUFFICES ASSUME todo' # <<>>, todo'[1].do = "enabled", todo'[1].on PROVE FALSE
    OBVIOUS
  <2>1. 2 \in 1..Len(todo) /\ todo'[1] = todo[2]
    BY <1>1
  <2>2. COn(todo[2 - 1])
    BY <1>2, <2>1 DEF Shape
  <2> QED
    BY <2>2 DEF COn
<1> QED
  BY <1>1, <1>2, <1>3, <1>4 DEF EnabledInv

\* The driver's registers and the parameters.
LEMMA OtherKeeps == DataInv /\ OtherExchange => DataInv'
<1> SUFFICES ASSUME DataInv, OtherExchange PROVE DataInv'
  OBVIOUS
<1>1. /\ todo # <<>> /\ Head(todo).do = "other" /\ Proceed
      /\ UNCHANGED <<assigned, register, data, settings, bus, runtime, rawCache, opCache, astray>>
  BY DEF OtherExchange, Doing, driver, memory
<1>2. /\ todo[1].do = "other" /\ todo' \in Seq(Exchanges \cup Conclusions)
      /\ Shape(todo)' /\ CallerInv'
      /\ caller' \in {"none", "loop", "command", "guarded", "initialize"}
  BY <1>1, ProceedFacts DEF Items
<1>3. OperationTypeOK'
  <2>1. OperationTypeOK
    BY DEF DataInv
  <2> QED
    BY <1>1, <1>2, <2>1, Zenon DEF OperationTypeOK
<1>4. CacheInv' /\ PairInv' /\ SettingsInv' /\ EnabledInv'
  BY <1>1, <1>2, CacheLater, PairLater, SettingsLater, EnabledLater
<1> QED
  BY <1>2, <1>3, <1>4 DEF DataInv

LEMMA WriteDataKeeps == DataInv /\ WriteData => DataInv'
<1> SUFFICES ASSUME DataInv, WriteData PROVE DataInv'
  OBVIOUS
<1>1. /\ todo # <<>> /\ Head(todo).do = "data" /\ Proceed
      /\ data' = [data EXCEPT ![Head(todo).o][Head(todo).field] = Head(todo).value]
      /\ UNCHANGED <<assigned, register, settings, bus, runtime, rawCache, opCache, astray>>
  BY DEF WriteData, Doing, memory
<1>2. /\ todo[1].do = "data" /\ todo' \in Seq(Exchanges \cup Conclusions)
      /\ Shape(todo)' /\ CallerInv' /\ Head(todo) \in Items
      /\ caller' \in {"none", "loop", "command", "guarded", "initialize"}
  BY <1>1, ProceedFacts DEF Items
<1>3. OperationTypeOK'
  <2>1. OperationTypeOK
    BY DEF DataInv
  <2>2. data \in [Operations -> [Fields -> Values]]
    BY <2>1 DEF OperationTypeOK
  <2>3. /\ Head(todo).o \in Operations /\ Head(todo).field \in Fields
        /\ Head(todo).value \in Values
    BY <1>1, <1>2 DEF Items, Exchanges, Conclusions
  <2>4. data' \in [Operations -> [Fields -> Values]]
    BY <1>1, <2>2, <2>3
  <2> QED
    BY <1>1, <1>2, <2>1, <2>4, Zenon DEF OperationTypeOK
<1>4. CacheInv' /\ PairInv' /\ SettingsInv' /\ EnabledInv'
  BY <1>1, <1>2, CacheLater, PairLater, SettingsLater, EnabledLater
<1> QED
  BY <1>2, <1>3, <1>4 DEF DataInv

LEMMA WriteSettingsKeeps == DataInv /\ WriteSettings => DataInv'
<1> SUFFICES ASSUME DataInv, WriteSettings PROVE DataInv'
  OBVIOUS
<1>1. /\ todo # <<>> /\ Head(todo).do = "settings" /\ Proceed
      /\ settings' = Executed(Head(todo).step)
      /\ UNCHANGED <<assigned, register, data, bus, runtime, rawCache, opCache, astray>>
  BY DEF WriteSettings, Doing, memory
<1>2. /\ todo[1].do = "settings" /\ todo' \in Seq(Exchanges \cup Conclusions)
      /\ Shape(todo)' /\ CallerInv' /\ Head(todo) = todo[1] /\ Head(todo) \in Items
      /\ caller' \in {"none", "loop", "command", "guarded", "initialize"}
      /\ Len(todo) \in Nat /\ Len(todo') = Len(todo) - 1
      /\ \A i \in 1..Len(todo') : todo'[i] = todo[i + 1]
      /\ Len(todo) > 1 => caller' = caller
  BY <1>1, ProceedFacts DEF Items
<1>3. settings \in {"unknown", "written", "inEffect"}
  BY DEF DataInv, OperationTypeOK
<1>4. OperationTypeOK'
  <2>1. OperationTypeOK
    BY DEF DataInv
  <2>2. settings' \in {"unknown", "written", "inEffect"}
    BY <1>1, <1>3 DEF Executed
  <2> QED
    BY <1>1, <1>2, <2>1, <2>2, Zenon DEF OperationTypeOK
<1>5. CacheInv' /\ PairInv' /\ EnabledInv'
  BY <1>1, <1>2, CacheLater, PairLater, EnabledLater
<1>6. SettingsInv'
  <2> SUFFICES ASSUME bus', settings' # "inEffect"
               PROVE  /\ caller' = "initialize"
                      /\ \E j \in 1..Len(todo') :
                           /\ todo'[j].do = "settings" /\ todo'[j].step = "execute"
                           /\ settings' = "unknown" =>
                                \E i \in 1..(j - 1) :
                                  todo'[i].do = "settings" /\ todo'[i].step = "write"
    BY DEF SettingsInv
  <2>1. bus /\ settings # "inEffect"
    BY <1>1 DEF Executed
  <2>2. PICK j \in 1..Len(todo) :
          /\ caller = "initialize"
          /\ todo[j].do = "settings" /\ todo[j].step = "execute"
          /\ settings = "unknown" =>
               \E i \in 1..(j - 1) : todo[i].do = "settings" /\ todo[i].step = "write"
    BY <2>1 DEF DataInv, SettingsInv
  <2>3. CASE settings = "unknown" /\ todo[1].step = "write"
    <3>1. settings' = "written"
      BY <1>1, <1>2, <2>3 DEF Executed
    <3>2. j - 1 \in 1..Len(todo') /\ todo'[j - 1] = todo[j] /\ caller' = caller
      BY <1>2, <2>2, <2>3
    <3> QED
      BY <2>2, <3>1, <3>2
  <2>4. CASE settings = "unknown" /\ todo[1].step # "write"
    <3>1. settings' = "unknown"
      BY <1>1, <1>2, <2>4 DEF Executed
    <3>2. PICK i \in 1..(j - 1) : todo[i].do = "settings" /\ todo[i].step = "write"
      BY <2>2, <2>4
    <3>3. i # 1
      BY <2>4, <3>2
    <3>4. /\ j - 1 \in 1..Len(todo') /\ todo'[j - 1] = todo[j] /\ caller' = caller
          /\ i - 1 \in 1..((j - 1) - 1) /\ todo'[i - 1] = todo[i]
      BY <1>2, <3>2, <3>3
    <3> QED
      BY <2>2, <3>2, <3>4
  <2>5. CASE settings = "written"
    <3>1. todo[1].step # "execute" /\ settings' = "written"
      BY <1>1, <1>2, <2>5 DEF Executed
    <3>2. j # 1
      BY <2>2, <3>1
    <3>3. j - 1 \in 1..Len(todo') /\ todo'[j - 1] = todo[j] /\ caller' = caller
      BY <1>2, <3>2
    <3> QED
      BY <2>2, <3>1, <3>3
  <2> QED
    BY <1>3, <2>1, <2>3, <2>4, <2>5
<1> QED
  BY <1>2, <1>4, <1>5, <1>6 DEF DataInv

\* The input register.

LEMMA CacheThere ==
  ASSUME DataInv, todo # <<>>, Head(todo).do \in {"flag", "select"}
  PROVE  /\ rawCache # NoCache /\ rawCache \in SUBSET Bits
         /\ NewRegister(Head(todo)) \in SUBSET Bits /\ NewRegister(Head(todo)) # NoCache
         /\ Selected(NewRegister(Head(todo))) \in Operations
         /\ Head(todo).do = "flag" =>
              Selected(NewRegister(Head(todo))) = Selected(rawCache)
<1>1. /\ todo \in Seq(Items) /\ assigned \in Assignments /\ Shape(todo) /\ bus
      /\ rawCache \in (SUBSET Bits) \cup {NoCache}
  BY DEF DataInv, OperationTypeOK, Items, CallerInv
<1>2. Head(todo) = todo[1] /\ todo[1] \in Items /\ Len(todo) \in Nat \ {0}
  BY <1>1
<1>3. ~ ReadsFirst(todo)
  BY <1>2 DEF ReadsFirst
<1>4. rawCache # NoCache /\ rawCache \in SUBSET Bits
  BY <1>1, <1>3 DEF DataInv, CacheInv
<1>5. Selected(rawCache) \in Operations
  BY <1>4 DEF DataInv, CacheInv
<1>6. CASE todo[1].do = "flag"
  <2>1. /\ todo[1].f \in Functions \ OperationFunctions /\ todo[1].on \in BOOLEAN
        /\ HasLine(assigned, todo[1].f)
    <3>1. todo[1] \in [do : {"flag"}, f : Functions, on : BOOLEAN]
      BY <1>2, <1>6 DEF Items, Exchanges, Conclusions
    <3>2. todo[1].on \in BOOLEAN
      BY <3>1, Zenon
    <3> QED
      BY <1>1, <1>2, <1>6, <3>1, <3>2 DEF Shape
  <2>2. NewRegister(Head(todo)) = WithFlag(rawCache, todo[1].f, todo[1].on)
    BY <1>2, <1>6 DEF NewRegister
  <2>3. Selected(WithFlag(rawCache, todo[1].f, todo[1].on)) = Selected(rawCache)
    BY <1>1, <2>1, FlagKeepsOperation
  <2>4. WithFlag(rawCache, todo[1].f, todo[1].on) \in SUBSET Bits
    BY <1>1, <1>4, <2>1, RegisterType
  <2> QED
    BY <1>1, <1>4, <1>5, <2>2, <2>3, <2>4, RegisterType
<1>7. CASE todo[1].do = "select"
  <2>1. todo[1].o \in Operations
    BY <1>2, <1>7 DEF Items, Exchanges, Conclusions
  <2>2. NewRegister(Head(todo)) = WithOperation(rawCache, todo[1].o)
    BY <1>2, <1>7 DEF NewRegister
  <2>3. WithOperation(rawCache, todo[1].o) \in SUBSET Bits
    BY <1>1, <1>4, <2>1, RegisterType
  <2> QED
    BY <1>1, <1>2, <1>4, <1>7, <2>1, <2>2, <2>3, RegisterType, SelectionFacts
<1> QED
  BY <1>2, <1>6, <1>7

LEMMA NoSpeedLater ==
  ASSUME DataInv, Proceed, todo # <<>>, UNCHANGED <<assigned, bus>>, runtime.pair
  PROVE  \A i \in 1..Len(todo') : ~ SpeedWrite(todo'[i])
<1> SUFFICES ASSUME NEW i \in 1..Len(todo') PROVE ~ SpeedWrite(todo'[i])
  OBVIOUS
<1>1. i + 1 \in 1..Len(todo) /\ i + 1 # 1 /\ todo'[i] = todo[i + 1]
  BY ProceedFacts
<1> QED
  BY <1>1 DEF DataInv, PairInv

\* What comes second was said by Shape.
LEMMA SecondItem ==
  ASSUME DataInv, Proceed, todo # <<>>, UNCHANGED <<assigned, bus>>
  PROVE  /\ todo' # <<>> /\ todo'[1].do = "enabled" /\ todo'[1].on =>
              COn(todo[1]) /\ todo[1].on
         /\ todo' # <<>> /\ IsPair(todo'[1]) => todo[1].do = "select"
         /\ COn(todo[1]) /\ ~ todo[1].on =>
              todo' # <<>> /\ todo'[1].do = "enabled" /\ ~ todo'[1].on
<1>1. /\ Len(todo) \in Nat \ {0} /\ Len(todo') = Len(todo) - 1 /\ todo' \in Seq(Items)
      /\ \A i \in 1..Len(todo') : todo'[i] = todo[i + 1]
  BY ProceedFacts
<1>2. Shape(todo)
  BY DEF DataInv
<1>3. ASSUME todo' # <<>> PROVE 2 \in 1..Len(todo) /\ todo'[1] = todo[2]
  BY <1>1, <1>3
<1>4. ASSUME todo' # <<>>
      PROVE  /\ todo'[1].do = "enabled" /\ todo'[1].on => COn(todo[1]) /\ todo[1].on
             /\ IsPair(todo'[1]) => todo[1].do = "select"
  <2>1. 2 \in 1..Len(todo) /\ todo'[1] = todo[2] /\ 2 - 1 = 1
    BY <1>3, <1>4
  <2>2. /\ IsPair(todo[2]) => todo[1].do = "select"
        /\ todo[2].do = "enabled" /\ todo[2].on => COn(todo[1]) /\ todo[1].on
    BY <1>2, <2>1 DEF Shape
  <2> QED
    BY <2>1, <2>2
<1>5. ASSUME COn(todo[1]), ~ todo[1].on
      PROVE  todo' # <<>> /\ todo'[1].do = "enabled" /\ ~ todo'[1].on
  <2>1. 1 < Len(todo) /\ todo[2].do = "enabled" /\ ~ todo[2].on
    BY <1>1, <1>2, <1>5 DEF Shape
  <2>2. todo' # <<>> /\ todo'[1] = todo[2]
    BY <1>1, <2>1
  <2> QED
    BY <2>1, <2>2
<1> QED
  BY <1>4, <1>5

\* What happens to the bit of C-ON.
LEMMA COnBit ==
  ASSUME DataInv, todo # <<>>, Head(todo).do \in {"flag", "select"},
         Assigned(assigned, "C-ON")
  PROVE  LET l == Line(assigned, "C-ON") IN
         /\ COn(Head(todo)) /\ Head(todo).on => l \in NewRegister(Head(todo))
         /\ ~ COn(Head(todo)) => (l \in NewRegister(Head(todo)) <=> l \in rawCache)
<1> DEFINE l == Line(assigned, "C-ON")
           i == Head(todo)
<1>1. /\ todo \in Seq(Items) /\ assigned \in Assignments /\ Shape(todo)
  BY DEF DataInv, OperationTypeOK, Items
<1>2. i = todo[1] /\ i \in Items /\ 1 \in 1..Len(todo)
  BY <1>1
<1>3. HasLine(assigned, "C-ON") /\ "C-ON" \in Functions \ OperationFunctions
  BY DEF HasLine, Functions, OperationFunctions
<1>4. CASE i.do = "flag"
  <2>1. i.f \in Functions \ OperationFunctions
    BY <1>1, <1>2, <1>4 DEF Items, Exchanges, Conclusions, Shape
  <2>2. i.f # "C-ON" => Line(assigned, i.f) # l
    BY <1>1, <1>3, <2>1, LinesDiffer
  <2>3. NewRegister(i) = WithFlag(rawCache, i.f, i.on)
    BY <1>4 DEF NewRegister
  <2> HIDE DEF l, i
  <2> QED
    BY <1>4, <2>2, <2>3 DEF WithFlag, COn, l, i
<1>5. CASE i.do = "select"
  <2>1. NewRegister(i) = WithOperation(rawCache, i.o)
    BY <1>5 DEF NewRegister
  <2>2. l \notin OperationBits
    BY <1>1, <1>3, LinesDiffer
  <2>3. BitsOf(i.o) \subseteq OperationBits
    BY DEF BitsOf, OperationBits
  <2> QED
    BY <1>5, <2>1, <2>2, <2>3 DEF WithOperation, COn
<1> QED
  BY <1>4, <1>5

LEMMA WriteInputKeeps == DataInv /\ WriteInput => DataInv'
<1> SUFFICES ASSUME DataInv, WriteInput PROVE DataInv'
  OBVIOUS
<1> DEFINE new == NewRegister(Head(todo))
<1>1. /\ todo # <<>> /\ Head(todo).do \in {"flag", "select"} /\ Proceed
      /\ register' = new /\ rawCache' = new /\ opCache' = Selected(new)
      /\ UNCHANGED <<assigned, data, settings, bus, runtime, astray>>
  BY DEF WriteInput, Doing
<1>2. /\ rawCache # NoCache /\ new \in SUBSET Bits /\ new # NoCache
      /\ Selected(new) \in Operations
  BY <1>1, CacheThere
<1>3. /\ Head(todo) = todo[1] /\ todo' \in Seq(Exchanges \cup Conclusions) /\ bus
      /\ Shape(todo)' /\ CallerInv'
      /\ caller' \in {"none", "loop", "command", "guarded", "initialize"}
      /\ caller = "initialize" => caller' = "initialize"
  BY <1>1, ProceedFacts DEF Items
<1>4. /\ Assigned(assigned, "C-ON") =>
           LET l == Line(assigned, "C-ON") IN
           /\ COn(todo[1]) /\ todo[1].on => l \in new
           /\ ~ COn(todo[1]) => (l \in new <=> l \in rawCache)
  BY <1>1, <1>3, COnBit
<1> HIDE DEF new
<1>5. OperationTypeOK'
  <2>1. OperationTypeOK
    BY DEF DataInv
  <2>2. /\ register' \subseteq Bits /\ rawCache' \in (SUBSET Bits) \cup {NoCache}
        /\ opCache' \in Operations
    BY <1>1, <1>2
  <2> QED
    BY <1>1, <1>3, <2>1, <2>2, Zenon DEF OperationTypeOK
<1>6. Selected(register)' = Selected(new) /\ Selected(rawCache)' = Selected(new)
  BY <1>1 DEF Selected
<1>7. CacheInv'
  BY <1>1, <1>2, <1>6 DEF CacheInv
<1>8. PairInv'
  <2>1. runtime.pair => \A i \in 1..Len(todo') : ~ SpeedWrite(todo'[i])
    BY <1>1, NoSpeedLater
  <2> QED
    BY <1>1, <1>2, <1>6, <2>1 DEF PairInv, SpeedWrite
<1>9. SettingsInv'
  BY <1>1, <1>3, SettingsLater
<1>10. EnabledInv'
  <2> SUFFICES ASSUME ~ astray, Assigned(assigned, "C-ON")
               PROVE  LET l == Line(assigned, "C-ON") IN
                      /\ caller' # "initialize" /\ runtime.enabled =>
                           \/ l \in new
                           \/ todo' # <<>> /\ todo'[1].do = "enabled" /\ ~ todo'[1].on
                      /\ todo' # <<>> /\ todo'[1].do = "enabled" /\ todo'[1].on => l \in new
    BY <1>1 DEF EnabledInv, Assigned, Line
  <2> DEFINE l == Line(assigned, "C-ON")
  <2>1. /\ l \in register <=> l \in rawCache
        /\ caller # "initialize" /\ runtime.enabled => l \in register
    BY <1>1, <1>2, <1>3 DEF DataInv, CacheInv, EnabledInv
  <2>2. CASE COn(todo[1]) /\ todo[1].on
    BY <1>4, <2>2
  <2>3. CASE COn(todo[1]) /\ ~ todo[1].on
    BY <1>1, <2>3, SecondItem
  <2>4. CASE ~ COn(todo[1])
    <3>1. ~ (todo' # <<>> /\ todo'[1].do = "enabled" /\ todo'[1].on)
      BY <1>1, <2>4, SecondItem
    <3> QED
      BY <1>3, <1>4, <2>1, <2>4, <3>1
  <2> QED
    BY <2>2, <2>3, <2>4
<1> QED
  BY <1>3, <1>5, <1>7, <1>8, <1>9, <1>10 DEF DataInv

LEMMA ReadInputKeeps == DataInv /\ ReadInput => DataInv'
<1> SUFFICES ASSUME DataInv, ReadInput PROVE DataInv'
  OBVIOUS
<1>1. /\ todo # <<>> /\ Head(todo).do = "read" /\ Proceed
      /\ rawCache' = register /\ opCache' = Selected(register)
      /\ UNCHANGED <<assigned, register, data, settings, bus, runtime>>
  BY DEF ReadInput, Doing, driver
<1>2. /\ Head(todo) = todo[1] /\ todo[1].do = "read"
      /\ todo' \in Seq(Exchanges \cup Conclusions)
      /\ Shape(todo)' /\ CallerInv'
      /\ caller' \in {"none", "loop", "command", "guarded", "initialize"}
      /\ caller = "initialize" => caller' = "initialize"
  BY <1>1, ProceedFacts DEF Items
<1>3. /\ register \subseteq Bits /\ register # NoCache /\ Selected(register) \in Operations
  <2>1. register \in SUBSET Bits /\ assigned \in Assignments
    BY DEF DataInv, OperationTypeOK
  <2> QED
    BY <2>1, RegisterType DEF DataInv, CacheInv
<1>4. OperationTypeOK'
  <2>1. OperationTypeOK
    BY DEF DataInv
  <2>2. rawCache' \in (SUBSET Bits) \cup {NoCache} /\ opCache' \in Operations
    BY <1>1, <1>3
  <2>3. astray' \in BOOLEAN
    BY Zenon DEF ReadInput
  <2> QED
    BY <1>1, <1>2, <2>1, <2>2, <2>3, Zenon DEF OperationTypeOK
<1>5. Selected(register)' = Selected(register) /\ Selected(rawCache)' = Selected(register)
  BY <1>1 DEF Selected
<1>6. CacheInv'
  BY <1>1, <1>3, <1>5 DEF CacheInv
<1>7. PairInv'
  <2>1. runtime.pair => \A i \in 1..Len(todo') : ~ SpeedWrite(todo'[i])
    BY <1>1, NoSpeedLater
  <2> QED
    BY <1>1, <1>3, <1>5, <2>1 DEF PairInv, SpeedWrite
<1>8. SettingsInv'
  BY <1>1, <1>2, SettingsLater
<1>9. EnabledInv'
  <2>1. CASE caller = "initialize"
    <3>1. ~ (todo' # <<>> /\ todo'[1].do = "enabled" /\ todo'[1].on)
      BY <1>1, <1>2, SecondItem DEF COn
    <3> QED
      BY <1>2, <2>1, <3>1 DEF EnabledInv
  <2>2. CASE caller # "initialize"
    <3>1. astray \in BOOLEAN
      BY Zenon DEF DataInv, OperationTypeOK
    <3>2. astray' = astray
      BY <2>2, <3>1, Zenon DEF ReadInput
    <3> QED
      BY <1>1, <1>2, <3>2, EnabledLater
  <2> QED
    BY <2>1, <2>2
<1> QED
  BY <1>2, <1>4, <1>6, <1>7, <1>8, <1>9 DEF DataInv

-----------------------------------------------------------------------------
(* The ends of the calls, and the failures.                                 *)

LEMMA ConcludeKeeps ==
  ASSUME DataInv, NEW alarm \in BOOLEAN, Conclude(alarm)
  PROVE  DataInv'
<1> DEFINE i == todo[1]
<1>1. /\ todo # <<>> /\ Head(todo).do \in {"prepared", "enabled", "started"} /\ Proceed
      /\ UNCHANGED <<assigned, register, data, settings, bus, rawCache, opCache, astray>>
  BY DEF Conclude, Doing, driver
<1>2. /\ Head(todo) = i /\ i \in Items
      /\ todo' \in Seq(Exchanges \cup Conclusions) /\ bus
      /\ Shape(todo)' /\ CallerInv'
      /\ caller' \in {"none", "loop", "command", "guarded", "initialize"}
      /\ caller = "initialize" => caller' = "initialize" \/ i.do = "started"
  BY <1>1, ProceedFacts DEF Items
<1>3. /\ runtime \in Runtimes /\ assigned \in Assignments
      /\ PairInv /\ Shape(todo) /\ EnabledInv /\ CacheInv
  BY DEF DataInv, OperationTypeOK
<1>4. /\ IsPair(i) => runtime' = [runtime EXCEPT !.pair = TRUE]
      /\ i.do = "prepared" /\ ~ IsPair(i) => runtime' = [runtime EXCEPT !.single = TRUE]
      /\ i.do = "enabled" => runtime' = [runtime EXCEPT !.enabled = i.on]
      /\ i.do = "started" => runtime' = [runtime EXCEPT !.enabled = InitiallyEnabled(alarm)]
  <2>1. i.do = "prepared" => i.what \in {"pair", "single"}
    BY <1>2 DEF Items, Exchanges, Conclusions
  <2>2. runtime' =
          CASE i.do = "prepared" /\ i.what = "pair"   -> [runtime EXCEPT !.pair = TRUE]
            [] i.do = "prepared" /\ i.what = "single" -> [runtime EXCEPT !.single = TRUE]
            [] i.do = "enabled" -> [runtime EXCEPT !.enabled = i.on]
            [] i.do = "started" -> [runtime EXCEPT !.enabled = InitiallyEnabled(alarm)]
    BY <1>2 DEF Conclude
  <2> HIDE DEF i
  <2> QED
    BY <2>1, <2>2 DEF IsPair
<1>5. \A x \in BOOLEAN : [runtime EXCEPT !.enabled = x] \in Runtimes
  BY <1>3 DEF Runtimes
<1>6. runtime' \in Runtimes
  <2>1. InitiallyEnabled(alarm) \in BOOLEAN
    BY Zenon DEF InitiallyEnabled
  <2>2. CASE i.do = "started"
    BY <1>4, <1>5, <2>1, <2>2, Zenon
  <2>3. CASE i.do = "enabled"
    <3>1. i \in [do : {"enabled"}, on : BOOLEAN]
      BY <1>2, <2>3 DEF Items, Exchanges, Conclusions
    <3>2. i.on \in BOOLEAN
      BY <3>1, Zenon
    <3> QED
      BY <1>4, <1>5, <2>3, <3>2, Zenon
  <2>4. CASE i.do = "prepared"
    BY <1>3, <1>4, <2>4 DEF Runtimes
  <2> QED
    BY <1>1, <1>2, <2>2, <2>3, <2>4
<1>7. OperationTypeOK'
  <2>1. OperationTypeOK
    BY DEF DataInv
  <2> QED
    BY <1>1, <1>2, <1>6, <2>1, Zenon DEF OperationTypeOK
<1>8. CacheInv' /\ SettingsInv'
  BY <1>1, <1>2, CacheLater, SettingsLater
<1>9. PairInv'
  <2>1. CASE IsPair(i)
    <3>1. /\ Selected(register)' = Selected(register) /\ Selected(rawCache)' = Selected(rawCache)
      BY <1>1 DEF Selected
    <3>2. rawCache # NoCache /\ opCache = Selected(register) /\ Selected(rawCache) = opCache
      BY <1>1, <1>3, <2>1 DEF PairInv
    <3>3. \A j \in 1..Len(todo') : ~ SpeedWrite(todo'[j])
      <4>1. \A j \in 1..Len(todo) : ~ SpeedWrite(todo[j])
        <5>1. 1 \in 1..Len(todo)
          BY <1>1, ProceedFacts
        <5> QED
          BY <1>3, <2>1, <5>1 DEF Shape
      <4>2. \A j \in 1..Len(todo') : todo'[j] = todo[j + 1] /\ j + 1 \in 1..Len(todo)
        BY <1>1, ProceedFacts
      <4> QED
        BY <4>1, <4>2
    <3>4. todo' # <<>> => ~ IsPair(todo'[1])
      BY <1>1, <2>1, SecondItem DEF IsPair
    <3> QED
      BY <1>1, <3>1, <3>2, <3>3, <3>4 DEF PairInv, SpeedWrite, IsPair
  <2>2. CASE ~ IsPair(i)
    <3>1. runtime'.pair = runtime.pair
      BY <1>1, <1>2, <1>3, <1>4, <2>2 DEF Runtimes
    <3> QED
      BY <1>1, <1>2, <3>1, PairLater
  <2> QED
    BY <2>1, <2>2
<1>10. EnabledInv'
  <2>1. CASE i.do = "prepared"
    <3>1. runtime'.enabled = runtime.enabled
      BY <1>3, <1>4, <2>1 DEF Runtimes
    <3> QED
      BY <1>1, <2>1, <3>1, EnabledLater
  <2>2. CASE i.do \in {"enabled", "started"}
    <3> SUFFICES ASSUME ~ astray, Assigned(assigned, "C-ON"), runtime'.enabled
                 PROVE  Line(assigned, "C-ON") \in register
      <4>1. ~ (todo' # <<>> /\ todo'[1].do = "enabled" /\ todo'[1].on)
        BY <1>1, <2>2, SecondItem DEF COn
      <4> QED
        BY <1>1, <4>1 DEF EnabledInv, Assigned, Line
    <3>1. CASE i.do = "enabled"
      <4>1. i.on
        BY <1>3, <1>4, <3>1 DEF Runtimes
      <4> QED
        BY <1>1, <1>2, <1>3, <3>1, <4>1 DEF EnabledInv
    <3>2. CASE i.do = "started"
      <4>1. Line(assigned, "C-ON") \in rawCache
        BY <1>3, <1>4, <3>2 DEF Runtimes, InitiallyEnabled
      <4>2. Line(assigned, "C-ON") # -1
        BY <1>3, LineIsBit DEF HasLine, Functions
      <4>3. rawCache # NoCache
        BY <4>1, <4>2 DEF NoCache
      <4> QED
        BY <1>3, <4>1, <4>3 DEF CacheInv
    <3> QED
      BY <2>2, <3>1, <3>2
  <2> QED
    BY <1>1, <1>2, <2>1, <2>2
<1> QED
  BY <1>2, <1>7, <1>8, <1>9, <1>10 DEF DataInv

\* What an exchange leaves behind that has failed.
LEMMA FailureFacts ==
  ASSUME DataInv, NEW effect \in BOOLEAN, ExchangeFails(effect)
  PROVE  /\ bus /\ todo # <<>> /\ todo' = <<>> /\ caller' = "none" /\ assigned' = assigned
         /\ register' \in SUBSET Bits /\ Selected(register') \in Operations
         /\ Selected(register)' = Selected(register')
         /\ data' \in [Operations -> [Fields -> Values]]
         /\ settings' \in {"unknown", "written", "inEffect"}
         /\ settings = "inEffect" => settings' = "inEffect"
         /\ astray' \in BOOLEAN
         /\ ~ astray' => ~ astray /\ register' = register
         /\ \/ register' = register
            \/ Head(todo).do = "flag" /\ Selected(register') = Selected(rawCache)
            \/ Head(todo).do = "select"
<1> DEFINE i == Head(todo)
           writes == effect /\ i.do \in {"flag", "select"}
<1>1. /\ todo # <<>> /\ todo' = <<>> /\ caller' = "none" /\ assigned' = assigned
      /\ i.do \in {"flag", "select", "data", "settings", "read", "other"}
      /\ register' = IF writes THEN NewRegister(i) ELSE register
      /\ data' = IF effect /\ i.do = "data"
                 THEN [data EXCEPT ![i.o][i.field] = i.value] ELSE data
      /\ settings' = IF effect /\ i.do = "settings" THEN Executed(i.step) ELSE settings
  BY DEF ExchangeFails, Doing
<1>2. astray' \in BOOLEAN /\ (~ astray' => ~ astray /\ ~ writes)
  BY Zenon DEF ExchangeFails
<1>3. /\ todo \in Seq(Items) /\ register \in SUBSET Bits /\ bus
      /\ data \in [Operations -> [Fields -> Values]]
      /\ settings \in {"unknown", "written", "inEffect"}
      /\ Selected(register) \in Operations
  BY <1>1 DEF DataInv, OperationTypeOK, Items, CallerInv, CacheInv
<1>4. i \in Items
  BY <1>1, <1>3
<1>5. Selected(register)' = Selected(register')
  BY <1>1 DEF Selected
<1>6. /\ register' \in SUBSET Bits /\ Selected(register') \in Operations
      /\ ~ astray' => ~ astray /\ register' = register
      /\ \/ register' = register
         \/ i.do = "flag" /\ Selected(register') = Selected(rawCache)
         \/ i.do = "select"
  <2>1. CASE writes
    <3>1. /\ NewRegister(i) \in SUBSET Bits /\ Selected(NewRegister(i)) \in Operations
          /\ i.do = "flag" => Selected(NewRegister(i)) = Selected(rawCache)
      BY <1>1, <2>1, CacheThere
    <3>2. register' = NewRegister(i)
      BY <1>1, <2>1
    <3> HIDE DEF i
    <3> QED
      BY <1>2, <2>1, <3>1, <3>2
  <2>2. CASE ~ writes
    <3>1. register' = register
      BY <1>1, <2>2
    <3> QED
      BY <1>2, <1>3, <3>1
  <2> QED
    BY <2>1, <2>2
<1>7. data' \in [Operations -> [Fields -> Values]]
  <2>1. CASE effect /\ i.do = "data"
    <3>1. i.o \in Operations /\ i.field \in Fields /\ i.value \in Values
      BY <1>4, <2>1 DEF Items, Exchanges, Conclusions
    <3>2. data' = [data EXCEPT ![i.o][i.field] = i.value]
      BY <1>1, <2>1
    <3> HIDE DEF i
    <3> QED
      BY <1>3, <3>1, <3>2
  <2>2. CASE ~ (effect /\ i.do = "data")
    BY <1>1, <1>3, <2>2
  <2> QED
    BY <2>1, <2>2
<1>8. /\ settings' \in {"unknown", "written", "inEffect"}
      /\ settings = "inEffect" => settings' = "inEffect"
  BY <1>1, <1>3 DEF Executed
<1> QED
  BY <1>1, <1>2, <1>3, <1>5, <1>6, <1>7, <1>8

LEMMA ExchangeFailsKeeps ==
  ASSUME DataInv, NEW effect \in BOOLEAN, ExchangeFails(effect)
  PROVE  DataInv'
<1>1. /\ bus /\ todo # <<>> /\ todo' = <<>> /\ caller' = "none" /\ assigned' = assigned
      /\ register' \in SUBSET Bits /\ Selected(register') \in Operations
      /\ Selected(register)' = Selected(register')
      /\ data' \in [Operations -> [Fields -> Values]]
      /\ settings' \in {"unknown", "written", "inEffect"}
      /\ settings = "inEffect" => settings' = "inEffect"
      /\ astray' \in BOOLEAN
      /\ ~ astray' => ~ astray /\ register' = register
      /\ \/ register' = register
         \/ Head(todo).do = "flag" /\ Selected(register') = Selected(rawCache)
         \/ Head(todo).do = "select"
  BY FailureFacts
<1>2. /\ assigned \in Assignments /\ runtime \in Runtimes /\ opCache \in Operations
      /\ rawCache \in (SUBSET Bits) \cup {NoCache}
      /\ todo \in Seq(Items)
  BY DEF DataInv, OperationTypeOK, Items
<1>3. Shape(todo)' /\ todo' \in Seq(Exchanges \cup Conclusions)
  BY <1>1 DEF Shape
<1>4. CASE caller \in {"loop", "initialize", "guarded"} /\ Forget
  <2>1. /\ bus' = FALSE /\ runtime' = FreshRuntime /\ rawCache' = NoCache /\ opCache' = 0
    BY <1>4 DEF Forget
  <2>2. OperationTypeOK'
    <3>1. /\ runtime' \in Runtimes /\ rawCache' \in (SUBSET Bits) \cup {NoCache}
          /\ opCache' \in Operations
      BY <2>1, FreshType DEF Operations
    <3>2. /\ assigned' \in Assignments /\ register' \subseteq Bits
          /\ caller' \in {"none", "loop", "command", "guarded", "initialize"}
      BY <1>1, <1>2
    <3>3. bus' \in BOOLEAN
      BY <2>1
    <3> QED
      BY <1>1, <1>3, <3>1, <3>2, <3>3, Zenon DEF OperationTypeOK
  <2>3. CallerInv' /\ CacheInv' /\ PairInv' /\ SettingsInv' /\ EnabledInv'
    BY <1>1, <2>1, FreshType DEF CallerInv, CacheInv, PairInv, SettingsInv, EnabledInv
  <2> QED
    BY <1>3, <2>2, <2>3 DEF DataInv
<1>5. CASE caller \in {"command", "guarded"} /\ UNCHANGED memory
  <2>1. bus' = bus /\ runtime' = runtime /\ rawCache' = rawCache /\ opCache' = opCache
    BY <1>5 DEF memory
  <2>2. OperationTypeOK'
    <3>1. bus' \in BOOLEAN
      BY <2>1, Zenon DEF DataInv, OperationTypeOK
    <3>2. /\ assigned' \in Assignments /\ register' \subseteq Bits
          /\ caller' \in {"none", "loop", "command", "guarded", "initialize"}
          /\ runtime' \in Runtimes /\ rawCache' \in (SUBSET Bits) \cup {NoCache}
          /\ opCache' \in Operations
      BY <1>1, <1>2, <2>1
    <3> QED
      BY <1>1, <1>3, <3>1, <3>2, Zenon DEF OperationTypeOK
  <2>3. rawCache # NoCache
    BY <1>1, <1>5 DEF DataInv, CacheInv
  <2>4. settings = "inEffect"
    BY <1>1, <1>5 DEF DataInv, SettingsInv
  <2>5. Head(todo).do # "select"
    <3>1. Head(todo) = todo[1] /\ 1 \in 1..Len(todo)
      BY <1>1, <1>2
    <3> QED
      BY <1>5, <3>1 DEF DataInv, CallerInv
  <2>6. Selected(rawCache)' = Selected(rawCache)
    BY <1>1, <2>1 DEF Selected
  <2>7. CallerInv' /\ SettingsInv'
    BY <1>1, <2>1, <2>4 DEF CallerInv, SettingsInv
  <2>8. CacheInv'
    BY <1>1, <2>1, <2>3, <2>6 DEF DataInv, CacheInv
  <2>9. PairInv'
    BY <1>1, <2>1, <2>3, <2>5, <2>6 DEF DataInv, PairInv
  <2>10. EnabledInv'
    <3> SUFFICES ASSUME ~ astray', Assigned(assigned, "C-ON"), runtime.enabled
                 PROVE  Line(assigned, "C-ON") \in register'
      BY <1>1, <2>1 DEF EnabledInv, Assigned, Line
    <3>1. \/ Line(assigned, "C-ON") \in register
          \/ todo[1].do = "enabled"
      BY <1>1, <1>5 DEF DataInv, EnabledInv
    <3>2. todo[1].do # "enabled"
      <4>1. Head(todo) = todo[1]
        BY <1>1, <1>2
      <4> QED
        BY <4>1 DEF ExchangeFails, Doing
    <3> QED
      BY <1>1, <3>1, <3>2
  <2> QED
    BY <1>3, <2>2, <2>7, <2>8, <2>9, <2>10 DEF DataInv
<1> QED
  BY <1>4, <1>5 DEF ExchangeFails, Failed

-----------------------------------------------------------------------------
LEMMA DataStep == DataInv /\ [Next]_vars => DataInv'
<1> SUFFICES ASSUME DataInv, [Next]_vars PROVE DataInv'
  OBVIOUS
<1>1. CASE ControlLoop
  BY <1>1, SetModeKeeps, SetSpeedKeeps, SetRampKeeps, SetPositionKeeps, SetDirectionKeeps,
     StartMovementKeeps, StopMovementKeeps, OnAlarmClearedKeeps DEF ControlLoop
<1>2. CASE Operator
  BY <1>2, SetEnabledKeeps, GuardedKeeps, InitializeKeeps DEF Operator
<1>3. CASE Exchange
  BY <1>3, WriteInputKeeps, ReadInputKeeps, WriteDataKeeps, WriteSettingsKeeps, OtherKeeps,
     ConcludeKeeps, ExchangeFailsKeeps DEF Exchange
<1>4. CASE UNCHANGED vars
  <2>1. /\ assigned' = assigned /\ register' = register /\ data' = data
        /\ settings' = settings /\ bus' = bus /\ runtime' = runtime
        /\ rawCache' = rawCache /\ opCache' = opCache /\ caller' = caller
        /\ todo' = todo /\ astray' = astray
    BY <1>4 DEF vars, driver, memory
  <2>2. OperationTypeOK'
    BY <2>1, Zenon DEF DataInv, OperationTypeOK
  <2>3. Shape(todo)' /\ CallerInv' /\ SettingsInv'
    BY <2>1 DEF DataInv, Shape, HasLine, Assigned, CallerInv, SettingsInv
  <2>4. CacheInv' /\ PairInv' /\ EnabledInv'
    <3>1. ReadsFirst(todo)' <=> ReadsFirst(todo)
      BY <2>1 DEF ReadsFirst
    <3>2. /\ Selected(register)' = Selected(register) /\ Selected(rawCache)' = Selected(rawCache)
          /\ Assigned(assigned, "C-ON")' = Assigned(assigned, "C-ON")
          /\ Line(assigned, "C-ON")' = Line(assigned, "C-ON")
      BY <2>1 DEF Selected, Assigned, Line
    <3> QED
      BY <2>1, <3>1, <3>2 DEF DataInv, CacheInv, PairInv, EnabledInv, IsPair, SpeedWrite
  <2> QED
    BY <2>2, <2>3, <2>4 DEF DataInv
<1> QED
  BY <1>1, <1>2, <1>3, <1>4 DEF Next

LEMMA Inductive == Spec => []DataInv
<1> QED
  BY DataInit, DataStep, PTL DEF Spec

\* Every variable of the specification has its type.
THEOREM OperationTypes == Spec => []OperationTypeOK
<1>1. DataInv => OperationTypeOK
  BY DEF DataInv
<1> QED
  BY <1>1, Inductive, PTL

\* Between calls the parameters are in effect, and unless an answer was lost
\* both caches and the memory of C-ON are what the driver has.
THEOREM MemoryTrue == Spec => []MemoryIsTrue
<1>1. ASSUME DataInv PROVE MemoryIsTrue
  <2> SUFFICES ASSUME Idle, bus
               PROVE  /\ settings = "inEffect"
                      /\ ~astray =>
                           /\ rawCache = register
                           /\ opCache = Selected(register)
                           /\ runtime.enabled /\ Assigned(assigned, "C-ON") =>
                                Line(assigned, "C-ON") \in register
    BY DEF MemoryIsTrue
  <2>1. todo = <<>> /\ caller = "none"
    BY <1>1 DEF Idle, DataInv, CallerInv
  <2>2. settings = "inEffect"
    BY <1>1, <2>1 DEF DataInv, SettingsInv
  <2>3. rawCache # NoCache
    BY <1>1, <2>1 DEF DataInv, CacheInv, ReadsFirst
  <2> QED
    BY <1>1, <2>1, <2>2, <2>3 DEF DataInv, CacheInv, EnabledInv
<1> QED
  BY <1>1, Inductive, PTL

\* The speed of the operation that runs, in one step.
LEMMA SparesStep ==
  ASSUME DataInv, [Next]_vars, runtime.pair, Selected(register) \in {0, 1}
  PROVE  data'[Selected(register)]["speed"] = data[Selected(register)]["speed"]
<1> DEFINE i == Head(todo)
           o == Selected(register)
<1>1. \/ data' = data
      \/ /\ todo # <<>> /\ i.do = "data"
         /\ data' = [data EXCEPT ![i.o][i.field] = i.value]
  BY DEF Next, ControlLoop, Operator, Exchange, vars, driver, memory, Call,
     SetMode, SetSpeed, SetRamp, SetPosition, SetDirection, StartMovement, StopMovement,
     OnAlarmCleared, SetEnabled, ResetAlarm, Diagnose, Initialize, WriteInput, ReadInput,
     WriteData, WriteSettings, OtherExchange, Conclude, ExchangeFails, Doing
<1>2. CASE todo # <<>> /\ i.do = "data" /\ data' = [data EXCEPT ![i.o][i.field] = i.value]
  <2>1. todo \in Seq(Items) /\ data \in [Operations -> [Fields -> Values]]
    BY DEF DataInv, OperationTypeOK, Items
  <2>2. i = todo[1] /\ i \in Items /\ 1 \in 1..Len(todo)
    BY <1>2, <2>1
  <2>3. i.o \in Operations /\ i.field \in Fields /\ i.value \in Values
    BY <1>2, <2>2 DEF Items, Exchanges, Conclusions
  <2>4. ~ (i.o = o /\ i.field = "speed")
    BY <1>2, <2>2 DEF DataInv, PairInv, SpeedWrite
  <2>5. o \in Operations /\ "speed" \in Fields
    BY DEF Operations, Fields
  <2> HIDE DEF i, o
  <2>6. data'[o]["speed"] = data[o]["speed"]
    BY <1>2, <2>1, <2>3, <2>4, <2>5
  <2> QED
    BY <2>6 DEF o
<1> QED
  BY <1>1, <1>2

\* Whatever fails, the speed of the operation that a motor runs is not written
\* while the motor counts as prepared.
THEOREM SparesActive == Spec => UpdateSparesActive
<1>1. ASSUME DataInv, [Next]_vars
      PROVE  [ LET o == Selected(register) IN
               runtime.pair /\ runtime'.pair /\ o \in {0, 1}
               => data'[o]["speed"] = data[o]["speed"] ]_vars
  BY <1>1, SparesStep
<1>2. Spec => []DataInv /\ [][Next]_vars
  BY Inductive, PTL DEF Spec
<1> QED
  BY <1>1, <1>2, PTL DEF UpdateSparesActive

-----------------------------------------------------------------------------
(* What a lost answer leaves behind.                                        *)

\* Two values of the register that differ in C-ON at most.
Alike(a, b) ==
  \A l \in Bits : (l \in a) # (l \in b)
                  => Assigned(assigned, "C-ON") /\ l = Line(assigned, "C-ON")

\* A failure that MotorControl survives is one of a call that writes C-ON alone.
StaleInv ==
  /\ OnlyEnableIsStale
  /\ caller \in {"command", "guarded"} =>
       \A i \in 1..Len(todo) : todo[i].do = "flag" => COn(todo[i])

\* Registers that differ in C-ON at most have the same operation selected.
LEMMA AlikeSelects ==
  ASSUME assigned \in Assignments, NEW a, NEW b, Alike(a, b)
  PROVE  Selected(a) = Selected(b)
<1>1. ASSUME NEW f \in OperationFunctions
      PROVE  Line(assigned, f) \in a <=> Line(assigned, f) \in b
  <2>1. f \in Functions \ {"C-ON"} /\ HasLine(assigned, f)
    BY DEF OperationFunctions, Functions, HasLine
  <2>2. Line(assigned, f) \in Bits
    BY <2>1, LineIsBit
  <2>3. Assigned(assigned, "C-ON") => Line(assigned, f) # Line(assigned, "C-ON")
    BY <2>1, LinesDiffer DEF HasLine
  <2> QED
    BY <2>2, <2>3 DEF Alike
<1> QED
  BY <1>1, SameSelection

\* A call begins without a write; the operator's write C-ON alone.
LEMMA StaleCall ==
  ASSUME DataInv, StaleInv, ControlLoop \/ Operator
  PROVE  StaleInv'
<1>1. CASE Initialize
  BY <1>1 DEF Initialize, StaleInv, OnlyEnableIsStale
<1>2. CASE ~ Initialize
  <2>1. /\ UNCHANGED <<assigned, register, bus, opCache>>
        /\ rawCache' = rawCache \/ rawCache' = NoCache
    BY <1>2 DEF ControlLoop, Operator, Call, SetMode, SetSpeed, SetRamp, SetPosition,
       SetDirection, StartMovement, StopMovement, OnAlarmCleared, SetEnabled, ResetAlarm,
       Diagnose, driver
  <2>2. Selected(register)' = Selected(register)
    BY <2>1 DEF Selected, Line, Assigned
  <2>3. OnlyEnableIsStale'
    BY <2>1, <2>2 DEF StaleInv, OnlyEnableIsStale, Line, Assigned
  <2>4. CASE ControlLoop
    <3>1. caller' \in {"none", "loop"}
      BY <2>4 DEF ControlLoop, Call, SetMode, SetSpeed, SetRamp, SetPosition, SetDirection,
         StartMovement, StopMovement, OnAlarmCleared
    <3> QED
      BY <2>3, <3>1 DEF StaleInv
  <2>5. CASE \E on \in BOOLEAN : SetEnabled(on)
    <3>1. PICK on \in BOOLEAN : todo' = <<Flag("C-ON", on), Enabled(on)>>
      BY <2>5 DEF SetEnabled, Call
    <3>2. Flag("C-ON", on).f = "C-ON" /\ Flag("C-ON", on).do = "flag"
          /\ Enabled(on).do = "enabled"
      BY DEF Flag, Enabled
    <3>3. \A i \in 1..Len(todo') : todo'[i].do = "flag" => COn(todo'[i])
      BY <3>1, <3>2 DEF COn
    <3> QED
      BY <2>3, <3>3 DEF StaleInv
  <2>6. CASE Diagnose \/ \E alarm \in BOOLEAN : ResetAlarm(alarm)
    <3>1. \A i \in 1..Len(todo') : todo'[i].do # "flag"
      <4>1. CASE Diagnose
        BY <4>1 DEF Diagnose, Call, StatusReads, CodeReads, Read, Other
      <4>2. CASE \E alarm \in BOOLEAN : ResetAlarm(alarm)
        <5>1. \/ todo' = <<Other>> \o <<>> \o ApplyParameters
              \/ todo' = <<Other>> \o <<Other, Other>> \o ApplyParameters
          BY <4>2 DEF ResetAlarm, Call
        <5>2. \/ todo' = <<Other, Settings("write"), Settings("execute")>>
              \/ todo' = <<Other, Other, Other, Settings("write"), Settings("execute")>>
          BY <5>1 DEF ApplyParameters
        <5>3. Other.do = "other" /\ \A step : Settings(step).do = "settings"
          BY DEF Other, Settings
        <5> QED
          BY <5>2, <5>3
      <4> QED
        BY <2>6, <4>1, <4>2
    <3> QED
      BY <2>3, <3>1 DEF StaleInv
  <2> QED
    BY <1>2, <2>4, <2>5, <2>6 DEF Operator
<1> QED
  BY <1>1, <1>2

\* An exchange that is done leaves the caches with what the driver has.
LEMMA StaleDone ==
  ASSUME DataInv, StaleInv,
         \/ WriteInput \/ ReadInput \/ WriteData \/ WriteSettings \/ OtherExchange
         \/ \E alarm \in BOOLEAN : Conclude(alarm)
  PROVE  StaleInv'
<1>1. /\ Proceed /\ todo # <<>> /\ UNCHANGED <<assigned, bus>>
      /\ \/ rawCache' = register' /\ opCache' = Selected(register')
         \/ UNCHANGED <<register, rawCache, opCache>>
  BY DEF WriteInput, ReadInput, WriteData, WriteSettings, OtherExchange, Conclude, Doing,
         memory, driver
<1>2. /\ \A i \in 1..Len(todo') : todo'[i] = todo[i + 1]
      /\ Len(todo) \in Nat \ {0} /\ Len(todo') = Len(todo) - 1
  BY <1>1, ProceedFacts
<1>3. caller' \in {"none", caller}
  BY <1>1 DEF Proceed
<1>4. caller' \in {"command", "guarded"} =>
        \A i \in 1..Len(todo') : todo'[i].do = "flag" => COn(todo'[i])
  BY <1>2, <1>3 DEF StaleInv
<1>5. Selected(register)' = Selected(register')
  BY <1>1 DEF Selected, Line, Assigned
<1>6. OnlyEnableIsStale'
  <2>1. CASE rawCache' = register' /\ opCache' = Selected(register')
    BY <1>5, <2>1 DEF OnlyEnableIsStale
  <2>2. CASE UNCHANGED <<register, rawCache, opCache>>
    BY <1>1, <1>5, <2>2 DEF StaleInv, OnlyEnableIsStale, Line, Assigned
  <2> QED
    BY <1>1, <2>1, <2>2
<1> QED
  BY <1>4, <1>6 DEF StaleInv

\* One that fails has MotorControl forget the motor, or wrote C-ON at most.
LEMMA StaleFailure ==
  ASSUME DataInv, StaleInv, NEW effect \in BOOLEAN, ExchangeFails(effect)
  PROVE  StaleInv'
<1> DEFINE i == Head(todo)
<1>1. /\ bus /\ todo # <<>> /\ caller' = "none" /\ assigned' = assigned
      /\ Selected(register)' = Selected(register')
  BY FailureFacts
<1>2. /\ register' = IF effect /\ i.do \in {"flag", "select"} THEN NewRegister(i) ELSE register
      /\ Failed
  BY DEF ExchangeFails
<1>3. i = todo[1] /\ 1 \in 1..Len(todo)
  BY <1>1 DEF DataInv, OperationTypeOK
<1>4. CASE Forget
  BY <1>1, <1>4 DEF Forget, StaleInv, OnlyEnableIsStale
<1>5. CASE ~ Forget
  <2>1. caller \in {"command", "guarded"} /\ UNCHANGED <<bus, runtime, rawCache, opCache>>
    BY <1>2, <1>5 DEF Failed, memory
  <2>2. rawCache # NoCache
    BY <1>1, <2>1 DEF DataInv, CacheInv
  <2>3. Alike(register, rawCache) /\ opCache = Selected(register)
    BY <1>1, <2>2 DEF StaleInv, OnlyEnableIsStale, Alike
  <2>4. Alike(register', rawCache)
    <3>1. CASE register' = register
      BY <2>3, <3>1
    <3>2. CASE register' = NewRegister(i) /\ i.do = "flag"
      <4>1. i.f = "C-ON" /\ HasLine(assigned, i.f)
        BY <1>3, <2>1, <3>2 DEF StaleInv, COn, DataInv, Shape
      <4>2. Assigned(assigned, "C-ON")
            /\ register' = WithFlag(rawCache, "C-ON", i.on)
        BY <3>2, <4>1 DEF HasLine, NewRegister
      <4> QED
        BY <4>2 DEF WithFlag, Alike
    <3>3. i.do # "select"
      BY <1>3, <2>1 DEF DataInv, CallerInv
    <3> QED
      BY <1>2, <3>1, <3>2, <3>3
  <2>5. opCache = Selected(register')
    <3>1. assigned \in Assignments
      BY DEF DataInv, OperationTypeOK
    <3>2. Selected(register') = Selected(rawCache) /\ Selected(register) = Selected(rawCache)
      BY <2>3, <2>4, <3>1, AlikeSelects
    <3> QED
      BY <2>3, <3>2
  <2>6. OnlyEnableIsStale'
    BY <1>1, <2>1, <2>4, <2>5 DEF OnlyEnableIsStale, Alike, Line, Assigned
  <2> QED
    BY <1>1, <2>6 DEF StaleInv
<1> QED
  BY <1>4, <1>5

\* Whatever is lost, only C-ON may differ between the register and its cached
\* value; the operation, the direction and the pulses never do.
THEOREM OnlyEnableStale == Spec => []OnlyEnableIsStale
<1>1. Init => StaleInv
  BY DEF Init, StaleInv, OnlyEnableIsStale
<1>2. DataInv /\ StaleInv /\ [Next]_vars => StaleInv'
  <2> SUFFICES ASSUME DataInv, StaleInv, [Next]_vars PROVE StaleInv'
    OBVIOUS
  <2>1. CASE ControlLoop \/ Operator
    BY <2>1, StaleCall
  <2>2. CASE Exchange
    BY <2>2, StaleDone, StaleFailure DEF Exchange
  <2>3. CASE UNCHANGED vars
    <3>1. UNCHANGED <<assigned, register, bus, rawCache, opCache, caller, todo>>
      BY <2>3 DEF vars, driver, memory
    <3>2. Selected(register)' = Selected(register)
      BY <3>1 DEF Selected, Line, Assigned
    <3> QED
      BY <3>1, <3>2 DEF StaleInv, OnlyEnableIsStale, Line, Assigned
  <2> QED
    BY <2>1, <2>2, <2>3 DEF Next
<1>3. StaleInv => OnlyEnableIsStale
  BY DEF StaleInv
<1> QED
  BY <1>1, <1>2, <1>3, Inductive, PTL DEF Spec

-----------------------------------------------------------------------------
(* The motor runs as commanded.                                             *)

\* What the operations of the pair are to hold for a motor with runtime r.
Told(r, k) ==
  IF k = "form" THEN Incremental ELSE IF k = "speed" THEN r.speed ELSE r.ramp[k]

\* All of these are about the set w of the things that are left to do.
Parts(s) == {s[j] : j \in 1..Len(s)}

Coming(w, o, k)   == \E i \in w : i.do = "data" /\ i.o = o /\ i.field = k
Selecting(w)      == \E i \in w : i.do = "select"
Preparing(w, what) == \E i \in w : i.do = "prepared" /\ i.what = what

\* Only what the motor has been told is ever written to the pair.
WritesTrue(w, r) ==
  \A i \in w : i.do = "data" /\ i.o \in {0, 1} =>
    i.field # "position" /\ i.value = Told(r, i.field)

Due(w, d, r, o, k) == d[o][k] = Told(r, k) \/ Coming(w, o, k)

\* n is the operation that is selected when all is done; g is it now.
Aim(w, g, n) ==
  /\ \A i \in w : i.do = "select" => i.o = n
  /\ g = n \/ Selecting(w)

\* When all is done, both of the pair turn as told, and the selected one has
\* the speed.
PairReady(w, d, r, g) ==
  /\ \A o \in {0, 1} : Due(w, d, r, o, "form") /\ \A k \in Ramps : Due(w, d, r, o, k)
  /\ \E n \in {0, 1} : Due(w, d, r, n, "speed") /\ Aim(w, g, n)

\* Neither is the third operation in use, nor is it about to be.
PairOnly(w, r) == ~ r.single /\ ~ Preparing(w, "single")

\* A motor in position mode has its third operation, or is about to; and
\* whatever writes operations is done for the control loop, so that a failure
\* of it makes MotorControl forget the motor.
CommandedInv ==
  /\ WritesTrue(Parts(todo), runtime)
  /\ \A i \in Parts(todo) : i.do \in {"data", "select", "prepared"} => caller = "loop"
  /\ bus /\ runtime.mode = "Position" => ~ PairOnly(Parts(todo), runtime)
  /\ /\ bus /\ PairOnly(Parts(todo), runtime)
     /\ runtime.pair \/ Preparing(Parts(todo), "pair")
     => PairReady(Parts(todo), data, runtime, Selected(register))

-----------------------------------------------------------------------------
LEMMA JoinedParts ==
  ASSUME NEW S, NEW u \in Seq(S), NEW v \in Seq(S)
  PROVE  Parts(u \o v) = Parts(u) \cup Parts(v)
<1>1. /\ Len(u \o v) = Len(u) + Len(v) /\ Len(u) \in Nat /\ Len(v) \in Nat
      /\ \A i \in 1..(Len(u) + Len(v)) :
           (u \o v)[i] = IF i <= Len(u) THEN u[i] ELSE v[i - Len(u)]
  BY ConcatProperties
<1> DEFINE x == u \o v
<1>2. /\ Len(x) = Len(u) + Len(v)
      /\ \A i \in 1..Len(x) : x[i] = IF i <= Len(u) THEN u[i] ELSE v[i - Len(u)]
  BY <1>1
<1> HIDE DEF x
<1>3. ASSUME NEW i \in 1..Len(x) PROVE x[i] \in Parts(u) \cup Parts(v)
  <2>1. CASE i <= Len(u)
    <3>1. i \in 1..Len(u) /\ x[i] = u[i]
      BY <1>1, <1>2, <2>1
    <3> QED
      BY <3>1 DEF Parts
  <2>2. CASE ~ (i <= Len(u))
    <3>1. i - Len(u) \in 1..Len(v) /\ x[i] = v[i - Len(u)]
      BY <1>1, <1>2, <2>2
    <3> QED
      BY <3>1 DEF Parts
  <2> QED
    BY <2>1, <2>2
<1>4. ASSUME NEW i \in 1..Len(u) PROVE u[i] \in Parts(x)
  <2>1. i \in 1..Len(x) /\ x[i] = u[i]
    BY <1>1, <1>2
  <2> QED
    BY <2>1 DEF Parts
<1>5. ASSUME NEW i \in 1..Len(v) PROVE v[i] \in Parts(x)
  <2>1. /\ Len(u) + i \in 1..Len(x) /\ ~ (Len(u) + i <= Len(u))
        /\ (Len(u) + i) - Len(u) = i
    BY <1>1, <1>2
  <2>2. x[Len(u) + i] = v[i]
    BY <1>2, <2>1
  <2> QED
    BY <2>1, <2>2 DEF Parts
<1>6. Parts(x) \subseteq Parts(u) \cup Parts(v)
  BY <1>3 DEF Parts
<1>7. Parts(u) \subseteq Parts(x) /\ Parts(v) \subseteq Parts(x)
  BY <1>4, <1>5 DEF Parts
<1> QED
  BY <1>6, <1>7 DEF x

LEMMA ShortParts ==
  /\ Parts(<<>>) = {}
  /\ \A a : Parts(<<a>>) = {a}
  /\ \A a, b : Parts(<<a, b>>) = {a, b}
  /\ \A a, b, c, d : Parts(<<a, b, c, d>>) = {a, b, c, d}
<1>1. Parts(<<>>) = {}
  BY DEF Parts
<1>2. ASSUME NEW a PROVE Parts(<<a>>) = {a}
  BY DEF Parts
<1>3. ASSUME NEW a, NEW b PROVE Parts(<<a, b>>) = {a, b}
  BY DEF Parts
<1>4. ASSUME NEW a, NEW b, NEW c, NEW d PROVE Parts(<<a, b, c, d>>) = {a, b, c, d}
  <2> DEFINE s == <<a, b, c, d>>
  <2>1. Len(s) = 4 /\ s[1] = a /\ s[2] = b /\ s[3] = c /\ s[4] = d
    OBVIOUS
  <2> HIDE DEF s
  <2>2. Parts(s) = {a, b, c, d}
    <3>1. 1..4 = {1, 2, 3, 4}
      OBVIOUS
    <3>2. Parts(s) = {s[j] : j \in {1, 2, 3, 4}}
      BY <2>1, <3>1 DEF Parts
    <3> QED
      BY <2>1, <3>2
  <2> QED
    BY <2>2 DEF s
<1> QED
  BY <1>1, <1>2, <1>3, <1>4, Zenon

\* What is left after the first item is done.
LEMMA PartsLater ==
  ASSUME NEW S, NEW s \in Seq(S), s # <<>>
  PROVE  Head(s) \in S /\ Parts(s) = {Head(s)} \cup Parts(Tail(s))
<1> DEFINE t == Tail(s)
<1>1. /\ t \in Seq(S) /\ Len(s) \in Nat \ {0} /\ Len(t) = Len(s) - 1
      /\ Head(s) = s[1] /\ s[1] \in S
      /\ \A i \in 1..Len(t) : t[i] = s[i + 1]
  BY HeadTailProperties
<1> HIDE DEF t
<1>2. ASSUME NEW i \in 1..Len(s) PROVE s[i] \in {s[1]} \cup Parts(t)
  <2>1. CASE i = 1
    BY <2>1
  <2>2. CASE i # 1
    <3>1. i - 1 \in 1..Len(t) /\ (i - 1) + 1 = i
      BY <1>1, <2>2
    <3>2. t[i - 1] = s[i]
      BY <1>1, <3>1
    <3> QED
      BY <3>1, <3>2 DEF Parts
  <2> QED
    BY <2>1, <2>2
<1>3. ASSUME NEW i \in 1..Len(t) PROVE t[i] \in Parts(s)
  <2>1. i + 1 \in 1..Len(s) /\ t[i] = s[i + 1]
    BY <1>1
  <2> QED
    BY <2>1 DEF Parts
<1>4. s[1] \in Parts(s)
  BY <1>1 DEF Parts
<1>5. Parts(s) \subseteq {s[1]} \cup Parts(t)
  BY <1>2 DEF Parts
<1>6. Parts(t) \subseteq Parts(s)
  BY <1>3 DEF Parts
<1> QED
  BY <1>1, <1>4, <1>5, <1>6 DEF t

LEMMA RampParts ==
  ASSUME NEW o \in Operations, NEW ramp \in [Ramps -> Rates]
  PROVE  Parts(RampWrites(o, ramp)) = {Write(o, k, ramp[k]) : k \in Ramps}
<1> DEFINE a == IF "acceleration" \in Ramps
                THEN <<Write(o, "acceleration", ramp["acceleration"])>> ELSE <<>>
           d == IF "deceleration" \in Ramps
                THEN <<Write(o, "deceleration", ramp["deceleration"])>> ELSE <<>>
           T(f) == {Write(o, k, ramp[k]) : k \in Ramps \cap {f}}
<1>1. \A k \in Ramps : <<Write(o, k, ramp[k])>> \in Seq(RampItems)
  BY DEF Write, RampItems
<1>2. a \in Seq(RampItems) /\ d \in Seq(RampItems)
  BY <1>1
<1>3. Parts(a) = T("acceleration") /\ Parts(d) = T("deceleration")
  <2>1. Parts(a) = T("acceleration")
    <3>1. CASE "acceleration" \in Ramps
      BY <3>1, ShortParts
    <3>2. CASE "acceleration" \notin Ramps
      BY <3>2, ShortParts
    <3> QED
      BY <3>1, <3>2
  <2>2. Parts(d) = T("deceleration")
    <3>1. CASE "deceleration" \in Ramps
      BY <3>1, ShortParts
    <3>2. CASE "deceleration" \notin Ramps
      BY <3>2, ShortParts
    <3> QED
      BY <3>1, <3>2
  <2> QED
    BY <2>1, <2>2
<1>4. Ramps \subseteq {"acceleration", "deceleration"}
  BY OperationAssumption
<1>5. {Write(o, k, ramp[k]) : k \in Ramps} = T("acceleration") \cup T("deceleration")
  BY <1>4
<1>6. RampWrites(o, ramp) = a \o d
  BY DEF RampWrites
<1> HIDE DEF a, d
<1>7. Parts(a \o d) = Parts(a) \cup Parts(d)
  BY <1>2, JoinedParts
<1> QED
  BY <1>3, <1>5, <1>6, <1>7

\* What configureConstantSpeedPair does, in whatever order.
LEMMA PairParts ==
  ASSUME NEW r \in Runtimes, ~ r.pair
  PROVE  Parts(PreparePair(r)) =
           {Write(o, k, Told(r, k)) : o \in {0, 1}, k \in {"form", "speed"} \cup Ramps}
           \cup {Select(0), Prepared("pair")}
<1> DEFINE a == <<Write(0, "form", Incremental), Write(1, "form", Incremental),
                  Write(0, "speed", r.speed), Write(1, "speed", r.speed)>>
           b == RampWrites(0, r.ramp)
           c == RampWrites(1, r.ramp)
           p == <<Select(0), Prepared("pair")>>
<1>1. r.speed \in Values /\ Incremental \in Values /\ r.ramp \in [Ramps -> Rates]
  BY DEF Runtimes, Values
<1>2. a \in Seq(Items) /\ b \in Seq(Items) /\ c \in Seq(Items) /\ p \in Seq(Items)
  <2>1. a \in Seq(DataItems)
    BY <1>1 DEF Write, DataItems, Operations, Fields
  <2>2. b \in Seq(DataItems) /\ c \in Seq(DataItems)
    BY <1>1, RampWritesType, ItemTypes, SeqMonotonic DEF Operations
  <2>3. Select(0) \in Items /\ Prepared("pair") \in Items
    BY DEF Items, Exchanges, Conclusions, Select, Prepared, Operations
  <2>4. p \in Seq(Items)
    BY <2>3
  <2> HIDE DEF a, b, c, p
  <2> QED
    BY <2>1, <2>2, <2>4, ItemTypes, SeqMonotonic
<1>3. /\ Parts(a) = {Write(0, "form", Incremental), Write(1, "form", Incremental),
                     Write(0, "speed", r.speed), Write(1, "speed", r.speed)}
      /\ Parts(p) = {Select(0), Prepared("pair")}
  <2>1. \A x, y, u, v : Parts(<<x, y, u, v>>) = {x, y, u, v}
    BY ShortParts, Zenon
  <2>2. \A x, y : Parts(<<x, y>>) = {x, y}
    BY ShortParts, Zenon
  <2> QED
    BY <2>1, <2>2
<1>4. /\ Parts(b) = {Write(0, k, r.ramp[k]) : k \in Ramps}
      /\ Parts(c) = {Write(1, k, r.ramp[k]) : k \in Ramps}
  BY <1>1, RampParts DEF Operations
<1>5. PreparePair(r) = (a \o b \o c) \o p
  BY DEF PreparePair
<1>6. Parts(PreparePair(r)) = Parts(a) \cup Parts(b) \cup Parts(c) \cup Parts(p)
  <2> HIDE DEF a, b, c, p
  <2>1. a \o b \in Seq(Items) /\ Parts(a \o b) = Parts(a) \cup Parts(b)
    BY <1>2, ConcatProperties, JoinedParts
  <2> DEFINE x == a \o b
  <2>2. x \in Seq(Items)
    BY <2>1
  <2> HIDE DEF x
  <2>3. x \o c \in Seq(Items) /\ Parts(x \o c) = Parts(x) \cup Parts(c)
    BY <1>2, <2>2, ConcatProperties, JoinedParts
  <2> DEFINE y == x \o c
  <2>4. y \in Seq(Items)
    BY <2>3
  <2> HIDE DEF y
  <2>5. Parts(y \o p) = Parts(y) \cup Parts(p)
    BY <1>2, <2>4, JoinedParts
  <2> QED
    BY <1>5, <2>1, <2>3, <2>5 DEF x, y
<1>7. /\ "form" \notin Ramps /\ "speed" \notin Ramps
      /\ Told(r, "form") = Incremental /\ Told(r, "speed") = r.speed
      /\ \A k \in Ramps : Told(r, k) = r.ramp[k]
  BY OperationAssumption DEF Told
<1> DEFINE W(o, k) == Write(o, k, Told(r, k))
<1>8. /\ {W(o, k) : o \in {0, 1}, k \in {"form", "speed"} \cup Ramps} =
           {W(0, "form"), W(1, "form"), W(0, "speed"), W(1, "speed")}
           \cup {W(0, k) : k \in Ramps} \cup {W(1, k) : k \in Ramps}
  <2> HIDE DEF W
  <2> QED
    OBVIOUS
<1>9. /\ {W(0, k) : k \in Ramps} = {Write(0, k, r.ramp[k]) : k \in Ramps}
      /\ {W(1, k) : k \in Ramps} = {Write(1, k, r.ramp[k]) : k \in Ramps}
  BY <1>7
<1>10. Parts(a) = {W(0, "form"), W(1, "form"), W(0, "speed"), W(1, "speed")}
  BY <1>3, <1>7
<1> HIDE DEF a, b, c, p, W
<1>11. Parts(PreparePair(r)) =
         {W(o, k) : o \in {0, 1}, k \in {"form", "speed"} \cup Ramps} \cup Parts(p)
  BY <1>4, <1>6, <1>8, <1>9, <1>10
<1> QED
  BY <1>3, <1>11 DEF W

\* The fields that the things to do have.
LEMMA PartFields ==
  /\ \A o, k, v : /\ Write(o, k, v).do = "data" /\ Write(o, k, v).o = o
                  /\ Write(o, k, v).field = k /\ Write(o, k, v).value = v
  /\ \A o : Select(o).do = "select" /\ Select(o).o = o
  /\ \A what : Prepared(what).do = "prepared" /\ Prepared(what).what = what
  /\ \A f, on : Flag(f, on).do = "flag"
  /\ \A on : Enabled(on).do = "enabled"
BY DEF Write, Select, Prepared, Flag, Enabled

\* A prepared pair will turn as told, whatever is done along with it.
LEMMA PairComplete ==
  ASSUME NEW r \in Runtimes, ~ r.pair, NEW d, NEW g, NEW t,
         \A i \in t : i.do \notin {"data", "select", "prepared"}
  PROVE  LET w == Parts(PreparePair(r)) \cup t
         IN  WritesTrue(w, r) /\ PairReady(w, d, r, g)
<1> DEFINE w == Parts(PreparePair(r)) \cup t
           D == {Write(o, k, Told(r, k)) : o \in {0, 1}, k \in {"form", "speed"} \cup Ramps}
<1>1. w = D \cup {Select(0), Prepared("pair")} \cup t
  BY PairParts
<1>2. /\ "position" \notin {"form", "speed"} \cup Ramps
  BY OperationAssumption
<1>3. \A i \in D : i.do = "data" /\ i.field # "position" /\ i.value = Told(r, i.field)
  BY <1>2, PartFields
<1>4. \A o \in {0, 1} : \A k \in {"form", "speed"} \cup Ramps :
        Write(o, k, Told(r, k)) \in D
  OBVIOUS
<1> HIDE DEF w, D
<1>5. WritesTrue(w, r)
  <2> SUFFICES ASSUME NEW i \in w, i.do = "data"
               PROVE  i.field # "position" /\ i.value = Told(r, i.field)
    BY DEF WritesTrue
  <2>1. i \in D
    BY <1>1, PartFields
  <2> QED
    BY <1>3, <2>1
<1>6. \A o \in {0, 1} : \A k \in {"form", "speed"} \cup Ramps : Due(w, d, r, o, k)
  <2> SUFFICES ASSUME NEW o \in {0, 1}, NEW k \in {"form", "speed"} \cup Ramps
               PROVE  Coming(w, o, k)
    BY DEF Due
  <2>1. Write(o, k, Told(r, k)) \in w
    BY <1>1, <1>4
  <2> QED
    BY <2>1, PartFields DEF Coming
<1>7. Aim(w, g, 0)
  <2>1. Select(0) \in w
    BY <1>1
  <2>2. Selecting(w)
    BY <2>1, PartFields DEF Selecting
  <2>3. ASSUME NEW i \in w, i.do = "select" PROVE i.o = 0
    BY <1>1, <1>3, <2>3, PartFields
  <2> QED
    BY <2>2, <2>3 DEF Aim
<1>8. PairReady(w, d, r, g)
  BY <1>6, <1>7 DEF PairReady
<1> QED
  BY <1>5, <1>8 DEF w

-----------------------------------------------------------------------------
\* What is known of a motor between calls.
LEMMA BetweenCalls ==
  ASSUME DataInv, CommandedInv, Idle, bus
  PROVE  /\ runtime.mode = "Position" => runtime.single
         /\ runtime.pair /\ ~ runtime.single =>
              /\ \A o \in {0, 1} : /\ data[o]["form"] = Told(runtime, "form")
                                   /\ \A k \in Ramps : data[o][k] = Told(runtime, k)
              /\ Selected(register) \in {0, 1}
              /\ data[Selected(register)]["speed"] = Told(runtime, "speed")
<1>1. Parts(todo) = {}
  BY ShortParts DEF Idle
<1>2. ~ Preparing(Parts(todo), "single")
  BY <1>1 DEF Preparing
<1>3. runtime.mode = "Position" => runtime.single
  BY <1>2 DEF CommandedInv, PairOnly
<1>4. ASSUME runtime.pair, ~ runtime.single
      PROVE  /\ \A o \in {0, 1} : /\ data[o]["form"] = Told(runtime, "form")
                                  /\ \A k \in Ramps : data[o][k] = Told(runtime, k)
             /\ Selected(register) \in {0, 1}
             /\ data[Selected(register)]["speed"] = Told(runtime, "speed")
  <2>1. PairReady(Parts(todo), data, runtime, Selected(register))
    BY <1>2, <1>4 DEF CommandedInv, PairOnly
  <2> QED
    BY <1>1, <2>1 DEF PairReady, Due, Coming, Aim, Selecting
<1> QED
  BY <1>3, <1>4

\* A call begins.
LEMMA CallCommanded ==
  ASSUME DataInv, CommandedInv, NEW who, NEW r, NEW items, Call(who, r, items),
         WritesTrue(Parts(items), r),
         who # "loop" => \A i \in Parts(items) : i.do \notin {"data", "select", "prepared"},
         r.mode = "Position" => ~ PairOnly(Parts(items), r),
         PairOnly(Parts(items), r) /\ (r.pair \/ Preparing(Parts(items), "pair")) =>
           PairReady(Parts(items), data, r, Selected(register))
  PROVE  CommandedInv'
<1>1. /\ todo' = items /\ runtime' = r /\ bus' = bus /\ data' = data
      /\ register' = register /\ assigned' = assigned
      /\ caller' = IF items = <<>> THEN "none" ELSE who
  BY DEF Call, driver
<1>2. Selected(register)' = Selected(register)
  BY <1>1 DEF Selected
<1>3. \A i \in Parts(items) : i.do \in {"data", "select", "prepared"} => caller' = "loop"
  BY <1>1, ShortParts
<1>4. /\ WritesTrue(Parts(todo'), runtime')
      /\ \A i \in Parts(todo') : i.do \in {"data", "select", "prepared"} => caller' = "loop"
      /\ bus' /\ runtime'.mode = "Position" => ~ PairOnly(Parts(todo'), runtime')
      /\ /\ bus' /\ PairOnly(Parts(todo'), runtime')
         /\ runtime'.pair \/ Preparing(Parts(todo'), "pair")
         => PairReady(Parts(todo'), data', runtime', Selected(register)')
  BY <1>1, <1>2, <1>3
<1> QED
  BY <1>4 DEF CommandedInv

\* The two runtimes agree in what the pair has to do with.
SameOrders(r, s) ==
  /\ r.mode = s.mode /\ r.speed = s.speed /\ r.ramp = s.ramp
  /\ r.pair = s.pair /\ r.single = s.single

\* A call that has to do with no operation.
LEMMA PlainCall ==
  ASSUME DataInv, CommandedInv, NEW who, NEW r \in Runtimes, NEW items, Call(who, r, items),
         SameOrders(r, runtime),
         \A i \in Parts(items) : i.do \notin {"data", "select", "prepared"}
  PROVE  CommandedInv'
<1>1. Idle /\ bus
  BY DEF Call
<1>2. /\ WritesTrue(Parts(items), r) /\ ~ Preparing(Parts(items), "pair")
      /\ ~ Preparing(Parts(items), "single")
  BY DEF WritesTrue, Preparing
<1>3. \A k : Told(r, k) = Told(runtime, k)
  BY DEF Told, SameOrders
<1>4. ASSUME r.pair, ~ r.single PROVE PairReady(Parts(items), data, r, Selected(register))
  <2>1. runtime.pair /\ ~ runtime.single
    BY <1>4, Zenon DEF SameOrders
  <2>2. /\ \A o \in {0, 1} : /\ data[o]["form"] = Told(runtime, "form")
                             /\ \A k \in Ramps : data[o][k] = Told(runtime, k)
        /\ Selected(register) \in {0, 1}
        /\ data[Selected(register)]["speed"] = Told(runtime, "speed")
    BY <1>1, <2>1, BetweenCalls
  <2>3. Aim(Parts(items), Selected(register), Selected(register))
    BY DEF Aim
  <2> QED
    BY <1>3, <2>2, <2>3 DEF PairReady, Due
<1>5. r.mode = "Position" => r.single
  <2>1. runtime.mode = "Position" => runtime.single
    BY <1>1, BetweenCalls
  <2> QED
    BY <2>1, Zenon DEF SameOrders
<1> QED
  BY <1>2, <1>4, <1>5, CallCommanded DEF PairOnly

\* The third operation is prepared without touching the pair.
LEMMA SingleParts ==
  ASSUME NEW r \in Runtimes
  PROVE  /\ PrepareSingle(r) \in Seq(Items)
         /\ \A i \in Parts(PrepareSingle(r)) : i.do = "data" => i.o = 2
         /\ ~ r.single => Preparing(Parts(PrepareSingle(r)), "single")
<1>1. PrepareSingle(r) \in Seq(Items)
  BY PrepareSingleType, HarmlessShape
<1>2. CASE r.single
  BY <1>1, <1>2, ShortParts DEF PrepareSingle
<1>3. CASE ~ r.single
  <2> DEFINE a == <<Write(2, "form", Incremental), Write(2, "speed", r.speed)>>
             b == RampWrites(2, r.ramp)
             c == <<Prepared("single")>>
  <2>1. r.speed \in Values /\ Incremental \in Values /\ r.ramp \in [Ramps -> Rates]
    BY DEF Runtimes, Values
  <2>2. a \in Seq(Items) /\ b \in Seq(Items) /\ c \in Seq(Items)
    <3>1. a \in Seq(DataItems)
      BY <2>1 DEF Write, DataItems, Operations, Fields
    <3>2. b \in Seq(DataItems)
      BY <2>1, RampWritesType, ItemTypes, SeqMonotonic DEF Operations
    <3>3. Prepared("single") \in Items
      BY DEF Items, Conclusions, Prepared
    <3>4. c \in Seq(Items)
      BY <3>3
    <3> HIDE DEF a, b, c
    <3> QED
      BY <3>1, <3>2, <3>4, ItemTypes, SeqMonotonic
  <2>3. Parts(a) = {Write(2, "form", Incremental), Write(2, "speed", r.speed)}
    BY ShortParts
  <2>4. Parts(b) = {Write(2, k, r.ramp[k]) : k \in Ramps}
    BY <2>1, RampParts DEF Operations
  <2>5. Parts(c) = {Prepared("single")}
    BY ShortParts
  <2>6. PrepareSingle(r) = a \o b \o c
    BY <1>3 DEF PrepareSingle
  <2>7. Parts(PrepareSingle(r)) = Parts(a) \cup Parts(b) \cup Parts(c)
    <3> HIDE DEF a, b, c
    <3>1. a \o b \in Seq(Items) /\ Parts(a \o b) = Parts(a) \cup Parts(b)
      BY <2>2, ConcatProperties, JoinedParts
    <3> DEFINE x == a \o b
    <3>2. x \in Seq(Items)
      BY <3>1
    <3> HIDE DEF x
    <3>3. Parts(x \o c) = Parts(x) \cup Parts(c)
      BY <2>2, <3>2, JoinedParts
    <3> QED
      BY <2>6, <3>1, <3>3 DEF x
  <2>8. ASSUME NEW i \in Parts(PrepareSingle(r)), i.do = "data" PROVE i.o = 2
    <3>1. CASE i \in Parts(c)
      BY <2>5, <2>8, <3>1, PartFields
    <3>2. CASE i \in Parts(a)
      BY <2>3, <3>2, PartFields
    <3>3. CASE i \in Parts(b)
      BY <2>4, <3>3, PartFields
    <3> QED
      BY <2>7, <3>1, <3>2, <3>3
  <2>9. Prepared("single") \in Parts(PrepareSingle(r))
    BY <2>5, <2>7
  <2> QED
    BY <1>1, <2>8, <2>9, PartFields DEF Preparing
<1> QED
  BY <1>2, <1>3

\* A call that is about the third operation, alone.
LEMMA SingleCall ==
  ASSUME DataInv, CommandedInv, NEW r, NEW items, Call("loop", r, items),
         \A i \in Parts(items) : i.do = "data" => i.o = 2,
         r.single \/ Preparing(Parts(items), "single")
  PROVE  CommandedInv'
<1>1. WritesTrue(Parts(items), r)
  BY DEF WritesTrue
<1>2. ~ PairOnly(Parts(items), r)
  BY DEF PairOnly
<1> QED
  BY <1>1, <1>2, CallCommanded

\* A call that prepares the pair, and then has to do with no operation.
LEMMA PairCall ==
  ASSUME DataInv, CommandedInv, NEW r \in Runtimes, ~ r.pair, NEW t \in Seq(Items),
         \A i \in Parts(t) : i.do \notin {"data", "select", "prepared"},
         Call("loop", r, PreparePair(r) \o t), r.mode = "Speed"
  PROVE  CommandedInv'
<1> DEFINE s == PreparePair(r) \o t
<1>1. PreparePair(r) \in Seq(Items)
  BY PreparePairAlone
<1>2. Parts(s) = Parts(PreparePair(r)) \cup Parts(t)
  BY <1>1, JoinedParts
<1>3. WritesTrue(Parts(s), r) /\ PairReady(Parts(s), data, r, Selected(register))
  BY <1>2, PairComplete
<1> HIDE DEF s
<1> QED
  BY <1>3, CallCommanded DEF s

LEMMA PairCallAlone ==
  ASSUME DataInv, CommandedInv, NEW r \in Runtimes, ~ r.pair,
         Call("loop", r, PreparePair(r)), r.mode = "Speed"
  PROVE  CommandedInv'
<1>1. PreparePair(r) \in Seq(Items) /\ <<>> \in Seq(Items)
  BY PreparePairAlone
<1>2. PreparePair(r) \o <<>> = PreparePair(r)
  BY <1>1, ConcatEmptySeq
<1> QED
  BY <1>1, <1>2, ShortParts, PairCall

LEMMA SetModeCommanded ==
  ASSUME DataInv, CommandedInv, NEW mode \in {"Speed", "Position"}, SetMode(mode)
  PROVE  CommandedInv'
<1> DEFINE r == [runtime EXCEPT !.mode = mode]
<1>1. runtime \in Runtimes
  BY DEF DataInv, OperationTypeOK
<1>2. /\ r \in Runtimes /\ r.mode = mode /\ r.speed = runtime.speed /\ r.ramp = runtime.ramp
      /\ (r.pair <=> runtime.pair) /\ (r.single <=> runtime.single)
  BY <1>1 DEF Runtimes
<1>3. Call("loop", r, IF mode = "Speed" THEN PreparePair(r) ELSE PrepareSingle(r))
  BY DEF SetMode
<1> HIDE DEF r
<1>4. CASE mode = "Speed" /\ ~ r.pair
  BY <1>2, <1>3, <1>4, PairCallAlone
<1>5. CASE mode = "Speed" /\ r.pair
  <2>1. Idle /\ bus /\ Call("loop", r, <<>>)
    <3>1. PreparePair(r) = <<>>
      BY <1>5 DEF PreparePair
    <3> QED
      BY <1>3, <1>5, <3>1 DEF Call
  <2>2. \A k : Told(r, k) = Told(runtime, k)
    BY <1>2 DEF Told
  <2>3. ASSUME ~ r.single PROVE PairReady({}, data, r, Selected(register))
    <3>1. runtime.pair /\ ~ runtime.single
      BY <1>2, <1>5, <2>3, Zenon
    <3>2. /\ \A o \in {0, 1} : /\ data[o]["form"] = Told(runtime, "form")
                               /\ \A k \in Ramps : data[o][k] = Told(runtime, k)
          /\ Selected(register) \in {0, 1}
          /\ data[Selected(register)]["speed"] = Told(runtime, "speed")
      BY <2>1, <3>1, BetweenCalls
    <3>3. Aim({}, Selected(register), Selected(register))
      BY DEF Aim
    <3> QED
      BY <2>2, <3>2, <3>3 DEF PairReady, Due
  <2>4. WritesTrue({}, r) /\ Parts(<<>>) = {} /\ r.mode # "Position"
    BY <1>2, <1>5, ShortParts DEF WritesTrue
  <2>5. PairOnly({}, r) => ~ r.single
    BY DEF PairOnly
  <2> QED
    BY <2>1, <2>3, <2>4, <2>5, CallCommanded
<1>6. CASE mode # "Speed"
  BY <1>2, <1>3, <1>6, SingleParts, SingleCall
<1> QED
  BY <1>4, <1>5, <1>6

LEMMA SetSpeedCommanded ==
  ASSUME DataInv, CommandedInv, NEW v \in Speeds, SetSpeed(v)
  PROVE  CommandedInv'
<1> DEFINE r == [runtime EXCEPT !.speed = Abs(v)]
<1>1. runtime \in Runtimes
  BY DEF DataInv, OperationTypeOK
<1>2. /\ r \in Runtimes /\ r.mode = runtime.mode /\ r.ramp = runtime.ramp
      /\ (r.pair <=> runtime.pair) /\ (r.single <=> runtime.single)
  BY <1>1 DEF Runtimes, Magnitudes
<1>3. Call("loop", r, IF r.mode = "Position" THEN <<>>
                      ELSE IF r.pair THEN UpdateBuffered(r.speed) ELSE PreparePair(r))
  BY DEF SetSpeed
<1>a. Idle /\ bus
  BY <1>3 DEF Call
<1>b. r.mode \in {"Speed", "Position"}
  BY <1>2 DEF Runtimes
<1> HIDE DEF r
<1>4. CASE r.mode = "Position"
  <2>1. r.single
    BY <1>2, <1>4, <1>a, BetweenCalls
  <2>2. Call("loop", r, <<>>) /\ Parts(<<>>) = {}
    BY <1>3, <1>4, ShortParts
  <2> QED
    BY <2>1, <2>2, SingleCall
<1>5. CASE r.mode = "Speed" /\ r.pair
  <2> DEFINE next == IF opCache = 0 THEN 1 ELSE 0
             a == Write(next, "speed", r.speed)
             b == Select(next)
             w == {a, b}
  <2>1. /\ Call("loop", r, <<a, b>>) /\ Parts(<<a, b>>) = w
    <3>1. UpdateBuffered(r.speed) = <<a, b>>
      BY DEF UpdateBuffered
    <3>2. Parts(<<a, b>>) = w
      <4> HIDE DEF a, b
      <4> QED
        BY ShortParts
    <3> HIDE DEF a, b, w
    <3> QED
      BY <1>3, <1>5, <3>1, <3>2
  <2>2. /\ a.do = "data" /\ a.o = next /\ a.field = "speed" /\ a.value = r.speed
        /\ b.do = "select" /\ b.o = next /\ next \in {0, 1}
    BY PartFields
  <2> HIDE DEF a, b, next
  <2>3. Told(r, "speed") = r.speed /\ \A k \in {"form"} \cup Ramps : Told(r, k) = Told(runtime, k)
    BY <1>2, OperationAssumption DEF Told
  <2>4. WritesTrue(w, r)
    BY <2>2, <2>3 DEF WritesTrue
  <2>5. ASSUME ~ r.single PROVE PairReady(w, data, r, Selected(register))
    <3>1. \A o \in {0, 1} : /\ data[o]["form"] = Told(runtime, "form")
                            /\ \A k \in Ramps : data[o][k] = Told(runtime, k)
      BY <1>2, <1>5, <1>a, <2>5, BetweenCalls
    <3>2. Coming(w, next, "speed")
      BY <2>2 DEF Coming
    <3>3. Aim(w, Selected(register), next)
      BY <2>2 DEF Aim, Selecting
    <3> HIDE DEF w
    <3> QED
      BY <2>2, <2>3, <3>1, <3>2, <3>3 DEF PairReady, Due
  <2>6. PairOnly(w, r) => ~ r.single
    BY DEF PairOnly
  <2> HIDE DEF w
  <2> QED
    BY <1>5, <2>1, <2>4, <2>5, <2>6, CallCommanded
<1>6. CASE r.mode = "Speed" /\ ~ r.pair
  <2>1. Call("loop", r, PreparePair(r))
    BY <1>3, <1>6
  <2> QED
    BY <1>2, <1>6, <2>1, PairCallAlone
<1> QED
  BY <1>4, <1>5, <1>6, <1>b

LEMMA SetRampCommanded ==
  ASSUME DataInv, CommandedInv, NEW k \in Ramps, NEW v \in Rates, SetRamp(k, v)
  PROVE  CommandedInv'
<1> DEFINE r == [runtime EXCEPT !.ramp[k] = v]
           x == IF runtime.pair THEN <<Write(0, k, v), Write(1, k, v)>> ELSE <<>>
           y == IF runtime.single THEN <<Write(2, k, v)>> ELSE <<>>
           w == Parts(RampUpdate(k, v))
<1>1. runtime \in Runtimes
  BY DEF DataInv, OperationTypeOK
<1>2. /\ r \in Runtimes /\ r.mode = runtime.mode /\ r.speed = runtime.speed
      /\ (r.pair <=> runtime.pair) /\ (r.single <=> runtime.single)
      /\ r.ramp = [runtime.ramp EXCEPT ![k] = v] /\ runtime.ramp \in [Ramps -> Rates]
  BY <1>1 DEF Runtimes
<1>3. Call("loop", r, RampUpdate(k, v)) /\ Idle /\ bus
  BY DEF SetRamp, Call
<1>4. /\ Parts(x) = IF runtime.pair THEN {Write(0, k, v), Write(1, k, v)} ELSE {}
      /\ Parts(y) = IF runtime.single THEN {Write(2, k, v)} ELSE {}
  BY ShortParts
<1>5. x \in Seq(Items) /\ y \in Seq(Items)
  <2>1. \A o \in Operations : Write(o, k, v) \in Items
    BY SimpleItems, ItemTypes
  <2> QED
    BY <2>1 DEF Operations
<1>6. RampUpdate(k, v) = x \o y
  BY DEF RampUpdate
<1> HIDE DEF r
<1>7. w = Parts(x) \cup Parts(y)
  <2> HIDE DEF x, y
  <2> QED
    BY <1>5, <1>6, JoinedParts
<1>8. w = (IF runtime.pair THEN {Write(0, k, v), Write(1, k, v)} ELSE {})
          \cup (IF runtime.single THEN {Write(2, k, v)} ELSE {})
  BY <1>4, <1>7
<1> HIDE DEF w, x, y
<1>9. \A i \in w : /\ i.do = "data" /\ i.field = k /\ i.value = v
                   /\ i.o \in {0, 1} => runtime.pair
  BY <1>8, PartFields
<1>10. k # "form" /\ k # "speed" /\ k # "position" /\ Told(r, k) = v
  BY <1>2, OperationAssumption DEF Told
<1>11. \A j \in {"form", "speed"} \cup Ramps : j # k => Told(r, j) = Told(runtime, j)
  BY <1>2, OperationAssumption DEF Told
<1>12. WritesTrue(w, r)
  BY <1>9, <1>10 DEF WritesTrue
<1>13. r.mode = "Position" => r.single
  BY <1>2, <1>3, BetweenCalls
<1>14. ~ Preparing(w, "pair")
  BY <1>9 DEF Preparing
<1>15. ASSUME r.pair, ~ r.single PROVE PairReady(w, data, r, Selected(register))
  <2>1. /\ \A o \in {0, 1} : /\ data[o]["form"] = Told(runtime, "form")
                             /\ \A j \in Ramps : data[o][j] = Told(runtime, j)
        /\ Selected(register) \in {0, 1}
        /\ data[Selected(register)]["speed"] = Told(runtime, "speed")
    BY <1>2, <1>3, <1>15, BetweenCalls
  <2>2. \A o \in {0, 1} : Coming(w, o, k)
    <3>1. Write(0, k, v) \in w /\ Write(1, k, v) \in w
      BY <1>2, <1>8, <1>15
    <3> QED
      BY <3>1, PartFields DEF Coming
  <2>3. Aim(w, Selected(register), Selected(register))
    BY <1>9 DEF Aim
  <2> QED
    BY <1>10, <1>11, <2>1, <2>2, <2>3 DEF PairReady, Due
<1>16. PairOnly(w, r) => ~ r.single
  BY DEF PairOnly
<1> QED
  BY <1>3, <1>12, <1>13, <1>14, <1>15, <1>16, CallCommanded DEF w

\* What turns, stops or enables the motor has to do with no operation.
LEMMA FlagParts ==
  /\ \A d : Turn(d) \in Seq(Items)
  /\ \A d : \A i \in Parts(Turn(d)) : i.do = "flag"
  /\ \A f : \A i \in Parts(Pulse(f)) : i.do = "flag"
  /\ \A i \in Parts(<<Flag("FWD", FALSE), Flag("RVS", FALSE)>>) : i.do = "flag"
  /\ \A f, on : \A i \in Parts(<<Flag(f, on), Enabled(on)>>) : i.do \in {"flag", "enabled"}
<1>1. \A a, b : Parts(<<a, b>>) = {a, b}
  BY ShortParts, Zenon
<1>2. \A f, on, g, off :
        \A i \in Parts(<<Flag(f, on), Flag(g, off)>>) : i.do = "flag"
  <2> SUFFICES ASSUME NEW f, NEW on, NEW g, NEW off
               PROVE  \A i \in Parts(<<Flag(f, on), Flag(g, off)>>) : i.do = "flag"
    OBVIOUS
  <2> DEFINE a == Flag(f, on)
             b == Flag(g, off)
  <2>1. a.do = "flag" /\ b.do = "flag"
    BY PartFields
  <2> HIDE DEF a, b
  <2>2. \A i \in Parts(<<a, b>>) : i.do = "flag"
    BY <1>1, <2>1
  <2> QED
    BY <2>2 DEF a, b
<1>3. \A d : Turn(d) \in Seq(Items)
  BY SimpleItems, HarmlessShape
<1>4. ASSUME NEW d PROVE \A i \in Parts(Turn(d)) : i.do = "flag"
  <2> DEFINE a == <<Flag("RVS", FALSE), Flag("FWD", TRUE)>>
             b == <<Flag("FWD", FALSE), Flag("RVS", TRUE)>>
  <2>1. \A i \in Parts(a) : i.do = "flag"
    BY <1>2, Zenon
  <2>2. \A i \in Parts(b) : i.do = "flag"
    BY <1>2, Zenon
  <2>3. Turn(d) = IF d = "Forward" THEN a ELSE b
    BY DEF Turn
  <2> HIDE DEF a, b
  <2> QED
    BY <2>1, <2>2, <2>3
<1>5. \A f : \A i \in Parts(Pulse(f)) : i.do = "flag"
  BY <1>2, Zenon DEF Pulse
<1>6. \A f, on : \A i \in Parts(<<Flag(f, on), Enabled(on)>>) : i.do \in {"flag", "enabled"}
  BY <1>1, PartFields
<1> QED
  BY <1>2, <1>3, <1>4, <1>5, <1>6, Zenon

LEMMA SetPositionCommanded ==
  ASSUME DataInv, CommandedInv, NEW p \in Positions, SetPosition(p)
  PROVE  CommandedInv'
<1> DEFINE r == [runtime EXCEPT !.position = p]
           a == PrepareSingle(runtime)
           b == <<Write(2, "position", p)>>
<1>1. runtime \in Runtimes
  BY DEF DataInv, OperationTypeOK
<1>2. r \in Runtimes /\ SameOrders(r, runtime)
  BY <1>1 DEF Runtimes, SameOrders
<1>3. Call("loop", r, IF runtime.mode = "Speed" THEN <<>> ELSE a \o b) /\ Idle /\ bus
  BY DEF SetPosition, Call
<1>4. a \in Seq(Items) /\ b \in Seq(Items)
  <2>1. Write(2, "position", p) \in Items
    BY SimpleItems, ItemTypes
  <2>2. b \in Seq(Items)
    BY <2>1
  <2> HIDE DEF b
  <2> QED
    BY <1>1, <2>2, SingleParts
<1>5. Parts(b) = {Write(2, "position", p)}
  BY ShortParts
<1>6. \A i \in Parts(a) : i.do = "data" => i.o = 2
  BY <1>1, SingleParts
<1>7. \A i \in Parts(b) : i.o = 2
  BY <1>5, PartFields
<1> HIDE DEF r, a, b
<1>8. CASE runtime.mode = "Speed"
  <2>1. Call("loop", r, <<>>) /\ Parts(<<>>) = {}
    BY <1>3, <1>8, ShortParts
  <2> QED
    BY <1>2, <2>1, PlainCall
<1>9. CASE runtime.mode # "Speed"
  <2>1. r.single
    <3>1. runtime.mode = "Position"
      BY <1>1, <1>9 DEF Runtimes
    <3>2. runtime.single
      BY <1>3, <3>1, BetweenCalls
    <3> QED
      BY <1>2, <3>2, Zenon DEF SameOrders
  <2>2. Parts(a \o b) = Parts(a) \cup Parts(b)
    BY <1>4, JoinedParts
  <2>3. \A i \in Parts(a \o b) : i.do = "data" => i.o = 2
    BY <1>6, <1>7, <2>2
  <2> QED
    BY <1>3, <1>9, <2>1, <2>3, SingleCall
<1> QED
  BY <1>8, <1>9

LEMMA SetDirectionCommanded ==
  ASSUME DataInv, CommandedInv, NEW d \in {"Forward", "Reverse"}, SetDirection(d)
  PROVE  CommandedInv'
<1> DEFINE r == [runtime EXCEPT !.direction = d]
<1>1. runtime \in Runtimes
  BY DEF DataInv, OperationTypeOK
<1>2. r \in Runtimes /\ SameOrders(r, runtime)
  BY <1>1 DEF Runtimes, SameOrders
<1>3. Call("loop", r, Turn(d))
  BY DEF SetDirection
<1> HIDE DEF r
<1>4. \A i \in Parts(Turn(d)) : i.do = "flag"
  BY FlagParts, Zenon
<1> QED
  BY <1>2, <1>3, <1>4, PlainCall

LEMMA SameAsItself == \A r : SameOrders(r, r)
BY Zenon DEF SameOrders

LEMMA StartMovementCommanded ==
  ASSUME DataInv, CommandedInv, StartMovement
  PROVE  CommandedInv'
<1> DEFINE a == PrepareSingle(runtime)
           b == <<Write(2, "position", runtime.position), Select(2)>>
           c == Pulse("START")
           t == Turn(runtime.direction)
<1>1. runtime \in Runtimes /\ runtime.position \in Positions
  BY DEF DataInv, OperationTypeOK, Runtimes
<1>2. /\ Call("loop", runtime, IF runtime.mode = "Speed" THEN PreparePair(runtime) \o t
                               ELSE a \o b \o c)
      /\ Idle /\ bus
  BY DEF StartMovement, Call
<1>3. t \in Seq(Items) /\ \A i \in Parts(t) : i.do = "flag"
  BY FlagParts, Zenon
<1>4. CASE runtime.mode = "Speed" /\ ~ runtime.pair
  <2> HIDE DEF t
  <2>1. Call("loop", runtime, PreparePair(runtime) \o t)
    BY <1>2, <1>4
  <2>2. \A i \in Parts(t) : i.do \notin {"data", "select", "prepared"}
    BY <1>3
  <2> QED
    BY <1>1, <1>3, <1>4, <2>1, <2>2, PairCall
<1>5. CASE runtime.mode = "Speed" /\ runtime.pair
  <2> HIDE DEF t
  <2>1. PreparePair(runtime) \o t = t
    BY <1>3, <1>5, ConcatEmptySeq DEF PreparePair
  <2>2. Call("loop", runtime, t)
    BY <1>2, <1>5, <2>1
  <2> QED
    BY <1>1, <1>3, <2>2, SameAsItself, PlainCall
<1>6. CASE runtime.mode # "Speed"
  <2>1. runtime.mode = "Position"
    BY <1>1, <1>6 DEF Runtimes
  <2>2. runtime.single
    BY <1>2, <2>1, BetweenCalls
  <2>3. a \in Seq(Items) /\ \A i \in Parts(a) : i.do = "data" => i.o = 2
    BY <1>1, SingleParts
  <2>4. b \in Seq(Items) /\ c \in Seq(Items)
    <3>1. Write(2, "position", runtime.position) \in Items /\ Select(2) \in Items
      BY <1>1, SimpleItems, ItemTypes DEF Items, Exchanges, Select, Operations
    <3>2. b \in Seq(Items)
      BY <3>1
    <3> HIDE DEF b
    <3> QED
      BY <3>2, SimpleItems, HarmlessShape
  <2>5. /\ Parts(b) = {Write(2, "position", runtime.position), Select(2)}
        /\ \A i \in Parts(c) : i.do = "flag"
    <3>1. \A x, y : Parts(<<x, y>>) = {x, y}
      BY ShortParts, Zenon
    <3>2. Parts(b) = {Write(2, "position", runtime.position), Select(2)}
      BY <3>1
    <3> QED
      BY <3>2, FlagParts, Zenon
  <2>6. \A i \in Parts(b) : i.do = "data" => i.o = 2
    BY <2>5, PartFields
  <2> HIDE DEF a, b, c
  <2>7. a \o b \in Seq(Items) /\ Parts(a \o b) = Parts(a) \cup Parts(b)
    BY <2>3, <2>4, ConcatProperties, JoinedParts
  <2> DEFINE x == a \o b
  <2>8. x \in Seq(Items)
    BY <2>7
  <2> HIDE DEF x
  <2>9. Parts(x \o c) = Parts(x) \cup Parts(c)
    BY <2>4, <2>8, JoinedParts
  <2>10. \A i \in Parts(x \o c) : i.do = "data" => i.o = 2
    BY <2>3, <2>5, <2>6, <2>7, <2>9 DEF x
  <2>11. Call("loop", runtime, x \o c)
    BY <1>2, <1>6 DEF x
  <2> QED
    BY <2>2, <2>10, <2>11, SingleCall
<1> QED
  BY <1>4, <1>5, <1>6

LEMMA StopMovementCommanded ==
  ASSUME DataInv, CommandedInv, StopMovement
  PROVE  CommandedInv'
<1> DEFINE s == IF runtime.mode = "Speed"
                THEN <<Flag("FWD", FALSE), Flag("RVS", FALSE)>> ELSE Pulse("STOP")
<1>1. runtime \in Runtimes
  BY DEF DataInv, OperationTypeOK
<1>2. Call("loop", runtime, s)
  BY DEF StopMovement
<1>3. \A i \in Parts(s) : i.do = "flag"
  <2>1. CASE runtime.mode = "Speed"
    BY <2>1, FlagParts
  <2>2. CASE runtime.mode # "Speed"
    BY <2>2, FlagParts
  <2> QED
    BY <2>1, <2>2
<1> HIDE DEF s
<1> QED
  BY <1>1, <1>2, <1>3, SameAsItself, PlainCall

LEMMA OnAlarmClearedCommanded ==
  ASSUME DataInv, CommandedInv, OnAlarmCleared
  PROVE  CommandedInv'
<1> DEFINE f == Flag("C-ON", FALSE)
           e == Enabled(FALSE)
           a == <<Read>>
           b == IF Assigned(assigned, "C-ON") THEN <<f>> ELSE <<>>
           c == <<e>>
<1>1. runtime \in Runtimes
  BY DEF DataInv, OperationTypeOK
<1>2. Call("loop", runtime, a \o b \o c)
  BY DEF OnAlarmCleared
<1>a. f.do = "flag" /\ e.do = "enabled"
  BY DEF Flag, Enabled
<1> HIDE DEF f, e
<1> DEFINE S == {Read, f, e}
<1>3. a \in Seq(S) /\ b \in Seq(S) /\ c \in Seq(S)
  <2>1. a \in Seq(S) /\ c \in Seq(S) /\ <<f>> \in Seq(S) /\ <<>> \in Seq(S)
    OBVIOUS
  <2> HIDE DEF S
  <2> QED
    BY <2>1
<1>4. \A i \in S : i.do \in {"read", "flag", "enabled"}
  BY <1>a DEF Read
<1> HIDE DEF a, b, c, S
<1>5. a \o b \o c \in Seq(S)
  <2>1. a \o b \in Seq(S)
    BY <1>3, ConcatProperties
  <2> QED
    BY <1>3, <2>1, ConcatProperties
<1> DEFINE s == a \o b \o c
<1>6. s \in Seq(S)
  BY <1>5
<1> HIDE DEF s
<1>7. \A i \in Parts(s) : i \in S
  BY <1>6, ElementOfSeq DEF Parts
<1> QED
  BY <1>1, <1>2, <1>4, <1>7, SameAsItself, PlainCall DEF s

LEMMA SetEnabledCommanded ==
  ASSUME DataInv, CommandedInv, NEW on \in BOOLEAN, SetEnabled(on)
  PROVE  CommandedInv'
<1> DEFINE s == <<Flag("C-ON", on), Enabled(on)>>
<1>1. runtime \in Runtimes
  BY DEF DataInv, OperationTypeOK
<1>2. Call("command", runtime, s)
  BY DEF SetEnabled
<1>3. \A i \in Parts(s) : i.do \in {"flag", "enabled"}
  BY FlagParts, Zenon
<1> HIDE DEF s
<1> QED
  BY <1>1, <1>2, <1>3, SameAsItself, PlainCall

LEMMA QuietParts ==
  ASSUME NEW s \in Seq(Quiet)
  PROVE  \A i \in Parts(s) : i.do \in {"read", "other", "settings", "started"}
<1>1. \A i \in Quiet : i.do \in {"read", "other", "settings", "started"}
  BY DEF Quiet, Read, Other, Settings, Started
<1> QED
  BY <1>1, ElementOfSeq DEF Parts

LEMMA GuardedCommanded ==
  ASSUME DataInv, CommandedInv, Diagnose \/ (\E alarm \in BOOLEAN : ResetAlarm(alarm))
  PROVE  CommandedInv'
<1>1. runtime \in Runtimes
  BY DEF DataInv, OperationTypeOK
<1>2. ASSUME NEW s \in Seq(Quiet), Call("guarded", runtime, s) PROVE CommandedInv'
  BY <1>1, <1>2, QuietParts, SameAsItself, PlainCall
<1>3. Read \in Quiet /\ Other \in Quiet /\ Settings("write") \in Quiet /\ Settings("execute") \in Quiet
  BY DEF Quiet
<1>4. CASE Diagnose
  <2> DEFINE a == <<Read, Other>>
             b == <<Other>>
  <2>1. a \in Seq(Quiet) /\ b \in Seq(Quiet)
    BY <1>3
  <2>2. Call("guarded", runtime, a \o b)
    BY <1>4 DEF Diagnose, StatusReads, CodeReads
  <2> HIDE DEF a, b
  <2>3. a \o b \in Seq(Quiet)
    BY <2>1, ConcatProperties
  <2> QED
    BY <1>2, <2>2, <2>3
<1>5. ASSUME NEW alarm \in BOOLEAN, ResetAlarm(alarm) PROVE CommandedInv'
  <2> DEFINE a == <<Other>>
             b == IF alarm THEN <<Other, Other>> ELSE <<>>
             c == <<Settings("write"), Settings("execute")>>
  <2>1. a \in Seq(Quiet) /\ b \in Seq(Quiet) /\ c \in Seq(Quiet)
    BY <1>3
  <2>2. Call("guarded", runtime, a \o b \o c)
    BY <1>5 DEF ResetAlarm, ApplyParameters
  <2> HIDE DEF a, b, c
  <2>3. a \o b \in Seq(Quiet)
    BY <2>1, ConcatProperties
  <2>4. a \o b \o c \in Seq(Quiet)
    BY <2>1, <2>3, ConcatProperties
  <2> QED
    BY <1>2, <2>2, <2>4
<1> QED
  BY <1>4, <1>5

LEMMA InitializeCommanded ==
  ASSUME DataInv, CommandedInv, Initialize
  PROVE  CommandedInv'
<1> DEFINE s == MotorInitialize \o ApplyParameters \o <<Read, Started>>
<1>1. todo' = s /\ runtime' = FreshRuntime
  BY DEF Initialize
<1>2. \A i \in Parts(s) : i.do \in {"read", "other", "settings", "started"}
  <2> DEFINE a == MotorInitialize
             b == ApplyParameters
             c == <<Read, Started>>
  <2>1. a \in Seq(Quiet) /\ b \in Seq(Quiet) /\ c \in Seq(Quiet)
    <3>1. /\ Other \in Quiet /\ Read \in Quiet /\ Started \in Quiet
          /\ Settings("write") \in Quiet /\ Settings("execute") \in Quiet
      BY DEF Quiet
    <3> QED
      BY <3>1 DEF MotorInitialize, ApplyParameters
  <2> HIDE DEF a, b, c
  <2>2. a \o b \in Seq(Quiet)
    BY <2>1, ConcatProperties
  <2>3. a \o b \o c \in Seq(Quiet)
    BY <2>1, <2>2, ConcatProperties
  <2> QED
    BY <2>3, QuietParts DEF a, b, c
<1> HIDE DEF s
<1>3. /\ WritesTrue(Parts(s), FreshRuntime) /\ ~ Preparing(Parts(s), "pair")
      /\ \A i \in Parts(s) : i.do \notin {"data", "select", "prepared"}
  BY <1>2 DEF WritesTrue, Preparing
<1>4. ~ FreshRuntime.pair /\ FreshRuntime.mode = "Speed"
  BY DEF FreshRuntime
<1>5. /\ WritesTrue(Parts(todo'), runtime') /\ ~ Preparing(Parts(todo'), "pair")
      /\ \A i \in Parts(todo') : i.do \notin {"data", "select", "prepared"}
      /\ ~ runtime'.pair /\ runtime'.mode = "Speed"
  BY <1>1, <1>3, <1>4
<1> QED
  BY <1>5 DEF CommandedInv

-----------------------------------------------------------------------------
\* The first of the things to do is done; what it did not change stays.
LEMMA ProceedParts ==
  ASSUME DataInv, CommandedInv, Proceed, todo # <<>>, UNCHANGED <<assigned, bus>>
  PROVE  /\ bus /\ Head(todo) \in Items
         /\ Parts(todo) = {Head(todo)} \cup Parts(todo')
         /\ \A i \in Parts(todo') : i.do \in {"data", "select", "prepared"} => caller' = "loop"
<1>1. todo \in Seq(Items) /\ todo' = Tail(todo)
  BY DEF DataInv, OperationTypeOK, Items, Proceed
<1>2. Head(todo) \in Items /\ Parts(todo) = {Head(todo)} \cup Parts(todo')
  BY <1>1, PartsLater
<1>3. bus /\ Len(todo) \in Nat \ {0} /\ Len(todo') = Len(todo) - 1 /\ (Len(todo) > 1 => caller' = caller)
  BY ProceedFacts
<1>4. ASSUME NEW i \in Parts(todo'), i.do \in {"data", "select", "prepared"}
      PROVE  caller' = "loop"
  <2>1. caller = "loop"
    BY <1>2, <1>4 DEF CommandedInv
  <2>2. Len(todo') # 0
    BY <1>4 DEF Parts
  <2> QED
    BY <1>3, <2>1, <2>2
<1> QED
  BY <1>2, <1>3, <1>4

\* An exchange that has to do with no operation, and the conclusions about
\* C-ON.
LEMMA PlainExchange ==
  ASSUME DataInv, CommandedInv, Proceed, todo # <<>>,
         UNCHANGED <<assigned, register, data, bus>>,
         Head(todo).do \notin {"data", "select", "prepared"},
         SameOrders(runtime', runtime)
  PROVE  CommandedInv'
<1> DEFINE w == Parts(todo)
           x == Parts(todo')
           h == Head(todo)
           g == Selected(register)
<1>1. /\ bus /\ w = {h} \cup x
      /\ \A i \in x : i.do \in {"data", "select", "prepared"} => caller' = "loop"
  BY ProceedParts
<1>2. Selected(register)' = g /\ bus' = bus /\ data' = data
  BY DEF Selected
<1>3. \A k : Told(runtime', k) = Told(runtime, k)
  BY DEF Told, SameOrders
<1>4. /\ runtime'.mode = runtime.mode /\ (runtime'.pair <=> runtime.pair)
      /\ (runtime'.single <=> runtime.single)
  BY Zenon DEF SameOrders
<1>5. h.do \notin {"data", "select", "prepared"}
  OBVIOUS
<1>6. /\ WritesTrue(w, runtime)
      /\ bus /\ runtime.mode = "Position" => ~ PairOnly(w, runtime)
      /\ bus /\ PairOnly(w, runtime) /\ (runtime.pair \/ Preparing(w, "pair"))
         => PairReady(w, data, runtime, g)
  BY DEF CommandedInv
<1> HIDE DEF w, x, h, g
<1>7. \A what : Preparing(x, what) <=> Preparing(w, what)
  BY <1>1, <1>5 DEF Preparing
<1>8. PairOnly(x, runtime') <=> PairOnly(w, runtime)
  BY <1>4, <1>7 DEF PairOnly
<1>9. WritesTrue(x, runtime')
  BY <1>1, <1>3, <1>6 DEF WritesTrue
<1>10. ASSUME PairReady(w, data, runtime, g) PROVE PairReady(x, data, runtime', g)
  <2>1. \A o, k : Due(w, data, runtime, o, k) => Due(x, data, runtime', o, k)
    BY <1>1, <1>3, <1>5 DEF Due, Coming
  <2>2. \A n : Aim(w, g, n) => Aim(x, g, n)
    BY <1>1, <1>5 DEF Aim, Selecting
  <2> QED
    BY <1>10, <2>1, <2>2 DEF PairReady
<1>11. /\ WritesTrue(x, runtime')
       /\ \A i \in x : i.do \in {"data", "select", "prepared"} => caller' = "loop"
       /\ bus' /\ runtime'.mode = "Position" => ~ PairOnly(x, runtime')
       /\ bus' /\ PairOnly(x, runtime') /\ (runtime'.pair \/ Preparing(x, "pair"))
          => PairReady(x, data', runtime', Selected(register)')
  BY <1>1, <1>2, <1>4, <1>6, <1>7, <1>8, <1>9, <1>10
<1> QED
  BY <1>11 DEF CommandedInv, x

LEMMA WriteDataCommanded ==
  ASSUME DataInv, CommandedInv, WriteData
  PROVE  CommandedInv'
<1> DEFINE w == Parts(todo)
           x == Parts(todo')
           h == Head(todo)
           g == Selected(register)
           K == {"form", "speed"} \cup Ramps
<1>1. /\ Proceed /\ todo # <<>> /\ h.do = "data"
      /\ data' = [data EXCEPT ![h.o][h.field] = h.value]
      /\ UNCHANGED <<assigned, register, bus, runtime>>
  BY DEF WriteData, Doing, memory
<1>2. /\ bus /\ h \in Items /\ w = {h} \cup x
      /\ \A i \in x : i.do \in {"data", "select", "prepared"} => caller' = "loop"
  BY <1>1, ProceedParts
<1>3. h.o \in Operations /\ h.field \in Fields /\ h.value \in Values
  BY <1>1, <1>2 DEF Items, Exchanges, Conclusions
<1>4. data \in [Operations -> [Fields -> Values]]
  BY DEF DataInv, OperationTypeOK
<1>5. Selected(register)' = g /\ bus' = bus /\ runtime' = runtime
  BY <1>1 DEF Selected
<1>6. /\ WritesTrue(w, runtime)
      /\ bus /\ runtime.mode = "Position" => ~ PairOnly(w, runtime)
      /\ bus /\ PairOnly(w, runtime) /\ (runtime.pair \/ Preparing(w, "pair"))
         => PairReady(w, data, runtime, g)
  BY DEF CommandedInv
<1>7. {0, 1} \subseteq Operations /\ K \subseteq Fields
  BY DEF Operations, Fields
<1> HIDE DEF w, x, h, g, K
<1>8. \A o \in {0, 1} : \A k \in K :
        data'[o][k] = IF h.o = o /\ h.field = k THEN h.value ELSE data[o][k]
  BY <1>1, <1>3, <1>4, <1>7
<1>9. \A what : Preparing(x, what) <=> Preparing(w, what)
  BY <1>1, <1>2 DEF Preparing
<1>10. PairOnly(x, runtime) <=> PairOnly(w, runtime)
  BY <1>9 DEF PairOnly
<1>11. WritesTrue(x, runtime)
  BY <1>2, <1>6 DEF WritesTrue
<1>12. ASSUME PairReady(w, data, runtime, g) PROVE PairReady(x, data', runtime, g)
  <2>1. ASSUME NEW o \in {0, 1}, NEW k \in K, Due(w, data, runtime, o, k)
        PROVE  Due(x, data', runtime, o, k)
    <3>1. CASE h.o = o /\ h.field = k
      <4>1. h.value = Told(runtime, k)
        BY <1>1, <1>2, <1>6, <3>1 DEF WritesTrue
      <4> QED
        BY <1>8, <3>1, <4>1 DEF Due
    <3>2. CASE ~ (h.o = o /\ h.field = k)
      <4>1. data'[o][k] = data[o][k]
        BY <1>8, <3>2
      <4> QED
        BY <1>2, <2>1, <3>2, <4>1 DEF Due, Coming
    <3> QED
      BY <3>1, <3>2
  <2>2. \A n : Aim(w, g, n) => Aim(x, g, n)
    BY <1>1, <1>2 DEF Aim, Selecting
  <2>3. "form" \in K /\ "speed" \in K /\ Ramps \subseteq K
    BY DEF K
  <2> QED
    BY <1>12, <2>1, <2>2, <2>3 DEF PairReady
<1>13. /\ WritesTrue(x, runtime')
       /\ \A i \in x : i.do \in {"data", "select", "prepared"} => caller' = "loop"
       /\ bus' /\ runtime'.mode = "Position" => ~ PairOnly(x, runtime')
       /\ bus' /\ PairOnly(x, runtime') /\ (runtime'.pair \/ Preparing(x, "pair"))
          => PairReady(x, data', runtime', Selected(register)')
  BY <1>2, <1>5, <1>6, <1>9, <1>10, <1>11, <1>12
<1> QED
  BY <1>13 DEF CommandedInv, x

\* As long as the pair is being prepared, the choice of the operation is to
\* come when anything else is at the head.
LEMMA ChoiceToCome ==
  ASSUME DataInv, CommandedInv, Proceed, todo # <<>>, UNCHANGED <<assigned, bus>>,
         Head(todo).do # "select", Preparing(Parts(todo'), "pair")
  PROVE  Selecting(Parts(todo'))
<1>1. /\ Len(todo) \in Nat \ {0} /\ Len(todo') = Len(todo) - 1 /\ Head(todo) = todo[1]
      /\ \A i \in 1..Len(todo') : todo'[i] = todo[i + 1]
  BY ProceedFacts
<1>2. PICK j \in 1..Len(todo') : IsPair(todo'[j])
  BY DEF Preparing, Parts, IsPair
<1>3. j + 1 \in 1..Len(todo) /\ IsPair(todo[j + 1]) /\ j + 1 > 1 /\ (j + 1) - 1 = j
  BY <1>1, <1>2
<1>4. todo[j].do = "select"
  BY <1>3 DEF DataInv, Shape
<1>5. j # 1
  BY <1>1, <1>4
<1>6. j - 1 \in 1..Len(todo') /\ todo'[j - 1] = todo[j]
  BY <1>1, <1>2, <1>5
<1> QED
  BY <1>4, <1>6 DEF Selecting, Parts

LEMMA WriteInputCommanded ==
  ASSUME DataInv, CommandedInv, WriteInput
  PROVE  CommandedInv'
<1> DEFINE w == Parts(todo)
           x == Parts(todo')
           h == Head(todo)
           g == Selected(register)
           new == Selected(register)'
<1>1. /\ Proceed /\ todo # <<>> /\ h.do \in {"flag", "select"}
      /\ register' = NewRegister(h)
      /\ UNCHANGED <<assigned, data, bus, runtime>>
  BY DEF WriteInput, Doing
<1>2. /\ bus /\ h \in Items /\ w = {h} \cup x
      /\ \A i \in x : i.do \in {"data", "select", "prepared"} => caller' = "loop"
  BY <1>1, ProceedParts
<1>3. new = Selected(NewRegister(h)) /\ bus' = bus /\ runtime' = runtime /\ data' = data
  BY <1>1 DEF Selected
<1>4. h.do = "select" => new = h.o
  <2> SUFFICES ASSUME h.do = "select" PROVE new = h.o
    OBVIOUS
  <2>1. h.o \in Operations
    BY <1>2 DEF Items, Exchanges, Conclusions
  <2>2. assigned \in Assignments
    BY DEF DataInv, OperationTypeOK
  <2>3. NewRegister(h) = WithOperation(rawCache, h.o)
    BY DEF NewRegister
  <2> QED
    BY <1>3, <2>1, <2>2, <2>3, SelectionFacts
<1>5. ASSUME h.do = "flag", runtime.pair \/ Preparing(w, "pair")
      PROVE  new = g \/ Selecting(x)
  <2>1. CASE runtime.pair
    <3>1. rawCache # NoCache /\ new = Selected(rawCache)
      BY <1>1, <1>3, <1>5, CacheThere
    <3> QED
      BY <2>1, <3>1 DEF DataInv, PairInv
  <2>2. CASE Preparing(w, "pair")
    <3>1. Preparing(x, "pair")
      BY <1>2, <1>5, <2>2 DEF Preparing
    <3> QED
      BY <1>1, <1>5, <3>1, ChoiceToCome
  <2> QED
    BY <1>5, <2>1, <2>2
<1>6. /\ WritesTrue(w, runtime)
      /\ bus /\ runtime.mode = "Position" => ~ PairOnly(w, runtime)
      /\ bus /\ PairOnly(w, runtime) /\ (runtime.pair \/ Preparing(w, "pair"))
         => PairReady(w, data, runtime, g)
  BY DEF CommandedInv
<1> HIDE DEF w, x, h, g, new
<1>7. \A what : Preparing(x, what) <=> Preparing(w, what)
  BY <1>1, <1>2 DEF Preparing
<1>8. PairOnly(x, runtime) <=> PairOnly(w, runtime)
  BY <1>7 DEF PairOnly
<1>9. WritesTrue(x, runtime)
  BY <1>2, <1>6 DEF WritesTrue
<1>10. ASSUME PairReady(w, data, runtime, g), runtime.pair \/ Preparing(w, "pair")
       PROVE  PairReady(x, data, runtime, new)
  <2>1. \A o, k : Due(w, data, runtime, o, k) => Due(x, data, runtime, o, k)
    BY <1>1, <1>2 DEF Due, Coming
  <2>2. ASSUME NEW n, Aim(w, g, n) PROVE Aim(x, new, n)
    <3>1. CASE h.do = "select"
      BY <1>2, <1>4, <2>2, <3>1 DEF Aim
    <3>2. CASE h.do = "flag"
      BY <1>2, <1>5, <1>10, <2>2, <3>2 DEF Aim, Selecting
    <3> QED
      BY <1>1, <3>1, <3>2
  <2> QED
    BY <1>10, <2>1, <2>2 DEF PairReady
<1>11. /\ WritesTrue(x, runtime')
       /\ \A i \in x : i.do \in {"data", "select", "prepared"} => caller' = "loop"
       /\ bus' /\ runtime'.mode = "Position" => ~ PairOnly(x, runtime')
       /\ bus' /\ PairOnly(x, runtime') /\ (runtime'.pair \/ Preparing(x, "pair"))
          => PairReady(x, data', runtime', new)
  BY <1>2, <1>3, <1>6, <1>7, <1>8, <1>9, <1>10
<1> QED
  BY <1>11 DEF CommandedInv, x, new

LEMMA ConcludeCommanded ==
  ASSUME DataInv, CommandedInv, NEW alarm \in BOOLEAN, Conclude(alarm)
  PROVE  CommandedInv'
<1> DEFINE w == Parts(todo)
           x == Parts(todo')
           h == Head(todo)
           g == Selected(register)
<1>1. /\ Proceed /\ todo # <<>> /\ h.do \in {"prepared", "enabled", "started"}
      /\ UNCHANGED <<assigned, register, data, bus>>
      /\ runtime' =
           CASE h.do = "prepared" /\ h.what = "pair"   -> [runtime EXCEPT !.pair = TRUE]
             [] h.do = "prepared" /\ h.what = "single" -> [runtime EXCEPT !.single = TRUE]
             [] h.do = "enabled" -> [runtime EXCEPT !.enabled = h.on]
             [] h.do = "started" -> [runtime EXCEPT !.enabled = InitiallyEnabled(alarm)]
  BY DEF Conclude, Doing, driver
<1>2. /\ bus /\ h \in Items /\ w = {h} \cup x
      /\ \A i \in x : i.do \in {"data", "select", "prepared"} => caller' = "loop"
  BY <1>1, ProceedParts
<1>3. h.do = "prepared" => h.what \in {"pair", "single"}
  BY <1>2 DEF Items, Exchanges, Conclusions
<1>4. runtime \in Runtimes
  BY DEF DataInv, OperationTypeOK
<1>5. Selected(register)' = g /\ bus' = bus /\ data' = data
  BY <1>1 DEF Selected
<1>6. /\ WritesTrue(w, runtime)
      /\ bus /\ runtime.mode = "Position" => ~ PairOnly(w, runtime)
      /\ bus /\ PairOnly(w, runtime) /\ (runtime.pair \/ Preparing(w, "pair"))
         => PairReady(w, data, runtime, g)
  BY DEF CommandedInv
<1>7. CASE h.do \in {"enabled", "started"}
  <2>1. SameOrders(runtime', runtime)
    BY <1>1, <1>4, <1>7 DEF SameOrders, Runtimes
  <2> QED
    BY <1>1, <1>7, <2>1, PlainExchange
<1>8. CASE h.do = "prepared"
  <2>1. /\ runtime'.mode = runtime.mode /\ runtime'.speed = runtime.speed
        /\ runtime'.ramp = runtime.ramp
        /\ h.what = "pair" => (runtime'.single <=> runtime.single)
        /\ h.what = "single" => runtime'.single
    BY <1>1, <1>3, <1>4, <1>8 DEF Runtimes
  <2>2. \A k : Told(runtime', k) = Told(runtime, k)
    BY <2>1 DEF Told
  <2> HIDE DEF w, x, h, g
  <2>3. WritesTrue(x, runtime')
    BY <1>2, <1>6, <2>2 DEF WritesTrue
  <2>4. CASE h.what = "single"
    <3>1. ~ PairOnly(x, runtime')
      BY <2>1, <2>4 DEF PairOnly
    <3>2. /\ WritesTrue(x, runtime')
          /\ \A i \in x : i.do \in {"data", "select", "prepared"} => caller' = "loop"
          /\ bus' /\ runtime'.mode = "Position" => ~ PairOnly(x, runtime')
          /\ bus' /\ PairOnly(x, runtime') /\ (runtime'.pair \/ Preparing(x, "pair"))
             => PairReady(x, data', runtime', Selected(register)')
      BY <1>2, <2>3, <3>1
    <3> QED
      BY <3>2 DEF CommandedInv, x
  <2>5. CASE h.what = "pair"
    <3>1. PairOnly(x, runtime') <=> PairOnly(w, runtime)
      BY <1>2, <2>1, <2>5 DEF PairOnly, Preparing
    <3>2. Preparing(w, "pair")
      BY <1>2, <1>8, <2>5 DEF Preparing
    <3>3. ASSUME PairReady(w, data, runtime, g) PROVE PairReady(x, data, runtime', g)
      <4>1. \A o, k : Due(w, data, runtime, o, k) => Due(x, data, runtime', o, k)
        BY <1>2, <1>8, <2>2 DEF Due, Coming
      <4>2. \A n : Aim(w, g, n) => Aim(x, g, n)
        BY <1>2, <1>8 DEF Aim, Selecting
      <4> QED
        BY <3>3, <4>1, <4>2 DEF PairReady
    <3>4. /\ WritesTrue(x, runtime')
          /\ \A i \in x : i.do \in {"data", "select", "prepared"} => caller' = "loop"
          /\ bus' /\ runtime'.mode = "Position" => ~ PairOnly(x, runtime')
          /\ bus' /\ PairOnly(x, runtime') /\ (runtime'.pair \/ Preparing(x, "pair"))
             => PairReady(x, data', runtime', Selected(register)')
      BY <1>2, <1>5, <1>6, <2>1, <2>3, <3>1, <3>2, <3>3
    <3> QED
      BY <3>4 DEF CommandedInv, x
  <2> QED
    BY <1>3, <1>8, <2>4, <2>5
<1> QED
  BY <1>1, <1>7, <1>8

\* A failure of what writes operations makes MotorControl forget the motor; one
\* of anything else leaves the pair as it was, answered or not.
LEMMA FailureCommanded ==
  ASSUME DataInv, CommandedInv, NEW effect \in BOOLEAN, ExchangeFails(effect)
  PROVE  CommandedInv'
<1>1. /\ todo # <<>> /\ todo' = <<>> /\ Selected(register)' = Selected(register')
      /\ \/ register' = register
         \/ Head(todo).do = "flag" /\ Selected(register') = Selected(rawCache)
         \/ Head(todo).do = "select"
  BY FailureFacts
<1>2. Parts(todo') = {}
  BY <1>1, ShortParts
<1>3. /\ WritesTrue(Parts(todo'), runtime')
      /\ \A i \in Parts(todo') : i.do \in {"data", "select", "prepared"} => caller' = "loop"
      /\ \A what : ~ Preparing(Parts(todo'), what)
  BY <1>2 DEF WritesTrue, Preparing
<1>4. CASE Forget
  <2>1. ~ bus'
    BY <1>4 DEF Forget
  <2> QED
    BY <1>3, <2>1 DEF CommandedInv
<1>5. CASE caller \in {"command", "guarded"} /\ UNCHANGED memory
  <2>1. runtime' = runtime /\ bus' = bus
    BY <1>5 DEF memory
  <2>2. \A i \in Parts(todo) : i.do \notin {"data", "select", "prepared"}
    BY <1>5 DEF CommandedInv
  <2>3. Head(todo) \in Parts(todo) /\ bus
    <3>1. todo \in Seq(Items)
      BY DEF DataInv, OperationTypeOK, Items
    <3> QED
      BY <1>1, <3>1, PartsLater DEF DataInv, CallerInv
  <2>4. data' = data
    BY <2>2, <2>3 DEF ExchangeFails
  <2>5. runtime.pair => Selected(register)' = Selected(register)
    <3> SUFFICES ASSUME runtime.pair PROVE Selected(register') = Selected(register)
      BY <1>1
    <3>1. CASE register' = register
      BY <3>1
    <3>2. CASE Head(todo).do = "flag" /\ Selected(register') = Selected(rawCache)
      <4>1. rawCache # NoCache
        BY <1>1, <3>2, CacheThere
      <4> QED
        BY <3>2, <4>1 DEF DataInv, PairInv
    <3> QED
      BY <1>1, <2>2, <2>3, <3>1, <3>2
  <2>6. \A what : ~ Preparing(Parts(todo), what)
    BY <2>2 DEF Preparing
  <2>7. runtime.mode = "Position" => runtime.single
    BY <2>3, <2>6 DEF CommandedInv, PairOnly
  <2>8. ASSUME runtime.pair, ~ runtime.single
        PROVE  PairReady(Parts(todo'), data', runtime', Selected(register)')
    <3>1. PairReady(Parts(todo), data, runtime, Selected(register))
      BY <2>3, <2>6, <2>8 DEF CommandedInv, PairOnly
    <3>2. \A o, k : Due(Parts(todo), data, runtime, o, k) => Due({}, data, runtime, o, k)
      BY <2>2 DEF Due, Coming
    <3>3. \A n : Aim(Parts(todo), Selected(register), n) => Aim({}, Selected(register), n)
      BY <2>2 DEF Aim, Selecting
    <3>4. PairReady({}, data, runtime, Selected(register))
      BY <3>1, <3>2, <3>3 DEF PairReady
    <3> QED
      BY <1>2, <2>1, <2>4, <2>5, <2>8, <3>4
  <2>9. /\ bus' /\ runtime'.mode = "Position" => ~ PairOnly(Parts(todo'), runtime')
        /\ bus' /\ PairOnly(Parts(todo'), runtime')
           /\ (runtime'.pair \/ Preparing(Parts(todo'), "pair"))
           => PairReady(Parts(todo'), data', runtime', Selected(register)')
    BY <1>3, <2>1, <2>7, <2>8 DEF PairOnly
  <2> QED
    BY <1>3, <2>9 DEF CommandedInv
<1> QED
  BY <1>4, <1>5 DEF ExchangeFails, Failed

-----------------------------------------------------------------------------
LEMMA CommandedInit == Init => CommandedInv
<1> SUFFICES ASSUME Init PROVE CommandedInv
  OBVIOUS
<1>1. Parts(todo) = {} /\ ~ bus
  BY ShortParts DEF Init
<1> QED
  BY <1>1 DEF CommandedInv, WritesTrue

LEMMA CommandedStep == DataInv /\ CommandedInv /\ [Next]_vars => CommandedInv'
<1> SUFFICES ASSUME DataInv, CommandedInv, [Next]_vars PROVE CommandedInv'
  OBVIOUS
<1>1. CASE ControlLoop
  BY <1>1, SetModeCommanded, SetSpeedCommanded, SetRampCommanded, SetPositionCommanded,
     SetDirectionCommanded, StartMovementCommanded, StopMovementCommanded,
     OnAlarmClearedCommanded DEF ControlLoop
<1>2. CASE Operator
  BY <1>2, SetEnabledCommanded, GuardedCommanded, InitializeCommanded DEF Operator
<1>3. CASE Exchange
  <2>1. CASE ReadInput \/ WriteSettings \/ OtherExchange
    <3>1. /\ todo # <<>> /\ Head(todo).do \in {"read", "settings", "other"} /\ Proceed
          /\ UNCHANGED <<assigned, register, data, bus, runtime>>
      BY <2>1 DEF ReadInput, WriteSettings, OtherExchange, Doing, driver, memory
    <3>2. SameOrders(runtime', runtime)
      BY <3>1, SameAsItself
    <3> QED
      BY <3>1, <3>2, PlainExchange
  <2> QED
    BY <1>3, <2>1, WriteInputCommanded, WriteDataCommanded, ConcludeCommanded,
       FailureCommanded DEF Exchange
<1>4. CASE UNCHANGED vars
  <2>1. /\ register' = register /\ data' = data /\ bus' = bus /\ runtime' = runtime
        /\ caller' = caller /\ todo' = todo /\ assigned' = assigned
    BY <1>4 DEF vars, driver, memory
  <2>2. Selected(register)' = Selected(register)
    BY <2>1 DEF Selected
  <2> QED
    BY <2>1, <2>2 DEF CommandedInv
<1> QED
  BY <1>1, <1>2, <1>3, <1>4 DEF Next

\* Between calls, a motor that is used in speed mode only has selected an
\* operation with the speed and the ramps that it was last told, whichever
\* exchanges have failed before.
THEOREM RunsCommanded == Spec => []RunsAsCommanded
<1>1. ASSUME DataInv, CommandedInv PROVE RunsAsCommanded
  <2> SUFFICES ASSUME Idle, bus, runtime.pair, ~ runtime.single
               PROVE  /\ Selected(register) \in {0, 1}
                      /\ data[Selected(register)]["form"] = Incremental
                      /\ data[Selected(register)]["speed"] = runtime.speed
                      /\ \A k \in Ramps : data[Selected(register)][k] = runtime.ramp[k]
    BY DEF RunsAsCommanded
  <2>1. /\ \A o \in {0, 1} : /\ data[o]["form"] = Told(runtime, "form")
                             /\ \A k \in Ramps : data[o][k] = Told(runtime, k)
        /\ Selected(register) \in {0, 1}
        /\ data[Selected(register)]["speed"] = Told(runtime, "speed")
    BY <1>1, BetweenCalls
  <2>2. /\ Told(runtime, "form") = Incremental /\ Told(runtime, "speed") = runtime.speed
        /\ \A k \in Ramps : Told(runtime, k) = runtime.ramp[k]
    BY OperationAssumption DEF Told
  <2> QED
    BY <2>1, <2>2
<1>2. Spec => [](DataInv /\ CommandedInv)
  BY DataInit, DataStep, CommandedInit, CommandedStep, PTL DEF Spec
<1> QED
  BY <1>1, <1>2, PTL
=============================================================================
