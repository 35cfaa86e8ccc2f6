---------------------------- MODULE StartUpProofs ----------------------------
(***************************************************************************)
(* StartUp: what the main program still has to do is enough to keep the    *)
(* promises of StartUpProps, for any number of service calls.              *)
(*                                                                         *)
(* Two arguments on sequences of accesses carry the proofs.  A fact that   *)
(* something relies on (an object is initialised, a latch is written, a    *)
(* timer is configured) holds, or an access that establishes it comes      *)
(* before the first one that relies on it, and none undoes it.  For the    *)
(* interrupt enable and the key the accesses run through phases.           *)
(***************************************************************************)
EXTENDS StartUpProps, SequenceTheorems, TLAPS

\* What accesses there are
NumberRegisters == {"frcDivisor", "busDivisor", "waitStates"}
PortRegisters == {"lat", "output", "odc", "digital", "cnen", "cnOn", "cnIdle", "pullUp"}
PortBits == Pins \cup PortIds
Words == {"on", "off", "ready", "uninitialized", "idle", "sleep", "remapped"}
SourceNames == Sources \cup {"T4", "T5", "INT2", "INT3"}
ObjectNames == {"drvI2C0", "drvTmr0", "drvUsart0", "drvUsart1", "ports", "services",
                "applications", "channels", "T4", "T5", "INT2", "INT3"}

Simple == [do : {"mask", "restore", "unlock", "lock", "enable", "readPort", "assert", "stopped"}]
Writes == [do : {"write"}, reg : NumberRegisters, value : Int]
             \cup [do : {"write"}, reg : Registers \ NumberRegisters, value : Words]
PortAccesses == [do : {"port"}, reg : PortRegisters, clear : SUBSET PortBits, set : SUBSET PortBits,
                 flip : SUBSET PortBits]
OfSource == [do : {"clearFlag", "source", "noSource"}, source : SourceNames]
Readies == [do : {"ready"}, object : ObjectNames]
Configures == [do : {"configure"}, part : Parts, field : Fields, value : Int]
Waits == [do : {"wait"}, mode : {"idle", "sleep"}]

Access == Simple \cup Writes \cup PortAccesses \cup OfSource \cup Readies \cup Configures \cup Waits

-----------------------------------------------------------------------------
(* Sequences of accesses and sets of accesses                              *)

\* An access of E is among them
Has(E, s) == \E k \in 1 .. Len(s) : s[k] \in E

\* No access of B is among them
Free(B, s) == \A k \in 1 .. Len(s) : s[k] \notin B

\* Before each access of N there is one of E
Ordered(E, N, s) == \A k \in 1 .. Len(s) : s[k] \in N => \E j \in 1 .. (k - 1) : s[j] \in E

\* After the first access of O there is none of B
Closed(O, B, s) == \A k \in 1 .. Len(s) : s[k] \in O => \A j \in k .. Len(s) : s[j] \notin B

\* One access.
LEMMA OneAccess ==
    ASSUME NEW a \in Access, NEW E, NEW N, NEW B
    PROVE  /\ <<a>> \in Seq(Access)
           /\ a \in E => Has(E, <<a>>)
           /\ a \notin B => Free(B, <<a>>)
           /\ a \notin N => Ordered(E, N, <<a>>)
BY DEF Has, Free, Ordered

\* Free sequences are sequences of the other accesses.
LEMMA FreeSeq ==
    ASSUME NEW B, NEW s \in Seq(Access)
    PROVE  Free(B, s) <=> s \in Seq(Access \ B)
<1>1. ASSUME Free(B, s) PROVE s \in Seq(Access \ B)
  BY <1>1, LenProperties, SeqDef DEF Free
<1>2. ASSUME s \in Seq(Access \ B) PROVE Free(B, s)
  BY <1>2, ElementOfSeq DEF Free
<1> QED
  BY <1>1, <1>2

\* One sequence after another.
LEMMA HasConcat ==
    ASSUME NEW E, NEW s \in Seq(Access), NEW t \in Seq(Access), Has(E, s) \/ Has(E, t)
    PROVE  Has(E, s \o t)
<1>1. CASE Has(E, s)
  BY <1>1, ConcatProperties DEF Has
<1>2. CASE Has(E, t)
  <2>1. PICK k \in 1 .. Len(t) : t[k] \in E
    BY <1>2 DEF Has
  <2>2. /\ Len(s) + k \in 1 .. Len(s \o t) /\ (s \o t)[Len(s) + k] = t[k]
    BY <2>1, ConcatProperties
  <2> QED
    BY <2>1, <2>2 DEF Has
<1> QED
  BY <1>1, <1>2

\* What is in neither of two sequences is not in their concatenation.
LEMMA FreeConcat ==
    ASSUME NEW B, NEW s \in Seq(Access), NEW t \in Seq(Access), Free(B, s), Free(B, t)
    PROVE  Free(B, s \o t)
<1>1. SUFFICES ASSUME NEW k \in 1 .. Len(s \o t) PROVE (s \o t)[k] \notin B
  BY DEF Free
<1>2. CASE k <= Len(s)
  BY <1>2, ConcatProperties DEF Free
<1>3. CASE k > Len(s)
  BY <1>3, ConcatProperties DEF Free
<1> QED
  BY <1>2, <1>3, ConcatProperties

\* Order carries over to the concatenation; the second part needs none after an establishing first.
LEMMA OrderedConcat ==
    ASSUME NEW E, NEW N, NEW s \in Seq(Access), NEW t \in Seq(Access),
           Ordered(E, N, s), Has(E, s) \/ Ordered(E, N, t)
    PROVE  Ordered(E, N, s \o t)
<1>1. SUFFICES ASSUME NEW k \in 1 .. Len(s \o t), (s \o t)[k] \in N
               PROVE  \E j \in 1 .. (k - 1) : (s \o t)[j] \in E
  BY DEF Ordered
<1>2. CASE k <= Len(s)
  BY <1>1, <1>2, ConcatProperties DEF Ordered
<1>3. CASE k > Len(s) /\ Has(E, s)
  BY <1>1, <1>3, ConcatProperties DEF Has
<1>4. CASE k > Len(s) /\ Ordered(E, N, t)
  <2>1. k - Len(s) \in 1 .. Len(t) /\ t[k - Len(s)] \in N
    BY <1>1, <1>4, ConcatProperties
  <2>2. PICK j \in 1 .. (k - Len(s) - 1) : t[j] \in E
    BY <2>1, <1>4 DEF Ordered
  <2>3. Len(s) + j \in 1 .. (k - 1) /\ (s \o t)[Len(s) + j] = t[j]
    BY <2>1, <2>2, ConcatProperties
  <2> QED
    BY <2>2, <2>3
<1> QED
  BY <1>2, <1>3, <1>4, ConcatProperties

\* So does closing, unless the first part closes and the second has what is barred.
LEMMA ClosedConcat ==
    ASSUME NEW O, NEW B, NEW s \in Seq(Access), NEW t \in Seq(Access),
           Closed(O, B, s), Closed(O, B, t), Free(O, s) \/ Free(B, t)
    PROVE  Closed(O, B, s \o t)
<1>1. SUFFICES ASSUME NEW k \in 1 .. Len(s \o t), (s \o t)[k] \in O,
                      NEW j \in k .. Len(s \o t)
               PROVE  (s \o t)[j] \notin B
  BY DEF Closed
<1>2. CASE j <= Len(s)
  BY <1>1, <1>2, ConcatProperties DEF Closed
<1>3. CASE k > Len(s)
  <2>1. /\ k - Len(s) \in 1 .. Len(t) /\ j - Len(s) \in (k - Len(s)) .. Len(t)
        /\ t[k - Len(s)] \in O /\ (s \o t)[j] = t[j - Len(s)]
    BY <1>1, <1>3, ConcatProperties
  <2> QED
    BY <2>1 DEF Closed
<1>4. CASE k <= Len(s) /\ j > Len(s)
  <2>1. /\ k \in 1 .. Len(s) /\ s[k] \in O
        /\ j - Len(s) \in 1 .. Len(t) /\ (s \o t)[j] = t[j - Len(s)]
    BY <1>1, <1>4, ConcatProperties
  <2> QED
    BY <2>1 DEF Free
<1> QED
  BY <1>2, <1>3, <1>4, ConcatProperties

\* The first access is made.
LEMMA FreeTail ==
    ASSUME NEW B, NEW s \in Seq(Access), s # <<>>, Free(B, s)
    PROVE  Head(s) \notin B /\ Free(B, Tail(s))
<1>1. Len(s) \in Nat \ {0} /\ Head(s) = s[1]
  BY EmptySeq
<1>2. Head(s) \notin B
  BY <1>1 DEF Free
<1>3. Free(B, Tail(s))
  BY <1>1, HeadTailProperties DEF Free
<1> QED
  BY <1>2, <1>3

\* Once an access that establishes nothing is made, order holds of the rest.
LEMMA OrderedTail ==
    ASSUME NEW E, NEW N, NEW s \in Seq(Access), s # <<>>, Ordered(E, N, s)
    PROVE  Head(s) \notin N /\ (Head(s) \in E \/ Ordered(E, N, Tail(s)))
<1>1. Len(s) \in Nat \ {0} /\ Head(s) = s[1]
  BY EmptySeq
<1>2. Head(s) \notin N
  BY <1>1 DEF Ordered
<1>3. ASSUME Head(s) \notin E, NEW k \in 1 .. Len(Tail(s)), Tail(s)[k] \in N
      PROVE  \E j \in 1 .. (k - 1) : Tail(s)[j] \in E
  <2>1. k + 1 \in 1 .. Len(s) /\ s[k + 1] \in N
    BY <1>1, <1>3, HeadTailProperties
  <2>2. PICK j \in 1 .. k : s[j] \in E
    BY <2>1 DEF Ordered
  <2>3. j # 1
    BY <1>1, <1>3, <2>2
  <2>4. j - 1 \in 1 .. (k - 1) /\ Tail(s)[j - 1] = s[j]
    BY <1>1, <2>1, <2>2, <2>3, HeadTailProperties
  <2> QED
    BY <2>2, <2>4
<1> QED
  BY <1>2, <1>3 DEF Ordered

\* Closing holds of the rest, and bars everything in it once an access has closed.
LEMMA ClosedTail ==
    ASSUME NEW O, NEW B, NEW s \in Seq(Access), s # <<>>, Closed(O, B, s)
    PROVE  Closed(O, B, Tail(s)) /\ (Head(s) \in O => Free(B, Tail(s)))
<1>1. Len(s) \in Nat \ {0} /\ Head(s) = s[1]
  BY EmptySeq
<1>2. Closed(O, B, Tail(s))
  <2>1. SUFFICES ASSUME NEW k \in 1 .. Len(Tail(s)), Tail(s)[k] \in O,
                        NEW j \in k .. Len(Tail(s))
                 PROVE  Tail(s)[j] \notin B
    BY DEF Closed
  <2>2. /\ k + 1 \in 1 .. Len(s) /\ s[k + 1] \in O
        /\ j + 1 \in (k + 1) .. Len(s) /\ Tail(s)[j] = s[j + 1]
    BY <1>1, <2>1, HeadTailProperties
  <2> QED
    BY <2>2 DEF Closed
<1>3. ASSUME Head(s) \in O PROVE Free(B, Tail(s))
  <2>1. SUFFICES ASSUME NEW j \in 1 .. Len(Tail(s)) PROVE Tail(s)[j] \notin B
    BY DEF Free
  <2>2. 1 \in 1 .. Len(s) /\ j + 1 \in 1 .. Len(s) /\ Tail(s)[j] = s[j + 1]
    BY <1>1, HeadTailProperties
  <2> QED
    BY <1>1, <1>3, <2>2 DEF Closed
<1> QED
  BY <1>2, <1>3

-----------------------------------------------------------------------------
(* Interrupt enable and key                                                *)

\* Before interrupts are opened; in the loop; while a service has them masked; each with the
\* system known to be unlocked, or not
Phases == {"boot", "bootKey", "loop", "loopKey", "masked", "maskedKey"}
Enabled(p) == p \in {"loop", "loopKey"}
Opened(p) == p \notin {"boot", "bootKey"}
Key(p) == p \in {"bootKey", "loopKey", "maskedKey"}

WithKey == [p \in Phases |-> IF Opened(p) THEN IF Enabled(p) THEN "loopKey" ELSE "maskedKey"
                             ELSE "bootKey"]
WithoutKey == [p \in Phases |-> IF Opened(p) THEN IF Enabled(p) THEN "loop" ELSE "masked"
                                ELSE "boot"]
Masked == [p \in Phases |-> IF Opened(p) THEN IF Key(p) THEN "maskedKey" ELSE "masked" ELSE p]
Restored == [p \in Phases |-> IF Opened(p) THEN IF Key(p) THEN "loopKey" ELSE "loop" ELSE p]

\* Access a is allowed in phase p and leads to phase q.  Masks do not nest, as one flag cannot
\* tell what two of them found
Leads(p, a, q) ==
    /\ a.do = "mask" => p \notin {"masked", "maskedKey"} /\ q = Masked[p]
    /\ a.do = "restore" => q = Restored[p]
    /\ a.do = "unlock" => q = IF Enabled(p) THEN p ELSE WithKey[p]
    /\ a.do = "lock" => q = WithoutKey[p]
    /\ a.do = "enable" => q = IF Key(p) THEN "loopKey" ELSE "loop"
    /\ a.do = "write" => /\ a.reg \in KeyRegisters \ RemapRegisters => Key(p)
                         /\ a.reg \in MaskedRegisters => ~Enabled(p)
                         /\ q = p
    /\ a.do = "wait" => Enabled(p) /\ q = p
    /\ a.do \in {"port", "readPort", "clearFlag", "source", "noSource", "configure", "ready",
                 "assert"} => q = p

\* The accesses lead from phase p to phase q; phase[k] is the one before the k-th
Through(s, p, q, phase) ==
    /\ phase[1] = p /\ phase[Len(s) + 1] = q
    /\ \A k \in 1 .. (Len(s) + 1) : phase[k] \in Phases
    /\ \A k \in 1 .. Len(s) : Leads(phase[k], s[k], phase[k + 1])
Runs(s, p, q) == \E phase : Through(s, p, q, phase)

\* One access, none, and one sequence after another.
LEMMA RunsOne ==
    ASSUME NEW a, NEW p \in Phases, NEW q \in Phases, Leads(p, a, q)
    PROVE  Runs(<<a>>, p, q)
<1>1. Through(<<a>>, p, q, <<p, q>>)
  BY DEF Through
<1> QED
  BY <1>1 DEF Runs

\* No access, no change of phase.
LEMMA RunsEmpty == \A p, q \in Phases : Runs(<<>>, p, q) <=> p = q
<1>1. ASSUME NEW p \in Phases PROVE Runs(<<>>, p, p)
  <2>1. Through(<<>>, p, p, <<p>>)
    BY DEF Through
  <2> QED
    BY <2>1 DEF Runs
<1> QED
  BY <1>1 DEF Runs, Through

\* A sequence takes on from the phase the one before has led to.
LEMMA RunsConcat ==
    ASSUME NEW s \in Seq(Access), NEW t \in Seq(Access), NEW p \in Phases, NEW q \in Phases,
           NEW r \in Phases, Runs(s, p, q), Runs(t, q, r)
    PROVE  Runs(s \o t, p, r)
<1>1. PICK f : Through(s, p, q, f)
  BY DEF Runs
<1>2. PICK g : Through(t, q, r, g)
  BY DEF Runs
<1> DEFINE n == Len(s)
           h == [k \in 1 .. (n + Len(t) + 1) |-> IF k <= n THEN f[k] ELSE g[k - n]]
<1>3. n \in Nat /\ Len(t) \in Nat
  OBVIOUS
<1>4. Len(s \o t) = n + Len(t)
  BY ConcatProperties
<1>5. h[1] = p /\ h[n + Len(t) + 1] = r
  BY <1>1, <1>2, <1>3 DEF Through
<1>6. \A k \in 1 .. (n + Len(t) + 1) : h[k] \in Phases
  BY <1>1, <1>2, <1>3 DEF Through
<1>7. ASSUME NEW k \in 1 .. (n + Len(t)) PROVE Leads(h[k], (s \o t)[k], h[k + 1])
  <2>1. CASE k < n
    BY <1>1, <1>3, <2>1, ConcatProperties DEF Through
  <2>2. CASE k = n
    <3>1. h[k] = f[k] /\ h[k + 1] = g[1] /\ (s \o t)[k] = s[k] /\ k \in 1 .. Len(s)
      BY <1>3, <2>2, ConcatProperties
    <3>2. g[1] = f[k + 1]
      BY <1>1, <1>2, <2>2 DEF Through
    <3> QED
      BY <1>1, <3>1, <3>2 DEF Through
  <2>3. CASE k > n
    <3>1. h[k] = g[k - n] /\ h[k + 1] = g[(k - n) + 1] /\ (s \o t)[k] = t[k - n]
          /\ k - n \in 1 .. Len(t)
      BY <1>3, <2>3, ConcatProperties
    <3> QED
      BY <1>2, <3>1 DEF Through
  <2> QED
    BY <1>3, <2>1, <2>2, <2>3
<1>8. Through(s \o t, p, r, h)
  BY <1>4, <1>5, <1>6, <1>7 DEF Through
<1> QED
  BY <1>8 DEF Runs

\* The first access is made.
LEMMA RunsTail ==
    ASSUME NEW s \in Seq(Access), s # <<>>, NEW p \in Phases, NEW r \in Phases, Runs(s, p, r)
    PROVE  \E q \in Phases : Leads(p, Head(s), q) /\ Runs(Tail(s), q, r)
<1>1. PICK f : Through(s, p, r, f)
  BY DEF Runs
<1>2. Len(s) \in Nat \ {0} /\ Head(s) = s[1]
  BY EmptySeq
<1> DEFINE g == [k \in 1 .. Len(s) |-> f[k + 1]]
<1>3. f[2] \in Phases /\ Leads(p, Head(s), f[2])
  BY <1>1, <1>2 DEF Through
<1>4. Through(Tail(s), f[2], r, g)
  BY <1>1, <1>2, HeadTailProperties DEF Through
<1>5. Runs(Tail(s), f[2], r)
  BY <1>4 DEF Runs
<1> QED
  BY <1>3, <1>5

\* Accesses that have to do with neither leave the phase as it is.
Elsewhere == PortAccesses \cup OfSource \cup Readies \cup Configures
                \cup [do : {"readPort", "assert"}]

\* Such accesses alone leave the phase as it is.
LEMMA RunsElsewhere ==
    ASSUME NEW s \in Seq(Elsewhere), NEW p \in Phases
    PROVE  Runs(s, p, p)
<1> DEFINE f == [k \in 1 .. (Len(s) + 1) |-> p]
<1>1. ASSUME NEW a \in Elsewhere PROVE Leads(p, a, p)
  BY DEF Elsewhere, PortAccesses, OfSource, Readies, Configures, Leads
<1>2. Through(s, p, p, f)
  <2>1. Len(s) \in Nat /\ \A k \in 1 .. Len(s) : s[k] \in Elsewhere
    BY ElementOfSeq
  <2> QED
    BY <1>1, <2>1 DEF Through
<1> QED
  BY <1>2 DEF Runs

-----------------------------------------------------------------------------
(* What is relied on                                                       *)

Opening == {a \in Access : a.do = "enable"}
Attaching == {a \in Access : a.do = "ready" /\ a.object = "channels"}

\* The objects interrupt routines and their callbacks work on
Objects == {"drvI2C0", "drvTmr0", "drvUsart0", "drvUsart1", "ports", "services"}
Initialises(o) == {a \in Access : a.do = "ready" /\ a.object = o}

PortWrites(r, pin) == {a \in Access : a.do = "port" /\ a.reg = r /\ pin \in a.clear \cup a.set \cup a.flip}
SetsBit(r, pin) == {a \in PortWrites(r, pin) : pin \in a.set /\ pin \notin a.flip}
ClearsBit(r, pin) == PortWrites(r, pin) \ SetsBit(r, pin)

\* Outputs that must not move by accident, and what writes their configured level
Steady == {"ControlLeft", "ControlRight", "BT_Reset"}
SettlesLatch(pin) == {a \in PortWrites("lat", pin) : pin \notin a.flip /\ (pin \in a.set <=> pin \in LAT)}
SpoilsLatch(pin) == PortWrites("lat", pin) \ SettlesLatch(pin)
Drives(pin) == Opening \cup {a \in PortWrites("output", pin) : pin \in a.set \cup a.flip}

\* What module Channels takes for granted of timers, compare unit and priorities
Wanted == {<<p, "on", 0>> : p \in Parts} \cup {<<p, "priority", 7>> : p \in {"T4", "T5", "INT2", "INT3"}}
             \cup {<<t, "prescale", 8>> : t \in {"T4", "T5"}}
             \cup {<<t, "period", 2750>> : t \in {"T4", "T5"}}
             \cup {<<"T2", "prescale", 16>>, <<"T2", "period", 500>>, <<"OC1", "width", 250>>}
Touches(w) == {a \in Access : a.do = "configure" /\ a.part = w[1] /\ a.field = w[2]}
ConfiguresAs(w) == {a \in Touches(w) : a.value = w[3]}
Misconfigures(w) == Touches(w) \ ConfiguresAs(w)
OfKind(kind, s) == {a \in Access : a.do = kind /\ a.source = s}
WritesDivisor == {a \in Access : a.do = "write" /\ a.reg = "busDivisor"}
ChoosesDivisor == {a \in WritesDivisor : a.value = 9}

\* What would show or hide the charger behind the interrupt routine's back
Disturbs == PortWrites("lat", "LedStatus") \cup OfKind("clearFlag", "cn")

-----------------------------------------------------------------------------
(* The invariant                                                           *)

SuTypeOK ==
    /\ todo \in Seq(Access)
    /\ {ie, unlocked, saved, pgood, lastRead, seen, opened, served, unseen} \subseteq BOOLEAN
    /\ DOMAIN reg = Registers /\ DOMAIN asked = Registers
    /\ port \in [PortRegisters -> SUBSET PortBits]
    /\ config \in [Parts -> [Fields -> Int]]
    /\ isr \in {[source |-> "none", step |-> "none"], [source |-> "cn", step |-> "led"]}
                  \cup {[source |-> s, step |-> "return"] : s \in Sources}

\* Registers, masks and key: the phase tells what the main program knows
PhaseIs(p) ==
    /\ ie = Enabled(p) /\ opened = Opened(p)
    /\ ~ie => saved = opened
    /\ Key(p) => unlocked
InPhase == \E p \in Phases : PhaseIs(p) /\ Runs(todo, p, "loop")

ObjectsInTime == \A o \in Objects : o \in ready \/ (~opened /\ Ordered(Initialises(o), Opening, todo))

PinsInTime ==
    \A pin \in Steady :
       /\ Free(SpoilsLatch(pin), todo)
       /\ \/ pin \in port.lat <=> pin \in LAT
          \/ ~opened /\ pin \notin port.output /\ Ordered(SettlesLatch(pin), Drives(pin), todo)
DrainsInTime ==
    \A pin \in ODC :
       /\ Free(ClearsBit("odc", pin), todo)
       /\ \/ pin \in port.odc
          \/ ~opened /\ pin \notin port.output /\ Ordered(SetsBit("odc", pin), Drives(pin), todo)
PGoodInTime ==
    /\ Free(ClearsBit("digital", "BQ_PGood"), todo)
    /\ \/ "BQ_PGood" \in port.digital
       \/ ~opened /\ Ordered(SetsBit("digital", "BQ_PGood"), Opening, todo)

ConfiguredInTime ==
    \A w \in Wanted :
       /\ Free(Misconfigures(w), todo)
       /\ \/ config[w[1]][w[2]] = w[3]
          \/ w[2] # "on" /\ "channels" \notin ready /\ Ordered(ConfiguresAs(w), Attaching, todo)
WatchdogsInTime ==
    \A c \in ChannelIndex :
       /\ Free(OfKind("noSource", wdTimer[c]), todo)
       /\ \/ wdTimer[c] \in sources
          \/ "channels" \notin ready /\ Ordered(OfKind("source", wdTimer[c]), Attaching, todo)
       /\ Free(OfKind("source", inputInt[c]), todo) /\ inputInt[c] \notin sources
DivisorInTime ==
    /\ Free(WritesDivisor \ ChoosesDivisor, todo)
    /\ \/ asked["busDivisor"] = 9
       \/ /\ ~opened /\ "channels" \notin ready
          /\ Ordered(ChoosesDivisor, Opening \cup Attaching, todo)

\* From the opening of interrupts on the LED belongs to the change notice routine
Undisturbed == (opened => Free(Disturbs, todo)) /\ Closed(Opening, Disturbs, todo)

\* What the routine has seen is what the LED shows; what it has not, is pending or missed
LedFollows ==
    /\ served \/ isr.source # "none" => opened
    /\ isr.source = "cn" => "cn" \in flags /\ seen = lastRead
    /\ served /\ isr.source # "cn" /\ "cn" \notin flags /\ ~unseen => seen = pgood /\ pgood = lastRead
    /\ served /\ isr.step # "led" => ("LedStatus" \in port.lat <=> ~seen)

SuInv ==
    /\ SuTypeOK /\ WritesLand /\ InPhase
    /\ ObjectsInTime /\ PinsInTime /\ DrainsInTime /\ PGoodInTime
    /\ ConfiguredInTime /\ WatchdogsInTime /\ DivisorInTime
    /\ Undisturbed /\ LedFollows

-----------------------------------------------------------------------------
(* The sequences of the services                                           *)

\* What is not among the accesses a sequence is made of is not in it.
LEMMA Apart ==
    ASSUME NEW T \in SUBSET Access, NEW s \in Seq(T), NEW B, T \cap B = {}
    PROVE  s \in Seq(Access) /\ Free(B, s) /\ \A E : Ordered(E, B, s) /\ Closed(B, E, s) /\ Closed(E, B, s)
<1>1. s \in Seq(Access)
  BY SeqMonotonic
<1>2. \A k \in 1 .. Len(s) : s[k] \notin B
  BY ElementOfSeq
<1>3. ASSUME NEW E PROVE Ordered(E, B, s) /\ Closed(B, E, s)
  BY <1>2 DEF Ordered, Closed
<1>4. ASSUME NEW E PROVE Closed(E, B, s)
  BY <1>1, <1>2, LenProperties DEF Closed
<1> QED
  BY <1>1, <1>2, <1>3, <1>4 DEF Free

\* Clock and device control: masks, key, registers.
CpuAccess == [do : {"mask", "restore", "unlock", "lock"}] \cup Writes

\* Masking, key and registers are made of such accesses.
LEMMA CpuAccesses ==
    /\ \A d \in {"mask", "restore", "unlock", "lock"} : Do(d) \in Seq(CpuAccess)
    /\ \A r \in NumberRegisters, v \in Int : WriteReg(r, v) \in Seq(CpuAccess)
    /\ \A r \in Registers \ NumberRegisters, v \in Words : WriteReg(r, v) \in Seq(CpuAccess)
<1>1. ASSUME NEW a \in CpuAccess PROVE <<a>> \in Seq(CpuAccess)
  OBVIOUS
<1>2. ASSUME NEW d \in {"mask", "restore", "unlock", "lock"} PROVE [do |-> d] \in CpuAccess
  BY DEF CpuAccess
<1>3. ASSUME NEW r \in NumberRegisters, NEW v \in Int
      PROVE  [do |-> "write", reg |-> r, value |-> v] \in CpuAccess
  BY DEF CpuAccess, Writes
<1>4. ASSUME NEW r \in Registers \ NumberRegisters, NEW v \in Words
      PROVE  [do |-> "write", reg |-> r, value |-> v] \in CpuAccess
  BY DEF CpuAccess, Writes
<1> QED
  BY <1>1, <1>2, <1>3, <1>4 DEF Do, WriteReg

\* The key sequences of the device control, as sequences of accesses.
LEMMA UnlockLock == SYS_DEVCON_SystemUnlock \in Seq(CpuAccess) /\ SYS_DEVCON_SystemLock \in Seq(CpuAccess)
<1> HIDE DEF Do
<1>1. \A s, t \in Seq(CpuAccess) : s \o t \in Seq(CpuAccess)
  BY ConcatProperties
<1> QED
  BY <1>1, CpuAccesses DEF SYS_DEVCON_SystemUnlock, SYS_DEVCON_SystemLock

\* The clock set-up makes such accesses only.
LEMMA ClockSeq == SYS_CLK_Initialize \in Seq(CpuAccess)
<1>1. \A s, t \in Seq(CpuAccess) : s \o t \in Seq(CpuAccess)
  BY ConcatProperties
<1>2. /\ WriteReg("frcDivisor", 2) \in Seq(CpuAccess) /\ WriteReg("busDivisor", 9) \in Seq(CpuAccess)
      /\ WriteReg("busOutput", "on") \in Seq(CpuAccess) /\ WriteReg("refOscillator", "off") \in Seq(CpuAccess)
      /\ WriteReg("refOutput", "off") \in Seq(CpuAccess)
  <2>1. /\ {"frcDivisor", "busDivisor"} \subseteq NumberRegisters
        /\ {"busOutput", "refOscillator", "refOutput"} \subseteq Registers \ NumberRegisters
    BY DEF NumberRegisters, Registers, KeyRegisters
  <2>2. 2 \in Int /\ 9 \in Int
    OBVIOUS
  <2>3. "on" \in Words /\ "off" \in Words
    BY DEF Words
  <2> QED
    BY <2>1, <2>2, <2>3, CpuAccesses, Zenon
<1> QED
  BY <1>1, <1>2, UnlockLock DEF SYS_CLK_Initialize

\* So does the choice of the wait states.
LEMMA PerformanceSeq == SYS_DEVCON_PerformanceConfig(SYS_CLK_SystemFrequencyGet) \in Seq(CpuAccess)
<1>1. \A s, t \in Seq(CpuAccess) : s \o t \in Seq(CpuAccess)
  BY ConcatProperties
<1>2. WriteReg("waitStates", WaitStates(SYS_CLK_SystemFrequencyGet)) \in Seq(CpuAccess)
  <2>1. WaitStates(SYS_CLK_SystemFrequencyGet) \in Int
    BY DEF WaitStates
  <2>2. "waitStates" \in NumberRegisters
    BY DEF NumberRegisters
  <2> QED
    BY <2>1, <2>2, CpuAccesses, Zenon
<1>3. WriteReg("prefetch", "on") \in Seq(CpuAccess)
  <2>1. "prefetch" \in Registers \ NumberRegisters
    BY DEF NumberRegisters, Registers, MaskedRegisters
  <2>2. "on" \in Words
    BY DEF Words
  <2> QED
    BY <2>1, <2>2, CpuAccesses, Zenon
<1>4. Do("mask") \in Seq(CpuAccess) /\ Do("restore") \in Seq(CpuAccess)
  BY CpuAccesses
<1> QED
  BY <1>1, <1>2, <1>3, <1>4 DEF SYS_DEVCON_PerformanceConfig

\* CpuAccess is a set of accesses, and so are the sequences made of it.
LEMMA CpuIsAccess == CpuAccess \subseteq Access /\ \A s \in Seq(CpuAccess) : s \in Seq(Access)
<1>1. CpuAccess \subseteq Access
  BY DEF CpuAccess, Access, Simple
<1> QED
  BY <1>1, SeqMonotonic

\* The phases of single accesses.
LEMMA RunsDo ==
    ASSUME NEW p \in Phases
    PROVE  /\ p \notin {"masked", "maskedKey"} => Runs(Do("mask"), p, Masked[p])
           /\ Runs(Do("restore"), p, Restored[p])
           /\ ~Enabled(p) => Runs(Do("unlock"), p, WithKey[p])
           /\ Enabled(p) => Runs(Do("unlock"), p, p)
           /\ Runs(Do("lock"), p, WithoutKey[p])
<1>1. Masked[p] \in Phases /\ Restored[p] \in Phases /\ WithKey[p] \in Phases /\ WithoutKey[p] \in Phases
  BY DEF Masked, Restored, WithKey, WithoutKey, Phases, Opened, Enabled, Key
<1>2. p \notin {"masked", "maskedKey"} => Leads(p, [do |-> "mask"], Masked[p])
  BY DEF Leads
<1>3. Leads(p, [do |-> "restore"], Restored[p])
  BY DEF Leads
<1>4. ~Enabled(p) => Leads(p, [do |-> "unlock"], WithKey[p])
  BY DEF Leads
<1>5. Enabled(p) => Leads(p, [do |-> "unlock"], p)
  BY DEF Leads
<1>6. Leads(p, [do |-> "lock"], WithoutKey[p])
  BY DEF Leads
<1> QED
  BY <1>1, <1>2, <1>3, <1>4, <1>5, <1>6, RunsOne DEF Do

\* A register write in a phase that allows it leaves the phase as it is.
LEMMA RunsWrite ==
    ASSUME NEW p \in Phases, NEW r, NEW v,
           r \in KeyRegisters \ RemapRegisters => Key(p),
           r \in MaskedRegisters => ~Enabled(p)
    PROVE  Runs(WriteReg(r, v), p, p)
<1>1. Leads(p, [do |-> "write", reg |-> r, value |-> v], p)
  BY DEF Leads
<1> QED
  BY <1>1, RunsOne DEF WriteReg

\* SYS_DEVCON_SystemUnlock gives the key, whatever the interrupt enable is, and
\* SYS_DEVCON_SystemLock takes it away; both leave the enable as it was.
LEMMA RunsUnlockLock ==
    /\ Runs(SYS_DEVCON_SystemUnlock, "boot", "bootKey") /\ Runs(SYS_DEVCON_SystemLock, "bootKey", "boot")
    /\ Runs(SYS_DEVCON_SystemUnlock, "loop", "loopKey") /\ Runs(SYS_DEVCON_SystemLock, "loopKey", "loop")
<1>1. /\ Do("mask") \in Seq(Access) /\ Do("unlock") \in Seq(Access) /\ Do("restore") \in Seq(Access)
      /\ Do("lock") \in Seq(Access) /\ Do("mask") \o Do("unlock") \in Seq(Access)
      /\ Do("mask") \o Do("lock") \in Seq(Access)
  BY CpuAccesses, CpuIsAccess, ConcatProperties
<1>2. {"boot", "bootKey", "loop", "loopKey", "masked", "maskedKey"} \subseteq Phases
  BY DEF Phases
<1>3. /\ Masked["boot"] = "boot" /\ Masked["loop"] = "masked"
      /\ Masked["bootKey"] = "bootKey" /\ Masked["loopKey"] = "maskedKey"
      /\ WithKey["boot"] = "bootKey" /\ WithKey["masked"] = "maskedKey"
      /\ WithoutKey["bootKey"] = "boot" /\ WithoutKey["maskedKey"] = "masked"
      /\ Restored["boot"] = "boot" /\ Restored["masked"] = "loop"
      /\ Restored["bootKey"] = "bootKey" /\ Restored["maskedKey"] = "loopKey"
  BY <1>2 DEF Masked, WithKey, WithoutKey, Restored, Opened, Enabled, Key
<1>4. /\ Runs(Do("mask"), "boot", "boot") /\ Runs(Do("mask"), "loop", "masked")
      /\ Runs(Do("mask"), "bootKey", "bootKey") /\ Runs(Do("mask"), "loopKey", "maskedKey")
  BY <1>2, <1>3, RunsDo
<1>5. /\ Runs(Do("unlock"), "boot", "bootKey") /\ Runs(Do("unlock"), "masked", "maskedKey")
      /\ Runs(Do("lock"), "bootKey", "boot") /\ Runs(Do("lock"), "maskedKey", "masked")
  BY <1>2, <1>3, RunsDo DEF Enabled
<1>6. /\ Runs(Do("restore"), "boot", "boot") /\ Runs(Do("restore"), "masked", "loop")
      /\ Runs(Do("restore"), "bootKey", "bootKey") /\ Runs(Do("restore"), "maskedKey", "loopKey")
  BY <1>2, <1>3, RunsDo
<1>7. /\ Runs(Do("mask") \o Do("unlock"), "boot", "bootKey")
      /\ Runs(Do("mask") \o Do("unlock"), "loop", "maskedKey")
      /\ Runs(Do("mask") \o Do("lock"), "bootKey", "boot")
      /\ Runs(Do("mask") \o Do("lock"), "loopKey", "masked")
  BY <1>1, <1>2, <1>4, <1>5, RunsConcat
<1> QED
  BY <1>1, <1>2, <1>6, <1>7, RunsConcat DEF SYS_DEVCON_SystemUnlock, SYS_DEVCON_SystemLock

\* SYS_CLK_Initialize has the key for its registers, and chooses the divisor.
LEMMA ClockRuns ==
    /\ Runs(SYS_CLK_Initialize, "boot", "boot")
    /\ Has(ChoosesDivisor, SYS_CLK_Initialize)
    /\ Free(WritesDivisor \ ChoosesDivisor, SYS_CLK_Initialize)
<1> DEFINE w1 == WriteReg("frcDivisor", 2)
           w2 == WriteReg("busDivisor", 9)
           w3 == WriteReg("busOutput", "on")
           w4 == WriteReg("refOscillator", "off")
           w5 == WriteReg("refOutput", "off")
           other == WritesDivisor \ ChoosesDivisor
           u == SYS_DEVCON_SystemUnlock
           l == SYS_DEVCON_SystemLock
<1>1. /\ w1 \in Seq(Access) /\ w2 \in Seq(Access) /\ w3 \in Seq(Access) /\ w4 \in Seq(Access)
      /\ w5 \in Seq(Access) /\ u \in Seq(Access) /\ l \in Seq(Access)
  <2>1. /\ {"frcDivisor", "busDivisor"} \subseteq NumberRegisters
        /\ {"busOutput", "refOscillator", "refOutput"} \subseteq Registers \ NumberRegisters
    BY DEF NumberRegisters, Registers, KeyRegisters
  <2>2. 2 \in Int /\ 9 \in Int
    OBVIOUS
  <2>3. "on" \in Words /\ "off" \in Words
    BY DEF Words
  <2> QED
    BY <2>1, <2>2, <2>3, CpuAccesses, CpuIsAccess, UnlockLock, Zenon
<1>2. \A s, t \in Seq(Access) : s \o t \in Seq(Access)
  BY ConcatProperties
<1>3. /\ "boot" \in Phases /\ "bootKey" \in Phases /\ Key("bootKey") /\ ~Enabled("bootKey")
  BY DEF Phases, Key, Enabled
<1>4. /\ Runs(w1, "bootKey", "bootKey") /\ Runs(w2, "bootKey", "bootKey")
      /\ Runs(w3, "bootKey", "bootKey") /\ Runs(w4, "bootKey", "bootKey")
      /\ Runs(w5, "bootKey", "bootKey")
  BY <1>3, RunsWrite
<1>5. Runs(SYS_CLK_Initialize, "boot", "boot")
  <2> HIDE DEF w1, w2, w3, w4, w5, u, l
  <2>1. Runs(u \o w1, "boot", "bootKey")
    BY <1>1, <1>3, <1>4, RunsConcat, RunsUnlockLock DEF u
  <2>2. Runs(u \o w1 \o w2, "boot", "bootKey")
    BY <1>1, <1>2, <1>3, <1>4, <2>1, RunsConcat
  <2>3. Runs(u \o w1 \o w2 \o w3, "boot", "bootKey")
    BY <1>1, <1>2, <1>3, <1>4, <2>2, RunsConcat
  <2>4. Runs(u \o w1 \o w2 \o w3 \o w4, "boot", "bootKey")
    BY <1>1, <1>2, <1>3, <1>4, <2>3, RunsConcat
  <2>5. Runs(u \o w1 \o w2 \o w3 \o w4 \o w5, "boot", "bootKey")
    BY <1>1, <1>2, <1>3, <1>4, <2>4, RunsConcat
  <2>6. Runs(u \o w1 \o w2 \o w3 \o w4 \o w5 \o l, "boot", "boot")
    <3>1. Runs(l, "bootKey", "boot")
      BY RunsUnlockLock DEF l
    <3>2. u \o w1 \o w2 \o w3 \o w4 \o w5 \in Seq(Access)
      BY <1>1, <1>2
    <3> QED
      BY <1>1, <1>3, <2>5, <3>1, <3>2, RunsConcat
  <2> QED
    BY <2>6 DEF SYS_CLK_Initialize, u, l, w1, w2, w3, w4, w5
<1>6. Has(ChoosesDivisor, w2)
  <2>1. [do |-> "write", reg |-> "busDivisor", value |-> 9] \in ChoosesDivisor
    BY DEF ChoosesDivisor, WritesDivisor, Access, Writes, NumberRegisters
  <2> QED
    BY <2>1 DEF Has, WriteReg
<1>7. Has(ChoosesDivisor, SYS_CLK_Initialize)
  <2> HIDE DEF w1, w2, w3, w4, w5, u, l
  <2>1. Has(ChoosesDivisor, u \o w1 \o w2)
    BY <1>1, <1>2, <1>6, HasConcat
  <2>2. Has(ChoosesDivisor, u \o w1 \o w2 \o w3)
    BY <1>1, <1>2, <2>1, HasConcat
  <2>3. Has(ChoosesDivisor, u \o w1 \o w2 \o w3 \o w4)
    BY <1>1, <1>2, <2>2, HasConcat
  <2>4. Has(ChoosesDivisor, u \o w1 \o w2 \o w3 \o w4 \o w5)
    BY <1>1, <1>2, <2>3, HasConcat
  <2>5. Has(ChoosesDivisor, u \o w1 \o w2 \o w3 \o w4 \o w5 \o l)
    BY <1>1, <1>2, <2>4, HasConcat
  <2> QED
    BY <2>5 DEF SYS_CLK_Initialize, u, l, w1, w2, w3, w4, w5
<1>8. /\ Free(other, w1) /\ Free(other, w2) /\ Free(other, w3) /\ Free(other, w4) /\ Free(other, w5)
  BY DEF Free, WriteReg, ChoosesDivisor, WritesDivisor
<1>9. Free(other, u) /\ Free(other, l)
  BY DEF Free, SYS_DEVCON_SystemUnlock, SYS_DEVCON_SystemLock, Do, WritesDivisor
<1>10. Free(other, SYS_CLK_Initialize)
  <2> HIDE DEF w1, w2, w3, w4, w5, u, l, other
  <2>1. \A s, t \in Seq(Access) : Free(other, s) /\ Free(other, t) => Free(other, s \o t)
    BY FreeConcat
  <2>2. Free(other, u \o w1 \o w2 \o w3 \o w4 \o w5 \o l)
    BY <1>1, <1>2, <1>8, <1>9, <2>1
  <2> QED
    BY <2>2 DEF SYS_CLK_Initialize, u, l, w1, w2, w3, w4, w5
<1> QED
  BY <1>5, <1>7, <1>10 DEF other

\* SYS_DEVCON_PerformanceConfig writes with interrupts masked and leaves them as they were.
LEMMA PerformanceRuns ==
    /\ Runs(SYS_DEVCON_PerformanceConfig(SYS_CLK_SystemFrequencyGet), "boot", "boot")
    /\ Runs(SYS_DEVCON_PerformanceConfig(SYS_CLK_SystemFrequencyGet), "loop", "loop")
<1> DEFINE m == Do("mask")
           r == Do("restore")
           w1 == WriteReg("waitStates", WaitStates(SYS_CLK_SystemFrequencyGet))
           w2 == WriteReg("prefetch", "on")
           masked == [p \in {"boot", "loop"} |-> IF p = "boot" THEN "boot" ELSE "masked"]
<1>1. m \in Seq(Access) /\ r \in Seq(Access) /\ w1 \in Seq(Access) /\ w2 \in Seq(Access)
  <2>1. WaitStates(SYS_CLK_SystemFrequencyGet) \in Int
    BY DEF WaitStates
  <2>2. "waitStates" \in NumberRegisters /\ "prefetch" \in Registers \ NumberRegisters
    BY DEF NumberRegisters, Registers, MaskedRegisters
  <2>3. "on" \in Words
    BY DEF Words
  <2> QED
    BY <2>1, <2>2, <2>3, CpuAccesses, CpuIsAccess, Zenon
<1>2. \A s, t \in Seq(Access) : s \o t \in Seq(Access)
  BY ConcatProperties
<1>3. SUFFICES ASSUME NEW p \in {"boot", "loop"}
               PROVE  Runs(SYS_DEVCON_PerformanceConfig(SYS_CLK_SystemFrequencyGet), p, p)
  OBVIOUS
<1>4. p \in Phases /\ masked[p] \in Phases
  BY DEF Phases
<1>5. /\ Masked[p] = masked[p] /\ Restored[masked[p]] = p
      /\ p \notin {"masked", "maskedKey"} /\ ~Enabled(masked[p])
  BY <1>4 DEF Masked, Restored, Opened, Key, Enabled
<1>6. Runs(m, p, masked[p]) /\ Runs(r, masked[p], p)
  BY <1>4, <1>5, RunsDo
<1>7. Runs(w1, masked[p], masked[p]) /\ Runs(w2, masked[p], masked[p])
  BY <1>4, <1>5, RunsWrite DEF KeyRegisters, RemapRegisters
<1> HIDE DEF m, r, w1, w2, masked
<1>8. Runs(m \o w1, p, masked[p])
  BY <1>1, <1>4, <1>6, <1>7, RunsConcat
<1>9. Runs(m \o w1 \o r, p, p)
  BY <1>1, <1>2, <1>4, <1>6, <1>8, RunsConcat
<1>10. Runs(m \o w1 \o r \o m, p, masked[p])
  BY <1>1, <1>2, <1>4, <1>6, <1>9, RunsConcat
<1>11. Runs(m \o w1 \o r \o m \o w2, p, masked[p])
  BY <1>1, <1>2, <1>4, <1>7, <1>10, RunsConcat
<1>12. Runs(m \o w1 \o r \o m \o w2 \o r, p, p)
  BY <1>1, <1>2, <1>4, <1>6, <1>11, RunsConcat
<1> QED
  BY <1>12 DEF SYS_DEVCON_PerformanceConfig, m, r, w1, w2

\* The drivers: a flag, a source, an object.
DriverAccess == [do : {"clearFlag", "source"}, source : Sources] \cup [do : {"ready"}, object : Objects \cup {"applications"}]

\* A driver is initialised in its own accesses, the object its interrupt uses among them.
LEMMA DriverSeq ==
    ASSUME NEW s \in Sources
    PROVE  /\ DriverInitialize(s) \in Seq(DriverAccess)
           /\ Has(Initialises(Uses[s]), DriverInitialize(s))
<1>1. Uses[s] \in Objects
  BY DEF Uses, Objects, Sources, Drivers
<1> DEFINE a == [do |-> "clearFlag", source |-> s]
           b == [do |-> "source", source |-> s]
           c == [do |-> "ready", object |-> Uses[s]]
<1>2. a \in DriverAccess /\ b \in DriverAccess /\ c \in DriverAccess
  BY <1>1 DEF DriverAccess
<1>3. c \in Initialises(Uses[s])
  BY <1>1 DEF Initialises, Access, Readies, ObjectNames, Objects
<1> HIDE DEF a, b, c
<1>4. DriverInitialize(s) = <<a>> \o <<b>> \o <<c>>
  BY DEF DriverInitialize, EnableSource, Initialized, a, b, c
<1>5. <<a>> \o <<b>> \o <<c>> \in Seq(DriverAccess)
  <2>1. <<a>> \in Seq(DriverAccess) /\ <<b>> \in Seq(DriverAccess) /\ <<c>> \in Seq(DriverAccess)
    BY <1>2
  <2> QED
    BY <2>1, ConcatProperties
<1>6. Has(Initialises(Uses[s]), <<a>> \o <<b>> \o <<c>>)
  <2>1. (<<a>> \o <<b>> \o <<c>>)[3] = c /\ Len(<<a>> \o <<b>> \o <<c>>) = 3
    OBVIOUS
  <2> QED
    BY <1>3, <2>1 DEF Has
<1> QED
  BY <1>4, <1>5, <1>6

\* Storing a handle is what initialises an object.
LEMMA InitializedSeq ==
    ASSUME NEW o \in Objects \cup {"applications"}
    PROVE  /\ Initialized(o) \in Seq(DriverAccess)
           /\ Has(Initialises(o), Initialized(o))
<1>1. [do |-> "ready", object |-> o] \in DriverAccess
  BY DEF DriverAccess
<1>2. [do |-> "ready", object |-> o] \in Initialises(o)
  BY DEF Initialises, Access, Readies, ObjectNames, Objects
<1> QED
  BY <1>1, <1>2 DEF Has, Initialized

-----------------------------------------------------------------------------
(* The ports                                                               *)

\* Sets of pins and of ports are sets of bits.
LEMMA BitsSeq ==
    ASSUME NEW r \in PortRegisters, NEW c \in SUBSET PortBits, NEW s \in SUBSET PortBits,
           NEW f \in SUBSET PortBits
    PROVE  /\ [do |-> "port", reg |-> r, clear |-> c, set |-> s, flip |-> f] \in PortAccesses
           /\ Bits(r, c, s, f) \in Seq(PortAccesses)
<1>1. [do |-> "port", reg |-> r, clear |-> c, set |-> s, flip |-> f] \in PortAccesses
  BY DEF PortAccesses
<1> QED
  BY <1>1 DEF Bits

\* The pins, and what the port operations take of them.
LEMMA PinSets ==
    /\ \A ch \in PortIds : On(ch) \in SUBSET Pins
    /\ Pins = {"ControlLeft", "LedStatus", "LedHeartbeat", "ControlRight", "StatusRight", "BT_Reset", "BQ_PGood"}
    /\ Pins \subseteq PortBits /\ PortIds \subseteq PortBits
BY DEF On, PortBits, Pins, PortOf

\* The six accesses of a port.
LEMMA PortParts ==
    ASSUME NEW ch \in PortIds
    PROVE  /\ SetBits("odc", ODC \cap On(ch)) \in Seq(PortAccesses)
           /\ Bits("lat", On(ch), LAT \cap On(ch), {}) \in Seq(PortAccesses)
           /\ SetBits("output", Outputs \cap On(ch)) \in Seq(PortAccesses)
           /\ SetBits("cnOn", {ch}) \in Seq(PortAccesses)
           /\ SetBits("digital", Digital \cap On(ch)) \in Seq(PortAccesses)
           /\ SetBits("cnen", CNEN \cap On(ch)) \in Seq(PortAccesses)
<1>1. /\ {} \in SUBSET PortBits /\ ODC \cap On(ch) \in SUBSET PortBits /\ On(ch) \in SUBSET PortBits
      /\ LAT \cap On(ch) \in SUBSET PortBits /\ Outputs \cap On(ch) \in SUBSET PortBits
      /\ {ch} \in SUBSET PortBits /\ Digital \cap On(ch) \in SUBSET PortBits
      /\ CNEN \cap On(ch) \in SUBSET PortBits
  BY PinSets
<1>2. {"odc", "lat", "output", "cnOn", "digital", "cnen"} \subseteq PortRegisters
  BY DEF PortRegisters
<1> QED
  BY <1>1, <1>2, BitsSeq DEF SetBits

\* Accesses of ports and drivers are accesses.
LEMMA PortIsAccess ==
    /\ PortAccesses \subseteq Access /\ DriverAccess \subseteq Access
    /\ \A s \in Seq(PortAccesses) : s \in Seq(Access)
    /\ \A s \in Seq(DriverAccess) : s \in Seq(Access)
<1>1. PortAccesses \subseteq Access
  BY DEF Access
<1>2. DriverAccess \subseteq Access
  BY DEF DriverAccess, Access, OfSource, Readies, SourceNames, ObjectNames, Objects
<1> QED
  BY <1>1, <1>2, SeqMonotonic

\* A port is initialised: no latch is spoilt, no drain closed, no pin made analog, and open drain
\* and latch of an output are written before it drives.
LEMMA PortInitialize ==
    ASSUME NEW ch \in PortIds, NEW pin \in Pins
    PROVE  /\ InitializePort(ch) \in Seq(PortAccesses)
           /\ Free(SpoilsLatch(pin), InitializePort(ch))
           /\ Free(ClearsBit("odc", pin), InitializePort(ch))
           /\ Free(ClearsBit("digital", pin), InitializePort(ch))
           /\ Ordered(SettlesLatch(pin), Drives(pin), InitializePort(ch))
           /\ pin \in On(ch) => Has(SettlesLatch(pin), InitializePort(ch))
           /\ pin \in ODC => Ordered(SetsBit("odc", pin), Drives(pin), InitializePort(ch))
           /\ pin \in ODC \cap On(ch) => Has(SetsBit("odc", pin), InitializePort(ch))
           /\ pin \in Digital \cap On(ch) => Has(SetsBit("digital", pin), InitializePort(ch))
<1> DEFINE odc == SetBits("odc", ODC \cap On(ch))
           lat == Bits("lat", On(ch), LAT \cap On(ch), {})
           out == SetBits("output", Outputs \cap On(ch))
           cnOn == SetBits("cnOn", {ch})
           dig == SetBits("digital", Digital \cap On(ch))
           cnen == SetBits("cnen", CNEN \cap On(ch))
           rest == cnOn \o dig \o cnen
<1>1. /\ odc \in Seq(Access) /\ lat \in Seq(Access) /\ out \in Seq(Access) /\ cnOn \in Seq(Access)
      /\ dig \in Seq(Access) /\ cnen \in Seq(Access)
  BY PortParts, PortIsAccess
<1>2. \A s, t \in Seq(Access) : s \o t \in Seq(Access)
  BY ConcatProperties
<1>3. InitializePort(ch) \in Seq(PortAccesses)
  <2> HIDE DEF odc, lat, out, cnOn, dig, cnen
  <2>1. \A s, t \in Seq(PortAccesses) : s \o t \in Seq(PortAccesses)
    BY ConcatProperties
  <2>2. odc \o lat \o out \o cnOn \o dig \o cnen \in Seq(PortAccesses)
    BY <2>1, PortParts DEF odc, lat, out, cnOn, dig, cnen
  <2> QED
    BY <2>2 DEF InitializePort, odc, lat, out, cnOn, dig, cnen
<1>4. ASSUME NEW B \in {SpoilsLatch(pin), ClearsBit("odc", pin), ClearsBit("digital", pin)}
      PROVE  Free(B, InitializePort(ch))
  <2>1. /\ \A a \in B : a \in ClearsBit("odc", pin) \/ a \in ClearsBit("digital", pin) \/ a \in SpoilsLatch(pin)
    BY <1>4
  <2>2. /\ Free(B, odc) /\ Free(B, out) /\ Free(B, cnOn) /\ Free(B, dig) /\ Free(B, cnen)
    BY <2>1 DEF Free, SetBits, Bits, SpoilsLatch, ClearsBit, SetsBit, PortWrites
  <2>3. Free(B, lat)
    BY <2>1 DEF Free, Bits, SpoilsLatch, SettlesLatch, ClearsBit, SetsBit, PortWrites
  <2> HIDE DEF odc, lat, out, cnOn, dig, cnen
  <2>4. Free(B, odc \o lat \o out \o cnOn \o dig \o cnen)
    BY <1>1, <1>2, <2>2, <2>3, FreeConcat
  <2> QED
    BY <2>4 DEF InitializePort, odc, lat, out, cnOn, dig, cnen
<1>5. /\ Free(Drives(pin), odc) /\ Free(Drives(pin), lat) /\ Free(Drives(pin), cnOn)
      /\ Free(Drives(pin), dig) /\ Free(Drives(pin), cnen)
      /\ pin \notin On(ch) \/ pin \notin Outputs => Free(Drives(pin), out)
  BY DEF Free, Drives, Opening, SetBits, Bits, PortWrites
<1>6. pin \in On(ch) => Has(SettlesLatch(pin), lat)
  <2>1. ASSUME pin \in On(ch)
        PROVE  [do |-> "port", reg |-> "lat", clear |-> On(ch), set |-> LAT \cap On(ch), flip |-> {}]
                  \in SettlesLatch(pin)
    <3>1. [do |-> "port", reg |-> "lat", clear |-> On(ch), set |-> LAT \cap On(ch), flip |-> {}] \in Access
      <4>1. On(ch) \in SUBSET PortBits /\ LAT \cap On(ch) \in SUBSET PortBits /\ {} \in SUBSET PortBits
        BY PinSets
      <4>2. "lat" \in PortRegisters
        BY DEF PortRegisters
      <4> QED
        BY <4>1, <4>2, BitsSeq, PortIsAccess
    <3> QED
      BY <2>1, <3>1 DEF SettlesLatch, PortWrites
  <2> QED
    BY <2>1 DEF Has, Bits
<1>7. ASSUME NEW r \in {"odc", "digital"}, NEW S \in SUBSET Pins, pin \in S
      PROVE  Has(SetsBit(r, pin), SetBits(r, S))
  <2>1. [do |-> "port", reg |-> r, clear |-> {}, set |-> S, flip |-> {}] \in Access
    <3>1. S \in SUBSET PortBits /\ {} \in SUBSET PortBits
      BY PinSets
    <3>2. r \in PortRegisters
      BY DEF PortRegisters
    <3> QED
      BY <3>1, <3>2, BitsSeq, PortIsAccess
  <2>2. [do |-> "port", reg |-> r, clear |-> {}, set |-> S, flip |-> {}] \in SetsBit(r, pin)
    BY <1>7, <2>1 DEF SetsBit, PortWrites
  <2> QED
    BY <2>2 DEF Has, SetBits, Bits
<1>8. /\ pin \in ODC \cap On(ch) => Has(SetsBit("odc", pin), odc)
      /\ pin \in Digital \cap On(ch) => Has(SetsBit("digital", pin), dig)
  BY <1>7, PinSets
<1> HIDE DEF odc, lat, out, cnOn, dig, cnen
<1>9. InitializePort(ch) = odc \o lat \o out \o cnOn \o dig \o cnen
  BY DEF InitializePort, odc, lat, out, cnOn, dig, cnen
<1>10. Free(Drives(pin), odc \o lat) /\ \A E : Ordered(E, Drives(pin), odc \o lat)
  <2>1. Free(Drives(pin), odc \o lat)
    BY <1>1, <1>5, FreeConcat
  <2> QED
    BY <2>1 DEF Free, Ordered
<1>11. ASSUME NEW E, Has(E, odc \o lat) \/ pin \notin On(ch) \/ pin \notin Outputs
       PROVE  Ordered(E, Drives(pin), InitializePort(ch))
  <2>1. CASE Has(E, odc \o lat)
    <3>1. /\ odc \o lat \in Seq(Access) /\ odc \o lat \o out \in Seq(Access)
          /\ odc \o lat \o out \o cnOn \in Seq(Access) /\ odc \o lat \o out \o cnOn \o dig \in Seq(Access)
      BY <1>1, <1>2
    <3>2. Ordered(E, Drives(pin), odc \o lat \o out) /\ Has(E, odc \o lat \o out)
      BY <1>1, <1>10, <2>1, <3>1, OrderedConcat, HasConcat
    <3>3. Ordered(E, Drives(pin), odc \o lat \o out \o cnOn) /\ Has(E, odc \o lat \o out \o cnOn)
      BY <1>1, <3>1, <3>2, OrderedConcat, HasConcat
    <3>4. Ordered(E, Drives(pin), odc \o lat \o out \o cnOn \o dig) /\ Has(E, odc \o lat \o out \o cnOn \o dig)
      BY <1>1, <3>1, <3>3, OrderedConcat, HasConcat
    <3> QED
      BY <1>1, <1>9, <3>1, <3>4, OrderedConcat
  <2>2. CASE pin \notin On(ch) \/ pin \notin Outputs
    <3>1. Free(Drives(pin), odc \o lat \o out \o cnOn \o dig \o cnen)
      BY <1>1, <1>2, <1>5, <2>2, FreeConcat
    <3> QED
      BY <1>9, <3>1 DEF Free, Ordered
  <2> QED
    BY <1>11, <2>1, <2>2
<1>12. /\ pin \in On(ch) => Has(SettlesLatch(pin), odc \o lat)
       /\ pin \in ODC \cap On(ch) => Has(SetsBit("odc", pin), odc \o lat)
  BY <1>1, <1>6, <1>8, HasConcat
<1>13. /\ Ordered(SettlesLatch(pin), Drives(pin), InitializePort(ch))
       /\ pin \in ODC => Ordered(SetsBit("odc", pin), Drives(pin), InitializePort(ch))
  BY <1>11, <1>12
<1>14. ASSUME NEW E, Has(E, odc \o lat) \/ Has(E, dig)
       PROVE  Has(E, InitializePort(ch))
  <2>1. Has(E, odc \o lat \o out \o cnOn \o dig)
    <3>1. CASE Has(E, odc \o lat)
      BY <1>1, <1>2, <3>1, HasConcat
    <3>2. CASE Has(E, dig)
      BY <1>1, <1>2, <3>2, HasConcat
    <3> QED
      BY <1>14, <3>1, <3>2
  <2>2. odc \o lat \o out \o cnOn \o dig \in Seq(Access)
    BY <1>1, <1>2
  <2>3. Has(E, odc \o lat \o out \o cnOn \o dig \o cnen)
    BY <1>1, <2>1, <2>2, HasConcat
  <2> QED
    BY <1>9, <2>3
<1> QED
  BY <1>3, <1>4, <1>8, <1>12, <1>13, <1>14

\* The accesses of the start-up but for the opening of interrupts, and what is not among them.
BootAccess == CpuAccess \cup DriverAccess \cup PortAccesses \cup [do : {"readPort"}]

\* They touch no channel, open nothing, attach nothing.
LEMMA BootApart ==
    /\ BootAccess \subseteq Access
    /\ BootAccess \cap Opening = {} /\ BootAccess \cap Attaching = {}
    /\ \A w : BootAccess \cap Touches(w) = {}
    /\ \A x : BootAccess \cap OfKind("noSource", x) = {}
    /\ \A c \in ChannelIndex : BootAccess \cap OfKind("source", inputInt[c]) = {}
<1>1. BootAccess \subseteq Access
  BY CpuIsAccess, PortIsAccess DEF BootAccess, Access, Simple
<1>2. BootAccess \cap Opening = {}
  BY DEF BootAccess, CpuAccess, Writes, DriverAccess, PortAccesses, Opening
<1>3. BootAccess \cap Attaching = {}
  BY DEF BootAccess, CpuAccess, Writes, DriverAccess, PortAccesses, Attaching, Objects
<1>4. ASSUME NEW w PROVE BootAccess \cap Touches(w) = {}
  BY DEF BootAccess, CpuAccess, Writes, DriverAccess, PortAccesses, Touches
<1>5. ASSUME NEW x PROVE BootAccess \cap OfKind("noSource", x) = {}
  BY DEF BootAccess, CpuAccess, Writes, DriverAccess, PortAccesses, OfKind
<1>6. ASSUME NEW c \in ChannelIndex PROVE BootAccess \cap OfKind("source", inputInt[c]) = {}
  <2>1. inputInt[c] \notin Sources
    BY DEF inputInt, ChannelIndex, Right, Left, Sources, Drivers
  <2> QED
    BY <2>1 DEF BootAccess, CpuAccess, Writes, DriverAccess, PortAccesses, OfKind
<1> QED
  BY <1>1, <1>2, <1>3, <1>4, <1>5, <1>6

\* The ports are initialised.
LEMMA PortsInitialize ==
    /\ SYS_PORTS_Initialize \in Seq(BootAccess) /\ SYS_PORTS_Initialize \in Seq(Elsewhere)
    /\ Has(Initialises("ports"), SYS_PORTS_Initialize)
    /\ \A pin \in Pins :
          /\ Free(SpoilsLatch(pin), SYS_PORTS_Initialize)
          /\ Free(ClearsBit("odc", pin), SYS_PORTS_Initialize)
          /\ Free(ClearsBit("digital", pin), SYS_PORTS_Initialize)
          /\ Ordered(SettlesLatch(pin), Drives(pin), SYS_PORTS_Initialize)
          /\ Has(SettlesLatch(pin), SYS_PORTS_Initialize)
          /\ pin \in ODC => /\ Ordered(SetsBit("odc", pin), Drives(pin), SYS_PORTS_Initialize)
                            /\ Has(SetsBit("odc", pin), SYS_PORTS_Initialize)
          /\ pin \in Digital => Has(SetsBit("digital", pin), SYS_PORTS_Initialize)
<1> DEFINE a == InitializePort("A")
           b == InitializePort("B")
           c == InitializePort("C")
           read == Do("readPort")
           clear == <<[do |-> "clearFlag", source |-> "cn"]>>
           enable == <<[do |-> "source", source |-> "cn"]>>
           readies == <<[do |-> "ready", object |-> "ports"]>>
           Rest == [do : {"readPort"}] \cup DriverAccess
<1>1. {"A", "B", "C"} = PortIds
  BY DEF PortIds
<1>2. a \in Seq(PortAccesses) /\ b \in Seq(PortAccesses) /\ c \in Seq(PortAccesses)
  BY <1>1, PortInitialize, PinSets
<1>3. read \in Seq(Rest) /\ clear \in Seq(Rest) /\ enable \in Seq(Rest) /\ readies \in Seq(Rest)
  <2>1. /\ [do |-> "readPort"] \in Rest /\ [do |-> "clearFlag", source |-> "cn"] \in Rest
        /\ [do |-> "source", source |-> "cn"] \in Rest /\ [do |-> "ready", object |-> "ports"] \in Rest
    BY DEF DriverAccess, Sources, Objects
  <2> QED
    BY <2>1 DEF Do
<1>4. Rest \subseteq Access /\ Rest \subseteq BootAccess /\ Rest \subseteq Elsewhere
  BY PortIsAccess, BootApart
     DEF BootAccess, Elsewhere, DriverAccess, OfSource, Readies, SourceNames, ObjectNames, Objects
<1>5. PortAccesses \subseteq Access /\ PortAccesses \subseteq BootAccess /\ PortAccesses \subseteq Elsewhere
  BY PortIsAccess DEF BootAccess, Elsewhere
<1>6. ASSUME NEW T, Rest \subseteq T, PortAccesses \subseteq T
      PROVE  SYS_PORTS_Initialize \in Seq(T)
  <2>1. /\ a \in Seq(T) /\ b \in Seq(T) /\ c \in Seq(T) /\ read \in Seq(T) /\ clear \in Seq(T)
        /\ enable \in Seq(T) /\ readies \in Seq(T)
    BY <1>2, <1>3, <1>6, SeqMonotonic
  <2> HIDE DEF a, b, c, read, clear, enable, readies
  <2>2. a \o b \o c \o read \o clear \o enable \o readies \in Seq(T)
    BY <2>1, ConcatProperties
  <2> QED
    BY <2>2 DEF SYS_PORTS_Initialize, a, b, c, read, clear, enable, readies
<1>7. /\ a \in Seq(Access) /\ b \in Seq(Access) /\ c \in Seq(Access) /\ read \in Seq(Access)
      /\ clear \in Seq(Access) /\ enable \in Seq(Access) /\ readies \in Seq(Access)
  BY <1>2, <1>3, <1>4, <1>5, SeqMonotonic
<1>8. \A s, t \in Seq(Access) : s \o t \in Seq(Access)
  BY ConcatProperties
<1>9. Has(Initialises("ports"), readies)
  BY InitializedSeq DEF Initialized, Objects
<1>10. ASSUME NEW B, B \cap Rest = {}
       PROVE  Free(B, read) /\ Free(B, clear) /\ Free(B, enable) /\ Free(B, readies)
  BY <1>3, <1>4, <1>10, Apart
<1> HIDE DEF a, b, c, read, clear, enable, readies
<1>11. SYS_PORTS_Initialize = a \o b \o c \o read \o clear \o enable \o readies
  BY DEF SYS_PORTS_Initialize, a, b, c, read, clear, enable, readies
<1>12. Has(Initialises("ports"), SYS_PORTS_Initialize)
  <2>1. a \o b \o c \o read \o clear \o enable \in Seq(Access)
    BY <1>7, <1>8
  <2> QED
    BY <1>7, <1>9, <1>11, <2>1, HasConcat
<1>13. ASSUME NEW B, B \cap Rest = {}, Free(B, a), Free(B, b), Free(B, c)
       PROVE  Free(B, SYS_PORTS_Initialize)
  <2>1. Free(B, read) /\ Free(B, clear) /\ Free(B, enable) /\ Free(B, readies)
    BY <1>10, <1>13
  <2>2. Free(B, a \o b \o c \o read \o clear \o enable \o readies)
    BY <1>7, <1>8, <1>13, <2>1, FreeConcat
  <2> QED
    BY <1>11, <2>2
<1>14. ASSUME NEW E, Has(E, a) \/ Has(E, b) \/ Has(E, c)
       PROVE  Has(E, a \o b \o c) /\ Has(E, SYS_PORTS_Initialize)
  <2>1. Has(E, a \o b) \/ Has(E, c)
    BY <1>7, <1>14, HasConcat
  <2>2. Has(E, a \o b \o c)
    BY <1>7, <1>8, <2>1, HasConcat
  <2>3. Has(E, a \o b \o c \o read \o clear \o enable \o readies)
    BY <1>7, <1>8, <2>2, HasConcat
  <2> QED
    BY <1>11, <2>2, <2>3
<1>15. ASSUME NEW E, NEW N, N \cap Rest = {}, Ordered(E, N, a), Ordered(E, N, b), Ordered(E, N, c)
       PROVE  Ordered(E, N, SYS_PORTS_Initialize)
  <2>1. /\ Ordered(E, N, read) /\ Ordered(E, N, clear) /\ Ordered(E, N, enable) /\ Ordered(E, N, readies)
    BY <1>10, <1>15 DEF Free, Ordered
  <2>2. Ordered(E, N, a \o b \o c \o read \o clear \o enable \o readies)
    BY <1>7, <1>8, <1>15, <2>1, OrderedConcat
  <2> QED
    BY <1>11, <2>2
<1>16. ASSUME NEW pin \in Pins
       PROVE  /\ pin \in On("A") \/ pin \in On("B") \/ pin \in On("C")
              /\ Rest \cap SpoilsLatch(pin) = {} /\ Rest \cap ClearsBit("odc", pin) = {}
              /\ Rest \cap ClearsBit("digital", pin) = {} /\ Rest \cap Drives(pin) = {}
  <2>1. pin \in On("A") \/ pin \in On("B") \/ pin \in On("C")
    BY PinSets DEF On, PortOf
  <2>2. \A r \in Rest : r.do \in {"readPort", "clearFlag", "source", "ready"}
    BY DEF DriverAccess
  <2> QED
    BY <2>1, <2>2 DEF SpoilsLatch, ClearsBit, PortWrites, Drives, Opening
<1> HIDE DEF Rest
<1>17. ASSUME NEW pin \in Pins
       PROVE  /\ Free(SpoilsLatch(pin), SYS_PORTS_Initialize)
              /\ Free(ClearsBit("odc", pin), SYS_PORTS_Initialize)
              /\ Free(ClearsBit("digital", pin), SYS_PORTS_Initialize)
              /\ Ordered(SettlesLatch(pin), Drives(pin), SYS_PORTS_Initialize)
              /\ Has(SettlesLatch(pin), SYS_PORTS_Initialize)
              /\ pin \in ODC => /\ Ordered(SetsBit("odc", pin), Drives(pin), SYS_PORTS_Initialize)
                                /\ Has(SetsBit("odc", pin), SYS_PORTS_Initialize)
              /\ pin \in Digital => Has(SetsBit("digital", pin), SYS_PORTS_Initialize)
  <2>1. \A ch \in PortIds :
          /\ Free(SpoilsLatch(pin), InitializePort(ch))
          /\ Free(ClearsBit("odc", pin), InitializePort(ch))
          /\ Free(ClearsBit("digital", pin), InitializePort(ch))
          /\ Ordered(SettlesLatch(pin), Drives(pin), InitializePort(ch))
          /\ pin \in On(ch) => Has(SettlesLatch(pin), InitializePort(ch))
          /\ pin \in ODC => Ordered(SetsBit("odc", pin), Drives(pin), InitializePort(ch))
          /\ pin \in ODC \cap On(ch) => Has(SetsBit("odc", pin), InitializePort(ch))
          /\ pin \in Digital \cap On(ch) => Has(SetsBit("digital", pin), InitializePort(ch))
    BY PortInitialize
  <2>2. Free(SpoilsLatch(pin), SYS_PORTS_Initialize)
    BY <1>1, <1>13, <1>16, <2>1 DEF a, b, c
  <2>3. Free(ClearsBit("odc", pin), SYS_PORTS_Initialize)
    BY <1>1, <1>13, <1>16, <2>1 DEF a, b, c
  <2>4. Free(ClearsBit("digital", pin), SYS_PORTS_Initialize)
    BY <1>1, <1>13, <1>16, <2>1 DEF a, b, c
  <2>5. Ordered(SettlesLatch(pin), Drives(pin), SYS_PORTS_Initialize)
    BY <1>1, <1>15, <1>16, <2>1 DEF a, b, c
  <2>6. Has(SettlesLatch(pin), SYS_PORTS_Initialize)
    BY <1>1, <1>14, <1>16, <2>1 DEF a, b, c
  <2>7. pin \in ODC => Ordered(SetsBit("odc", pin), Drives(pin), SYS_PORTS_Initialize)
    BY <1>1, <1>15, <1>16, <2>1 DEF a, b, c
  <2>8. pin \in ODC => Has(SetsBit("odc", pin), SYS_PORTS_Initialize)
    BY <1>1, <1>14, <1>16, <2>1 DEF a, b, c
  <2>9. pin \in Digital => Has(SetsBit("digital", pin), SYS_PORTS_Initialize)
    BY <1>1, <1>14, <1>16, <2>1 DEF a, b, c
  <2> QED
    BY <2>2, <2>3, <2>4, <2>5, <2>6, <2>7, <2>8, <2>9
<1> QED
  BY <1>4, <1>5, <1>6, <1>12, <1>17

-----------------------------------------------------------------------------
(* The start-up as a whole                                                 *)

BootClock == SYS_CLK_Initialize \o SYS_DEVCON_Initialize
                \o SYS_DEVCON_PerformanceConfig(SYS_CLK_SystemFrequencyGet)
BootDrivers == BootClock \o DriverInitialize("i2c") \o DriverInitialize("timer")
                  \o DriverInitialize("uart1") \o DriverInitialize("uart2")
BootServices == BootDrivers \o SYS_PORTS_Initialize \o Initialized("services")

\* Clock and device control.
LEMMA BootClockSeq ==
    /\ BootClock \in Seq(CpuAccess) /\ Runs(BootClock, "boot", "boot")
    /\ Has(ChoosesDivisor, BootClock) /\ Free(WritesDivisor \ ChoosesDivisor, BootClock)
<1> DEFINE clk == SYS_CLK_Initialize
           dev == SYS_DEVCON_Initialize
           perf == SYS_DEVCON_PerformanceConfig(SYS_CLK_SystemFrequencyGet)
           other == WritesDivisor \ ChoosesDivisor
<1>1. clk \in Seq(CpuAccess) /\ dev \in Seq(CpuAccess) /\ perf \in Seq(CpuAccess)
  <2>1. "devcon" \in Registers \ NumberRegisters
    BY DEF Registers, OpenRegisters, NumberRegisters
  <2>2. "ready" \in Words
    BY DEF Words
  <2>3. dev \in Seq(CpuAccess)
    BY <2>1, <2>2, CpuAccesses, Zenon DEF SYS_DEVCON_Initialize
  <2> QED
    BY <2>3, ClockSeq, PerformanceSeq
<1>2. clk \in Seq(Access) /\ dev \in Seq(Access) /\ perf \in Seq(Access) /\ clk \o dev \in Seq(Access)
  BY <1>1, CpuIsAccess, ConcatProperties
<1>3. clk \o dev \o perf \in Seq(CpuAccess)
  BY <1>1, ConcatProperties
<1>4. "boot" \in Phases
  BY DEF Phases
<1>5. Runs(dev, "boot", "boot")
  BY <1>4, RunsWrite DEF SYS_DEVCON_Initialize, KeyRegisters, RemapRegisters, MaskedRegisters
<1>6. Runs(clk \o dev \o perf, "boot", "boot")
  <2>1. Runs(clk \o dev, "boot", "boot")
    BY <1>2, <1>4, <1>5, RunsConcat, ClockRuns
  <2> QED
    BY <1>2, <1>4, <2>1, RunsConcat, PerformanceRuns
<1>7. Has(ChoosesDivisor, clk \o dev \o perf)
  BY <1>2, ClockRuns, HasConcat
<1>8. Free(other, dev)
  BY DEF SYS_DEVCON_Initialize, WriteReg, Free, WritesDivisor
<1>9. Free(other, perf)
  BY DEF SYS_DEVCON_PerformanceConfig, WriteReg, Do, Free, WritesDivisor
<1>10. Free(other, clk \o dev \o perf)
  BY <1>2, <1>8, <1>9, ClockRuns, FreeConcat
<1> QED
  BY <1>3, <1>6, <1>7, <1>10 DEF BootClock

\* Then the drivers.
LEMMA BootDriversSeq ==
    /\ BootDrivers \in Seq(CpuAccess \cup DriverAccess) /\ Runs(BootDrivers, "boot", "boot")
    /\ Has(ChoosesDivisor, BootDrivers) /\ Free(WritesDivisor \ ChoosesDivisor, BootDrivers)
    /\ \A o \in Objects \ {"ports", "services"} : Has(Initialises(o), BootDrivers)
<1> DEFINE i2c == DriverInitialize("i2c")
           timer == DriverInitialize("timer")
           uart1 == DriverInitialize("uart1")
           uart2 == DriverInitialize("uart2")
           T == CpuAccess \cup DriverAccess
           other == WritesDivisor \ ChoosesDivisor
<1>1. \A s \in {"i2c", "timer", "uart1", "uart2"} :
         DriverInitialize(s) \in Seq(DriverAccess) /\ Has(Initialises(Uses[s]), DriverInitialize(s))
  BY DriverSeq DEF Sources, Drivers
<1>2. /\ BootClock \in Seq(T) /\ i2c \in Seq(T) /\ timer \in Seq(T) /\ uart1 \in Seq(T)
      /\ uart2 \in Seq(T)
  BY <1>1, BootClockSeq, SeqMonotonic
<1>3. /\ BootClock \in Seq(Access) /\ i2c \in Seq(Access) /\ timer \in Seq(Access)
      /\ uart1 \in Seq(Access) /\ uart2 \in Seq(Access)
  BY <1>1, BootClockSeq, CpuIsAccess, PortIsAccess
<1>4. \A s, t \in Seq(Access) : s \o t \in Seq(Access)
  BY ConcatProperties
<1>5. /\ Runs(i2c, "boot", "boot") /\ Runs(timer, "boot", "boot") /\ Runs(uart1, "boot", "boot")
      /\ Runs(uart2, "boot", "boot")
  <2>1. DriverAccess \subseteq Elsewhere
    BY DEF DriverAccess, Elsewhere, OfSource, Readies, SourceNames, ObjectNames, Objects
  <2>2. \A s \in Seq(DriverAccess) : s \in Seq(Elsewhere)
    BY <2>1, SeqMonotonic
  <2>3. "boot" \in Phases
    BY DEF Phases
  <2> QED
    BY <1>1, <2>2, <2>3, RunsElsewhere
<1>6. Free(other, i2c) /\ Free(other, timer) /\ Free(other, uart1) /\ Free(other, uart2)
  <2>1. DriverAccess \cap other = {}
    BY DEF DriverAccess, WritesDivisor
  <2> QED
    BY <1>1, <2>1, Apart, PortIsAccess
<1> HIDE DEF i2c, timer, uart1, uart2, T, other
<1>7. BootDrivers = BootClock \o i2c \o timer \o uart1 \o uart2
  BY DEF BootDrivers, i2c, timer, uart1, uart2
<1>8. BootDrivers \in Seq(T)
  BY <1>2, <1>7, ConcatProperties
<1>9. Runs(BootDrivers, "boot", "boot")
  <2>1. "boot" \in Phases
    BY DEF Phases
  <2>2. Runs(BootClock \o i2c, "boot", "boot")
    BY <1>3, <1>5, <2>1, RunsConcat, BootClockSeq
  <2>3. Runs(BootClock \o i2c \o timer, "boot", "boot")
    BY <1>3, <1>4, <1>5, <2>1, <2>2, RunsConcat
  <2>4. Runs(BootClock \o i2c \o timer \o uart1, "boot", "boot")
    BY <1>3, <1>4, <1>5, <2>1, <2>3, RunsConcat
  <2>5. Runs(BootClock \o i2c \o timer \o uart1 \o uart2, "boot", "boot")
    BY <1>3, <1>4, <1>5, <2>1, <2>4, RunsConcat
  <2> QED
    BY <1>7, <2>5
<1>10. ASSUME NEW E, Has(E, BootClock) \/ Has(E, i2c) \/ Has(E, timer) \/ Has(E, uart1) \/ Has(E, uart2)
       PROVE  Has(E, BootDrivers)
  <2>1. Has(E, BootClock \o i2c) \/ Has(E, timer) \/ Has(E, uart1) \/ Has(E, uart2)
    BY <1>3, <1>10, HasConcat
  <2>2. Has(E, BootClock \o i2c \o timer) \/ Has(E, uart1) \/ Has(E, uart2)
    BY <1>3, <1>4, <2>1, HasConcat
  <2>3. Has(E, BootClock \o i2c \o timer \o uart1) \/ Has(E, uart2)
    BY <1>3, <1>4, <2>2, HasConcat
  <2>4. Has(E, BootClock \o i2c \o timer \o uart1 \o uart2)
    BY <1>3, <1>4, <2>3, HasConcat
  <2> QED
    BY <1>7, <2>4
<1>11. Free(other, BootDrivers)
  <2>1. Free(other, BootClock)
    BY BootClockSeq DEF other
  <2>2. Free(other, BootClock \o i2c \o timer \o uart1 \o uart2)
    BY <1>3, <1>4, <1>6, <2>1, FreeConcat
  <2> QED
    BY <1>7, <2>2
<1>12. ASSUME NEW o \in Objects \ {"ports", "services"} PROVE Has(Initialises(o), BootDrivers)
  <2>1. o \in {Uses["i2c"], Uses["timer"], Uses["uart1"], Uses["uart2"]}
    BY DEF Objects, Uses
  <2>2. /\ Has(Initialises(Uses["i2c"]), i2c) /\ Has(Initialises(Uses["timer"]), timer)
        /\ Has(Initialises(Uses["uart1"]), uart1) /\ Has(Initialises(Uses["uart2"]), uart2)
    BY <1>1 DEF i2c, timer, uart1, uart2
  <2> QED
    BY <1>10, <2>1, <2>2
<1> QED
  BY <1>8, <1>9, <1>10, <1>11, <1>12, BootClockSeq DEF T, other

\* Then ports and services, all with interrupts off.
LEMMA BootServicesSeq ==
    /\ BootServices \in Seq(BootAccess) /\ Runs(BootServices, "boot", "boot")
    /\ Has(ChoosesDivisor, BootServices) /\ Free(WritesDivisor \ ChoosesDivisor, BootServices)
    /\ \A o \in Objects : Has(Initialises(o), BootServices)
    /\ \A pin \in Pins :
          /\ Free(SpoilsLatch(pin), BootServices)
          /\ Free(ClearsBit("odc", pin), BootServices)
          /\ Free(ClearsBit("digital", pin), BootServices)
          /\ Ordered(SettlesLatch(pin), Drives(pin), BootServices)
          /\ Has(SettlesLatch(pin), BootServices)
          /\ pin \in ODC => /\ Ordered(SetsBit("odc", pin), Drives(pin), BootServices)
                            /\ Has(SetsBit("odc", pin), BootServices)
          /\ pin \in Digital => Has(SetsBit("digital", pin), BootServices)
<1> DEFINE d == BootDrivers
           p == SYS_PORTS_Initialize
           v == Initialized("services")
           CD == CpuAccess \cup DriverAccess
           other == WritesDivisor \ ChoosesDivisor
<1>1. v \in Seq(DriverAccess) /\ Has(Initialises("services"), v)
  BY InitializedSeq DEF Objects
<1>2. CpuAccess \subseteq BootAccess /\ DriverAccess \subseteq BootAccess /\ CD \subseteq BootAccess
      /\ CD \subseteq Access /\ DriverAccess \subseteq CD
  BY CpuIsAccess, PortIsAccess DEF BootAccess
<1>3. d \in Seq(BootAccess) /\ p \in Seq(BootAccess) /\ v \in Seq(BootAccess)
  BY <1>1, <1>2, BootDriversSeq, PortsInitialize, SeqMonotonic
<1>4. d \in Seq(Access) /\ p \in Seq(Access) /\ v \in Seq(Access) /\ d \o p \in Seq(Access)
  <2>1. d \in Seq(Access) /\ p \in Seq(Access) /\ v \in Seq(Access)
    BY <1>3, BootApart, SeqMonotonic
  <2> QED
    BY <2>1, ConcatProperties
<1>5. v \in Seq(CD) /\ d \in Seq(CD)
  BY <1>1, <1>2, BootDriversSeq, SeqMonotonic
<1>6. BootServices = d \o p \o v
  BY DEF BootServices
<1> HIDE DEF d, p, v
<1>7. BootServices \in Seq(BootAccess)
  BY <1>3, <1>6, ConcatProperties
<1>8. Runs(BootServices, "boot", "boot")
  <2>1. "boot" \in Phases
    BY DEF Phases
  <2>2. Runs(d, "boot", "boot")
    BY BootDriversSeq DEF d
  <2>3. Runs(p, "boot", "boot")
    BY <2>1, PortsInitialize, RunsElsewhere DEF p
  <2>4. Runs(v, "boot", "boot")
    <3>1. DriverAccess \subseteq Elsewhere
      BY DEF DriverAccess, Elsewhere, OfSource, Readies, SourceNames, ObjectNames, Objects
    <3>2. v \in Seq(Elsewhere)
      BY <1>1, <3>1, SeqMonotonic
    <3> QED
      BY <2>1, <3>2, RunsElsewhere
  <2>5. Runs(d \o p, "boot", "boot")
    BY <1>4, <2>1, <2>2, <2>3, RunsConcat
  <2> QED
    BY <1>4, <1>6, <2>1, <2>4, <2>5, RunsConcat
<1>9. ASSUME NEW E, Has(E, d) \/ Has(E, p) \/ Has(E, v) PROVE Has(E, BootServices)
  <2>1. Has(E, d \o p) \/ Has(E, v)
    BY <1>4, <1>9, HasConcat
  <2> QED
    BY <1>4, <1>6, <2>1, HasConcat
<1>10. ASSUME NEW B, B \cap CD = {}, Free(B, p) PROVE Free(B, BootServices)
  <2>1. Free(B, d) /\ Free(B, v)
    BY <1>2, <1>5, <1>10, Apart
  <2>2. Free(B, d \o p)
    BY <1>4, <1>10, <2>1, FreeConcat
  <2> QED
    BY <1>4, <1>6, <2>1, <2>2, FreeConcat
<1>11. ASSUME NEW E, NEW N, N \cap CD = {}, Ordered(E, N, p)
       PROVE  Ordered(E, N, BootServices)
  <2>1. Ordered(E, N, d) /\ Ordered(E, N, v)
    BY <1>2, <1>5, <1>11, Apart
  <2>2. Ordered(E, N, d \o p)
    BY <1>4, <1>11, <2>1, OrderedConcat
  <2> QED
    BY <1>4, <1>6, <2>1, <2>2, OrderedConcat
<1>12. Free(other, BootServices)
  <2>1. Free(other, d)
    BY BootDriversSeq DEF d
  <2>2. Elsewhere \cap other = {} /\ DriverAccess \cap other = {}
    BY DEF Elsewhere, PortAccesses, OfSource, Readies, Configures, DriverAccess, WritesDivisor
  <2>3. Elsewhere \subseteq Access
    BY DEF Elsewhere, Access, Simple
  <2>4. Free(other, p)
    BY <2>2, <2>3, PortsInitialize, Apart DEF p
  <2>5. Free(other, v)
    BY <1>1, <2>2, PortIsAccess, Apart
  <2>6. Free(other, d \o p)
    BY <1>4, <2>1, <2>4, FreeConcat
  <2> QED
    BY <1>4, <1>6, <2>5, <2>6, FreeConcat
<1>13. ASSUME NEW o \in Objects PROVE Has(Initialises(o), BootServices)
  <2>1. CASE o = "ports"
    BY <1>9, <2>1, PortsInitialize DEF p
  <2>2. CASE o = "services"
    BY <1>1, <1>9, <2>2
  <2>3. CASE o \notin {"ports", "services"}
    BY <1>9, <2>3, BootDriversSeq DEF d
  <2> QED
    BY <2>1, <2>2, <2>3
<1>14. ASSUME NEW pin \in Pins
       PROVE  /\ CD \cap SpoilsLatch(pin) = {} /\ CD \cap ClearsBit("odc", pin) = {}
              /\ CD \cap ClearsBit("digital", pin) = {} /\ CD \cap Drives(pin) = {}
  <2>1. \A a \in CD : a.do \notin {"port", "enable"}
    BY DEF CpuAccess, Writes, DriverAccess
  <2> QED
    BY <2>1 DEF SpoilsLatch, ClearsBit, PortWrites, Drives, Opening
<1> HIDE DEF CD
<1>15. ASSUME NEW pin \in Pins
       PROVE  /\ Free(SpoilsLatch(pin), BootServices)
              /\ Free(ClearsBit("odc", pin), BootServices)
              /\ Free(ClearsBit("digital", pin), BootServices)
              /\ Ordered(SettlesLatch(pin), Drives(pin), BootServices)
              /\ Has(SettlesLatch(pin), BootServices)
              /\ pin \in ODC => /\ Ordered(SetsBit("odc", pin), Drives(pin), BootServices)
                                /\ Has(SetsBit("odc", pin), BootServices)
              /\ pin \in Digital => Has(SetsBit("digital", pin), BootServices)
  BY <1>9, <1>10, <1>11, <1>14, PortsInitialize DEF p
<1>16. Has(ChoosesDivisor, BootServices)
  BY <1>9, BootDriversSeq DEF d
<1> QED
  BY <1>7, <1>8, <1>12, <1>13, <1>15, <1>16 DEF other

\* The whole sequence: what is needed comes in time, and nothing is undone.
LEMMA BootSeq ==
    /\ SYS_Initialize \in Seq(Access) /\ Runs(SYS_Initialize, "boot", "loop")
    /\ Ordered(ChoosesDivisor, Opening \cup Attaching, SYS_Initialize)
    /\ Free(WritesDivisor \ ChoosesDivisor, SYS_Initialize)
    /\ \A o \in Objects : Ordered(Initialises(o), Opening, SYS_Initialize)
    /\ \A pin \in Pins :
          /\ Free(SpoilsLatch(pin), SYS_Initialize)
          /\ Free(ClearsBit("odc", pin), SYS_Initialize)
          /\ Free(ClearsBit("digital", pin), SYS_Initialize)
          /\ Ordered(SettlesLatch(pin), Drives(pin), SYS_Initialize)
          /\ pin \in ODC => Ordered(SetsBit("odc", pin), Drives(pin), SYS_Initialize)
          /\ pin \in Digital => Ordered(SetsBit("digital", pin), Opening, SYS_Initialize)
    /\ Closed(Opening, Disturbs, SYS_Initialize)
    /\ Free(Attaching, SYS_Initialize) /\ \A w : Free(Touches(w), SYS_Initialize)
    /\ \A x : Free(OfKind("noSource", x), SYS_Initialize)
    /\ \A c \in ChannelIndex : Free(OfKind("source", inputInt[c]), SYS_Initialize)
<1> DEFINE s == BootServices
           e == Do("enable")
           a == Initialized("applications")
<1>1. SYS_Initialize = s \o e \o a
  BY DEF SYS_Initialize, BootServices, BootDrivers, BootClock
<1>2. s \in Seq(BootAccess) /\ a \in Seq(DriverAccess) /\ a \in Seq(BootAccess)
  <2>1. a \in Seq(DriverAccess)
    BY InitializedSeq
  <2>2. DriverAccess \subseteq BootAccess
    BY DEF BootAccess
  <2> QED
    BY <2>1, <2>2, SeqMonotonic, BootServicesSeq
<1>3. e \in Seq(Access)
  BY DEF Do, Access, Simple
<1>4. s \in Seq(Access) /\ a \in Seq(Access) /\ s \o e \in Seq(Access) /\ s \o e \o a \in Seq(Access)
  <2>1. s \in Seq(Access) /\ a \in Seq(Access)
    BY <1>2, BootApart, SeqMonotonic
  <2> QED
    BY <1>3, <2>1, ConcatProperties
<1>5. ASSUME NEW B, \A x \in B : x.do # "enable" PROVE Free(B, e)
  BY <1>5 DEF Free, Do
<1> HIDE DEF s, a
<1>6. Runs(SYS_Initialize, "boot", "loop")
  <2>1. "boot" \in Phases /\ "loop" \in Phases
    BY DEF Phases
  <2>2. Leads("boot", [do |-> "enable"], "loop")
    BY DEF Leads, Key
  <2>3. Runs(e, "boot", "loop")
    BY <2>1, <2>2, RunsOne DEF Do
  <2>4. Runs(a, "loop", "loop")
    <3>1. DriverAccess \subseteq Elsewhere
      BY DEF DriverAccess, Elsewhere, OfSource, Readies, SourceNames, ObjectNames, Objects
    <3>2. a \in Seq(Elsewhere)
      BY <1>2, <3>1, SeqMonotonic
    <3> QED
      BY <2>1, <3>2, RunsElsewhere
  <2>5. Runs(s \o e, "boot", "loop")
    BY <1>3, <1>4, <2>1, <2>3, RunsConcat, BootServicesSeq DEF s
  <2> QED
    BY <1>1, <1>4, <2>1, <2>4, <2>5, RunsConcat
<1> HIDE DEF e
<1>7. ASSUME NEW B, \A x \in B : x.do # "enable", Free(B, s), Free(B, a)
      PROVE  Free(B, SYS_Initialize)
  <2>1. Free(B, s \o e)
    BY <1>3, <1>4, <1>5, <1>7, FreeConcat
  <2> QED
    BY <1>1, <1>4, <1>7, <2>1, FreeConcat
<1>8. ASSUME NEW B, \A x \in B : x.do # "enable", BootAccess \cap B = {}
      PROVE  Free(B, SYS_Initialize)
  <2>1. Free(B, s) /\ Free(B, a)
    BY <1>2, <1>8, BootApart, Apart
  <2> QED
    BY <1>7, <1>8, <2>1
<1>9. ASSUME NEW E, NEW N, Ordered(E, N, s), Has(E, s)
      PROVE  Ordered(E, N, SYS_Initialize)
  <2>1. Ordered(E, N, s \o e) /\ Has(E, s \o e)
    BY <1>3, <1>4, <1>9, OrderedConcat, HasConcat
  <2> QED
    BY <1>1, <1>4, <2>1, OrderedConcat
<1>10. \A E : Ordered(E, Opening, s) /\ Ordered(E, Opening \cup Attaching, s)
  <2>1. BootAccess \cap (Opening \cup Attaching) = {}
    BY BootApart
  <2> QED
    BY <1>2, <2>1, BootApart, Apart
<1>11. Ordered(ChoosesDivisor, Opening \cup Attaching, SYS_Initialize)
  BY <1>9, <1>10, BootServicesSeq DEF s
<1>12. Free(WritesDivisor \ ChoosesDivisor, SYS_Initialize)
  <2>1. \A x \in WritesDivisor \ ChoosesDivisor : x.do # "enable"
    BY DEF WritesDivisor
  <2>2. DriverAccess \cap (WritesDivisor \ ChoosesDivisor) = {}
    BY DEF DriverAccess, WritesDivisor
  <2>3. Free(WritesDivisor \ ChoosesDivisor, a)
    BY <1>2, <2>2, PortIsAccess, Apart
  <2> QED
    BY <1>7, <2>1, <2>3, BootServicesSeq DEF s
<1>13. \A o \in Objects : Ordered(Initialises(o), Opening, SYS_Initialize)
  BY <1>9, <1>10, BootServicesSeq DEF s
<1>14. ASSUME NEW pin \in Pins
       PROVE  /\ Free(SpoilsLatch(pin), SYS_Initialize)
              /\ Free(ClearsBit("odc", pin), SYS_Initialize)
              /\ Free(ClearsBit("digital", pin), SYS_Initialize)
              /\ Ordered(SettlesLatch(pin), Drives(pin), SYS_Initialize)
              /\ pin \in ODC => Ordered(SetsBit("odc", pin), Drives(pin), SYS_Initialize)
              /\ pin \in Digital => Ordered(SetsBit("digital", pin), Opening, SYS_Initialize)
  <2>1. /\ \A x \in SpoilsLatch(pin) : x.do = "port"
        /\ \A x \in ClearsBit("odc", pin) : x.do = "port"
        /\ \A x \in ClearsBit("digital", pin) : x.do = "port"
    BY DEF SpoilsLatch, ClearsBit, PortWrites
  <2>2. /\ DriverAccess \cap SpoilsLatch(pin) = {} /\ DriverAccess \cap ClearsBit("odc", pin) = {}
        /\ DriverAccess \cap ClearsBit("digital", pin) = {}
    <3>1. \A x \in DriverAccess : x.do # "port"
      BY DEF DriverAccess
    <3>2. \A B : (\A x \in B : x.do = "port") => DriverAccess \cap B = {}
      BY <3>1
    <3> QED
      BY <2>1, <3>2
  <2>3. /\ Free(SpoilsLatch(pin), a) /\ Free(ClearsBit("odc", pin), a) /\ Free(ClearsBit("digital", pin), a)
    BY <1>2, <2>2, PortIsAccess, Apart
  <2>4. /\ Free(SpoilsLatch(pin), s) /\ Free(ClearsBit("odc", pin), s) /\ Free(ClearsBit("digital", pin), s)
    BY BootServicesSeq DEF s
  <2>5. /\ Free(SpoilsLatch(pin), SYS_Initialize) /\ Free(ClearsBit("odc", pin), SYS_Initialize)
        /\ Free(ClearsBit("digital", pin), SYS_Initialize)
    <3>1. \A B : (\A x \in B : x.do = "port") => (\A x \in B : x.do # "enable")
      OBVIOUS
    <3>2. \A B : (\A x \in B : x.do = "port") /\ Free(B, s) /\ Free(B, a) => Free(B, SYS_Initialize)
      BY <1>7, <3>1
    <3> QED
      BY <2>1, <2>3, <2>4, <3>2
  <2>6. /\ Ordered(SettlesLatch(pin), Drives(pin), SYS_Initialize)
        /\ pin \in ODC => Ordered(SetsBit("odc", pin), Drives(pin), SYS_Initialize)
        /\ pin \in Digital => Ordered(SetsBit("digital", pin), Opening, SYS_Initialize)
    BY <1>9, <1>10, BootServicesSeq DEF s
  <2> QED
    BY <2>5, <2>6
<1>15. Closed(Opening, Disturbs, SYS_Initialize)
  <2>1. Free(Opening, s) /\ Closed(Opening, Disturbs, s) /\ Closed(Opening, Disturbs, a)
    BY <1>2, BootApart, Apart
  <2>2. Free(Disturbs, e)
    BY <1>5 DEF Disturbs, PortWrites, OfKind
  <2>3. Closed(Opening, Disturbs, e)
    BY <2>2 DEF Closed, Free, e, Do
  <2>4. DriverAccess \cap PortWrites("lat", "LedStatus") = {}
    BY DEF DriverAccess, PortWrites
  <2>5. Free(Disturbs, a)
    <3>1. Initialized("applications") = <<[do |-> "ready", object |-> "applications"]>>
      BY DEF Initialized
    <3> QED
      BY <3>1 DEF a, Free, Disturbs, PortWrites, OfKind
  <2>6. Closed(Opening, Disturbs, s \o e)
    BY <1>3, <1>4, <2>1, <2>2, <2>3, ClosedConcat
  <2> QED
    BY <1>1, <1>4, <2>1, <2>5, <2>6, ClosedConcat
<1>16. Free(Attaching, SYS_Initialize)
  BY <1>8, BootApart DEF Attaching
<1>17. ASSUME NEW w PROVE Free(Touches(w), SYS_Initialize)
  <2>1. \A x \in Touches(w) : x.do # "enable"
    BY DEF Touches
  <2> QED
    BY <1>8, <2>1, BootApart
<1>18. ASSUME NEW x PROVE Free(OfKind("noSource", x), SYS_Initialize)
  <2>1. \A y \in OfKind("noSource", x) : y.do # "enable"
    BY DEF OfKind
  <2> QED
    BY <1>8, <2>1, BootApart
<1>19. ASSUME NEW c \in ChannelIndex PROVE Free(OfKind("source", inputInt[c]), SYS_Initialize)
  <2>1. \A y \in OfKind("source", inputInt[c]) : y.do # "enable"
    BY DEF OfKind
  <2> QED
    BY <1>8, <2>1, BootApart
<1> QED
  BY <1>1, <1>4, <1>6, <1>11, <1>12, <1>13, <1>14, <1>15, <1>16, <1>17, <1>18, <1>19

-----------------------------------------------------------------------------
(* The channels' hardware                                                  *)

ChannelNames == {"T4", "T5", "INT2", "INT3"}
ChannelAccess == {[do |-> "configure", part |-> w[1], field |-> w[2], value |-> w[3]] : w \in Wanted}
                    \cup [do : {"clearFlag"}, source : ChannelNames]
                    \cup [do : {"source"}, source : {"T4", "T5"}]
                    \cup [do : {"noSource"}, source : {"INT2", "INT3"}]
                    \cup [do : {"ready"}, object : ChannelNames]

\* A field is to have one value.
LEMMA OneValue == \A v, w \in Wanted : v[1] = w[1] /\ v[2] = w[2] => v[3] = w[3]
BY DEF Wanted, Parts

\* What is wanted of a channel is a part, a field and a value.
LEMMA WantedTypes == \A w \in Wanted : w = <<w[1], w[2], w[3]>> /\ w[1] \in Parts /\ w[2] \in Fields /\ w[3] \in Int
BY DEF Wanted, Parts, Fields

\* The attachment configures everything as wanted, and does nothing else.
LEMMA ChannelApart ==
    /\ ChannelAccess \subseteq Access /\ ChannelAccess \subseteq Elsewhere
    /\ ChannelAccess \cap Opening = {} /\ ChannelAccess \cap Attaching = {}
    /\ ChannelAccess \cap WritesDivisor = {} /\ ChannelAccess \cap Disturbs = {}
    /\ \A r, pin : ChannelAccess \cap PortWrites(r, pin) = {}
    /\ \A w \in Wanted : ChannelAccess \cap Misconfigures(w) = {}
    /\ \A c \in ChannelIndex : /\ ChannelAccess \cap OfKind("noSource", wdTimer[c]) = {}
                               /\ ChannelAccess \cap OfKind("source", inputInt[c]) = {}
<1>1. ASSUME NEW w \in Wanted
      PROVE  [do |-> "configure", part |-> w[1], field |-> w[2], value |-> w[3]] \in Configures
  BY WantedTypes DEF Configures
<1>2. ASSUME NEW a \in ChannelAccess
      PROVE  /\ a \in Elsewhere /\ a.do \in {"configure", "clearFlag", "source", "noSource", "ready"}
             /\ a.do = "ready" => a.object # "channels"
             /\ a.do = "clearFlag" => a.source # "cn"
             /\ a.do = "source" => a.source \in {"T4", "T5"}
             /\ a.do = "noSource" => a.source \in {"INT2", "INT3"}
             /\ a.do = "configure" => \E w \in Wanted : a.part = w[1] /\ a.field = w[2] /\ a.value = w[3]
  BY <1>1, <1>2 DEF ChannelAccess, ChannelNames, Elsewhere, OfSource, Readies, SourceNames, ObjectNames
<1>3. Elsewhere \subseteq Access
  BY DEF Elsewhere, Access, Simple
<1>4. ChannelAccess \cap Opening = {} /\ ChannelAccess \cap Attaching = {}
  BY <1>2 DEF Opening, Attaching
<1>5. ChannelAccess \cap WritesDivisor = {}
  BY <1>2 DEF WritesDivisor
<1>6. ASSUME NEW r, NEW pin PROVE ChannelAccess \cap PortWrites(r, pin) = {}
  BY <1>2 DEF PortWrites
<1>7. ChannelAccess \cap Disturbs = {}
  BY <1>2, <1>6 DEF Disturbs, OfKind
<1>8. ASSUME NEW w \in Wanted PROVE ChannelAccess \cap Misconfigures(w) = {}
  BY <1>2, OneValue DEF Misconfigures, Touches, ConfiguresAs
<1>9. ASSUME NEW c \in ChannelIndex
      PROVE  ChannelAccess \cap OfKind("noSource", wdTimer[c]) = {} /\ ChannelAccess \cap OfKind("source", inputInt[c]) = {}
  BY <1>2 DEF OfKind, wdTimer, inputInt, ChannelIndex, Right, Left
<1> QED
  BY <1>2, <1>3, <1>4, <1>5, <1>6, <1>7, <1>8, <1>9

\* A wanted value is written.
LEMMA ConfigureWanted ==
    ASSUME NEW p, NEW f, NEW v, <<p, f, v>> \in Wanted
    PROVE  Configure(p, f, v) \in Seq(ChannelAccess) /\ Has(ConfiguresAs(<<p, f, v>>), Configure(p, f, v))
<1>1. [do |-> "configure", part |-> p, field |-> f, value |-> v] \in ChannelAccess
  BY DEF ChannelAccess
<1>2. [do |-> "configure", part |-> p, field |-> f, value |-> v] \in ConfiguresAs(<<p, f, v>>)
  BY <1>1, ChannelApart DEF ConfiguresAs, Touches
<1> QED
  BY <1>1, <1>2 DEF Configure, Has

\* A timer is set up with prescaler and period.
LEMMA TimerWanted ==
    ASSUME NEW t, NEW k, NEW n,
           <<t, "on", 0>> \in Wanted, <<t, "prescale", k>> \in Wanted, <<t, "period", n>> \in Wanted
    PROVE  /\ Timer(t, k, n) \in Seq(ChannelAccess)
           /\ Has(ConfiguresAs(<<t, "prescale", k>>), Timer(t, k, n))
           /\ Has(ConfiguresAs(<<t, "period", n>>), Timer(t, k, n))
<1> DEFINE a == Configure(t, "on", 0)
           b == Configure(t, "prescale", k)
           c == Configure(t, "period", n)
<1>1. a \in Seq(ChannelAccess) /\ b \in Seq(ChannelAccess) /\ c \in Seq(ChannelAccess)
  BY ConfigureWanted
<1>2. a \in Seq(Access) /\ b \in Seq(Access) /\ c \in Seq(Access)
  BY <1>1, ChannelApart, SeqMonotonic
<1>3. Has(ConfiguresAs(<<t, "prescale", k>>), b) /\ Has(ConfiguresAs(<<t, "period", n>>), c)
  BY ConfigureWanted
<1>4. Timer(t, k, n) = a \o b \o c
  BY DEF Timer
<1> HIDE DEF a, b, c
<1>5. Timer(t, k, n) \in Seq(ChannelAccess)
  BY <1>1, <1>4, ConcatProperties
<1>6. a \o b \in Seq(Access)
  BY <1>2, ConcatProperties
<1>7. Has(ConfiguresAs(<<t, "prescale", k>>), a \o b \o c)
  BY <1>2, <1>3, <1>6, HasConcat
<1>8. Has(ConfiguresAs(<<t, "period", n>>), a \o b \o c)
  BY <1>2, <1>3, <1>6, HasConcat
<1> QED
  BY <1>4, <1>5, <1>7, <1>8

\* What the attachment of one channel configures, and the carrier both use.
WatchdogValues(c) ==
    {<<wdTimer[c], "prescale", 8>>, <<wdTimer[c], "period", 2750>>, <<wdTimer[c], "priority", 7>>}
Provided(c) == WatchdogValues(c) \cup {<<inputInt[c], "priority", 7>>}
Shared == {<<"T2", "prescale", 16>>, <<"T2", "period", 500>>, <<"OC1", "width", 250>>}

\* A watchdog is set up: prescaler, period, priority, and its source is enabled.
LEMMA WatchdogWanted ==
    ASSUME NEW c \in ChannelIndex
    PROVE  /\ FakeWD_Initialize(c) \in Seq(ChannelAccess)
           /\ \A w \in WatchdogValues(c) : Has(ConfiguresAs(w), FakeWD_Initialize(c))
           /\ Has(OfKind("source", wdTimer[c]), FakeWD_Initialize(c))
<1> DEFINE t == wdTimer[c]
           a == Timer(t, 8, 2750)
           b == Clear(t)
           e == Enable(t)
           p == Configure(t, "priority", 7)
<1>1. t \in {"T4", "T5"}
  BY DEF wdTimer
<1>2. /\ <<t, "on", 0>> \in Wanted /\ <<t, "prescale", 8>> \in Wanted /\ <<t, "period", 2750>> \in Wanted
      /\ <<t, "priority", 7>> \in Wanted
  BY <1>1 DEF Wanted, Parts
<1> HIDE DEF t
<1>3. /\ a \in Seq(ChannelAccess) /\ p \in Seq(ChannelAccess)
      /\ Has(ConfiguresAs(<<t, "prescale", 8>>), a) /\ Has(ConfiguresAs(<<t, "period", 2750>>), a)
      /\ Has(ConfiguresAs(<<t, "priority", 7>>), p)
  BY <1>2, TimerWanted, ConfigureWanted
<1>4. [do |-> "clearFlag", source |-> t] \in ChannelAccess /\ [do |-> "source", source |-> t] \in ChannelAccess
  BY <1>1 DEF ChannelAccess, ChannelNames
<1>5. b \in Seq(ChannelAccess) /\ e \in Seq(ChannelAccess)
  BY <1>4 DEF Clear, Enable
<1>6. Has(OfKind("source", t), e)
  <2>1. [do |-> "source", source |-> t] \in OfKind("source", t)
    BY <1>4, ChannelApart DEF OfKind
  <2> QED
    BY <2>1 DEF Has, Enable
<1>7. FakeWD_Initialize(c) = a \o b \o e \o p
  BY DEF FakeWD_Initialize, t
<1> HIDE DEF a, b, e, p
<1>8. a \in Seq(Access) /\ b \in Seq(Access) /\ e \in Seq(Access) /\ p \in Seq(Access)
      /\ a \o b \in Seq(Access) /\ a \o b \o e \in Seq(Access)
  <2>1. a \in Seq(Access) /\ b \in Seq(Access) /\ e \in Seq(Access) /\ p \in Seq(Access)
    BY <1>3, <1>5, ChannelApart, SeqMonotonic
  <2> QED
    BY <2>1, ConcatProperties
<1>9. FakeWD_Initialize(c) \in Seq(ChannelAccess)
  BY <1>3, <1>5, <1>7, ConcatProperties
<1>10. ASSUME NEW E, Has(E, a) \/ Has(E, e) \/ Has(E, p) PROVE Has(E, FakeWD_Initialize(c))
  <2>1. Has(E, a \o b) \/ Has(E, e) \/ Has(E, p)
    BY <1>8, <1>10, HasConcat
  <2>2. Has(E, a \o b \o e) \/ Has(E, p)
    BY <1>8, <2>1, HasConcat
  <2> QED
    BY <1>7, <1>8, <2>2, HasConcat
<1> QED
  BY <1>3, <1>6, <1>9, <1>10 DEF t, WatchdogValues

\* An input is set up: its priority; its source stays disabled.
LEMMA InputWanted ==
    ASSUME NEW c \in ChannelIndex
    PROVE  /\ LaserInput_Get(c) \in Seq(ChannelAccess)
           /\ Has(ConfiguresAs(<<inputInt[c], "priority", 7>>), LaserInput_Get(c))
<1> DEFINE i == inputInt[c]
           a == Clear(i)
           d == Disable(i)
           p == Configure(i, "priority", 7)
<1>1. i \in {"INT2", "INT3"}
  BY DEF inputInt
<1>2. <<i, "priority", 7>> \in Wanted
  BY <1>1 DEF Wanted, Parts
<1> HIDE DEF i
<1>3. p \in Seq(ChannelAccess) /\ Has(ConfiguresAs(<<i, "priority", 7>>), p)
  BY <1>2, ConfigureWanted
<1>4. [do |-> "clearFlag", source |-> i] \in ChannelAccess /\ [do |-> "noSource", source |-> i] \in ChannelAccess
  BY <1>1 DEF ChannelAccess, ChannelNames
<1>5. a \in Seq(ChannelAccess) /\ d \in Seq(ChannelAccess)
  BY <1>4 DEF Clear, Disable
<1>6. LaserInput_Get(c) = a \o d \o p
  BY DEF LaserInput_Get, i
<1> HIDE DEF a, d, p
<1>7. a \o d \in Seq(Access) /\ p \in Seq(Access)
  BY <1>3, <1>5, ChannelApart, SeqMonotonic, ConcatProperties
<1>8. Has(ConfiguresAs(<<i, "priority", 7>>), a \o d \o p)
  BY <1>3, <1>7, HasConcat
<1>9. a \o d \o p \in Seq(ChannelAccess)
  BY <1>3, <1>5, ConcatProperties
<1> QED
  BY <1>6, <1>8, <1>9 DEF i

\* The carrier: timer 2 and compare unit 1.
LEMMA ModulatorWanted ==
    /\ LaserModulator_Intiialize \in Seq(ChannelAccess)
    /\ \A w \in {<<"T2", "prescale", 16>>, <<"T2", "period", 500>>, <<"OC1", "width", 250>>} :
          Has(ConfiguresAs(w), LaserModulator_Intiialize)
<1> DEFINE a == Timer("T2", 16, 500)
           b == Configure("OC1", "on", 0)
           c == Configure("OC1", "width", 250)
<1>1. /\ <<"T2", "on", 0>> \in Wanted /\ <<"T2", "prescale", 16>> \in Wanted
      /\ <<"T2", "period", 500>> \in Wanted /\ <<"OC1", "on", 0>> \in Wanted
      /\ <<"OC1", "width", 250>> \in Wanted
  BY DEF Wanted, Parts
<1>2. /\ a \in Seq(ChannelAccess) /\ b \in Seq(ChannelAccess) /\ c \in Seq(ChannelAccess)
      /\ Has(ConfiguresAs(<<"T2", "prescale", 16>>), a) /\ Has(ConfiguresAs(<<"T2", "period", 500>>), a)
      /\ Has(ConfiguresAs(<<"OC1", "width", 250>>), c)
  BY <1>1, TimerWanted, ConfigureWanted
<1>3. LaserModulator_Intiialize = a \o b \o c
  BY DEF LaserModulator_Intiialize
<1> HIDE DEF a, b, c
<1>4. a \in Seq(Access) /\ b \in Seq(Access) /\ c \in Seq(Access) /\ a \o b \in Seq(Access)
  BY <1>2, ChannelApart, SeqMonotonic, ConcatProperties
<1>5. a \o b \o c \in Seq(ChannelAccess)
  BY <1>2, ConcatProperties
<1>6. ASSUME NEW E, Has(E, a) \/ Has(E, c) PROVE Has(E, a \o b \o c)
  <2>1. Has(E, a \o b) \/ Has(E, c)
    BY <1>4, <1>6, HasConcat
  <2> QED
    BY <1>4, <2>1, HasConcat
<1> QED
  BY <1>2, <1>3, <1>5, <1>6

\* One channel.
LEMMA ChannelWanted ==
    ASSUME NEW c \in ChannelIndex
    PROVE  /\ Channel_Get(c) \in Seq(ChannelAccess)
           /\ \A w \in Provided(c) : Has(ConfiguresAs(w), Channel_Get(c))
           /\ c = Right => \A w \in Shared : Has(ConfiguresAs(w), Channel_Get(c))
           /\ Has(OfKind("source", wdTimer[c]), Channel_Get(c))
<1> DEFINE m == LaserModulatorIfc_Get(c)
           f == FakeWD_Initialize(c)
           i == LaserInput_Get(c)
           b == SetCallbacks(c)
<1>1. /\ m \in Seq(ChannelAccess)
      /\ c = Right => \A w \in Shared : Has(ConfiguresAs(w), m)
  <2>1. CASE c = Right
    BY <2>1, ModulatorWanted DEF LaserModulatorIfc_Get, Shared
  <2>2. CASE c # Right
    <3>1. m = <<>>
      BY <2>2 DEF LaserModulatorIfc_Get
    <3> QED
      BY <2>2, <3>1
  <2> QED
    BY <2>1, <2>2
<1>2. f \in Seq(ChannelAccess) /\ i \in Seq(ChannelAccess)
  <2>1. FakeWD_Initialize(c) \in Seq(ChannelAccess)
    BY WatchdogWanted
  <2>2. LaserInput_Get(c) \in Seq(ChannelAccess)
    BY InputWanted
  <2> QED
    BY <2>1, <2>2
<1>3. b \in Seq(ChannelAccess)
  <2> DEFINE x == [do |-> "ready", object |-> wdTimer[c]]
             y == [do |-> "ready", object |-> inputInt[c]]
  <2>1. x \in ChannelAccess /\ y \in ChannelAccess
    BY DEF ChannelAccess, ChannelNames, wdTimer, inputInt
  <2>2. b = <<x>> \o <<y>>
    BY DEF SetCallbacks
  <2> HIDE DEF x, y
  <2>3. <<x>> \in Seq(ChannelAccess) /\ <<y>> \in Seq(ChannelAccess)
    BY <2>1
  <2> QED
    BY <2>2, <2>3, ConcatProperties
<1>4. Channel_Get(c) = m \o f \o i \o b
  BY DEF Channel_Get
<1> HIDE DEF m, f, i, b
<1>5. /\ m \in Seq(Access) /\ f \in Seq(Access) /\ i \in Seq(Access) /\ b \in Seq(Access)
      /\ m \o f \in Seq(Access) /\ m \o f \o i \in Seq(Access)
  <2>1. m \in Seq(Access) /\ f \in Seq(Access) /\ i \in Seq(Access) /\ b \in Seq(Access)
    BY <1>1, <1>2, <1>3, ChannelApart, SeqMonotonic
  <2> QED
    BY <2>1, ConcatProperties
<1>6. m \o f \o i \o b \in Seq(ChannelAccess)
  BY <1>1, <1>2, <1>3, ConcatProperties
<1>7. ASSUME NEW E, Has(E, m) \/ Has(E, f) \/ Has(E, i) PROVE Has(E, Channel_Get(c))
  <2>1. Has(E, m \o f) \/ Has(E, i)
    BY <1>5, <1>7, HasConcat
  <2>2. Has(E, m \o f \o i)
    BY <1>5, <2>1, HasConcat
  <2> QED
    BY <1>4, <1>5, <2>2, HasConcat
<1>8. ASSUME NEW w \in Provided(c) PROVE Has(ConfiguresAs(w), Channel_Get(c))
  BY <1>7, WatchdogWanted, InputWanted DEF Provided, f, i
<1>9. Has(OfKind("source", wdTimer[c]), Channel_Get(c))
  BY <1>7, WatchdogWanted DEF f
<1>10. c = Right => \A w \in Shared : Has(ConfiguresAs(w), Channel_Get(c))
  BY <1>1, <1>7
<1> QED
  BY <1>4, <1>6, <1>8, <1>9, <1>10

\* Both channels: all that is wanted and not already so after reset.
LEMMA AttachWanted ==
    /\ AttachChannels \in Seq(ChannelAccess)
    /\ \A w \in Wanted : w[2] # "on" => Has(ConfiguresAs(w), AttachChannels)
    /\ \A c \in ChannelIndex : Has(OfKind("source", wdTimer[c]), AttachChannels)
<1> DEFINE r == Channel_Get(Right)
           l == Channel_Get(Left)
<1>1. Right \in ChannelIndex /\ Left \in ChannelIndex /\ ChannelIndex = {Right, Left}
  BY DEF ChannelIndex
<1>2. r \in Seq(ChannelAccess) /\ l \in Seq(ChannelAccess)
  BY <1>1, ChannelWanted
<1>3. r \in Seq(Access) /\ l \in Seq(Access)
  BY <1>2, ChannelApart, SeqMonotonic
<1>4. ASSUME NEW E, Has(E, r) \/ Has(E, l) PROVE Has(E, AttachChannels)
  BY <1>3, <1>4, HasConcat DEF AttachChannels
<1>5. AttachChannels \in Seq(ChannelAccess)
  BY <1>2, ConcatProperties DEF AttachChannels
<1>6. ASSUME NEW w \in Wanted, w[2] # "on" PROVE w \in Shared \/ w \in Provided(Right) \/ w \in Provided(Left)
  <2>1. wdTimer[Right] = "T4" /\ wdTimer[Left] = "T5" /\ inputInt[Right] = "INT2" /\ inputInt[Left] = "INT3"
    BY DEF wdTimer, inputInt, ChannelIndex, Right, Left
  <2> QED
    BY <1>6, <2>1 DEF Wanted, Shared, Provided, WatchdogValues
<1>7. ASSUME NEW w \in Wanted, w[2] # "on" PROVE Has(ConfiguresAs(w), AttachChannels)
  <2>1. Has(ConfiguresAs(w), r) \/ Has(ConfiguresAs(w), l)
    BY <1>1, <1>6, <1>7, ChannelWanted
  <2> QED
    BY <1>4, <2>1
<1>8. ASSUME NEW c \in ChannelIndex PROVE Has(OfKind("source", wdTimer[c]), AttachChannels)
  BY <1>1, <1>4, ChannelWanted
<1> QED
  BY <1>5, <1>7, <1>8

-----------------------------------------------------------------------------
(* The services of the loop                                                *)

\* The pins an access leaves alone, and what it may do to those with a duty of their own
Touched(a) == a.clear \cup a.set \cup a.flip
HarmlessPort(a) ==
    /\ a.reg = "lat" => "LedStatus" \notin Touched(a)
    /\ a.reg = "lat" => \A pin \in Steady \cap Touched(a) : pin \notin a.flip /\ (pin \in a.set <=> pin \in LAT)
    /\ a.reg = "odc" => Touched(a) \cap ODC = {}
    /\ a.reg = "digital" => "BQ_PGood" \notin Touched(a)

\* What may be done in the loop without breaking a promise
Harmless ==
    {a \in Access : /\ a.do \in {"mask", "restore", "unlock", "lock", "readPort", "assert", "write", "port", "wait"}
                    /\ a.do = "write" => a.reg # "busDivisor"
                    /\ a.do = "port" => HarmlessPort(a)}

\* It opens nothing, attaches nothing and spoils nothing.
LEMMA HarmlessApart ==
    /\ Harmless \subseteq Access
    /\ Harmless \cap Opening = {} /\ Harmless \cap Attaching = {}
    /\ Harmless \cap WritesDivisor = {} /\ Harmless \cap Disturbs = {}
    /\ \A pin \in Steady : Harmless \cap SpoilsLatch(pin) = {}
    /\ \A pin \in ODC : Harmless \cap ClearsBit("odc", pin) = {}
    /\ Harmless \cap ClearsBit("digital", "BQ_PGood") = {}
    /\ \A w : Harmless \cap Touches(w) = {}
    /\ \A x : Harmless \cap OfKind("noSource", x) = {} /\ Harmless \cap OfKind("source", x) = {}
<1>1. Harmless \subseteq Access
  BY DEF Harmless
<1>2. Harmless \cap Opening = {} /\ Harmless \cap Attaching = {} /\ Harmless \cap WritesDivisor = {}
  BY DEF Harmless, Opening, Attaching, WritesDivisor
<1>3. Harmless \cap Disturbs = {}
  BY DEF Harmless, HarmlessPort, Touched, Disturbs, PortWrites, OfKind
<1>4. ASSUME NEW pin \in Steady PROVE Harmless \cap SpoilsLatch(pin) = {}
  BY DEF Harmless, HarmlessPort, Touched, SpoilsLatch, SettlesLatch, PortWrites
<1>5. ASSUME NEW pin \in ODC PROVE Harmless \cap ClearsBit("odc", pin) = {}
  BY DEF Harmless, HarmlessPort, Touched, ClearsBit, PortWrites
<1>6. Harmless \cap ClearsBit("digital", "BQ_PGood") = {}
  BY DEF Harmless, HarmlessPort, Touched, ClearsBit, PortWrites
<1>7. ASSUME NEW w PROVE Harmless \cap Touches(w) = {}
  BY DEF Harmless, Touches
<1>8. ASSUME NEW x PROVE Harmless \cap OfKind("noSource", x) = {} /\ Harmless \cap OfKind("source", x) = {}
  BY DEF Harmless, OfKind
<1> QED
  BY <1>1, <1>2, <1>3, <1>4, <1>5, <1>6, <1>7, <1>8

\* A program of the loop: harmless, and back where it began.
InLoop(s) == s \in Seq(Harmless) /\ Runs(s, "loop", "loop")

\* One such program after another is such a program.
LEMMA InLoopConcat == ASSUME NEW s, NEW t, InLoop(s), InLoop(t) PROVE InLoop(s \o t)
<1>1. s \in Seq(Harmless) /\ t \in Seq(Harmless) /\ s \o t \in Seq(Harmless)
  BY ConcatProperties DEF InLoop
<1>2. s \in Seq(Access) /\ t \in Seq(Access)
  BY <1>1, HarmlessApart, SeqMonotonic
<1>3. "loop" \in Phases
  BY DEF Phases
<1> QED
  BY <1>1, <1>2, <1>3, RunsConcat DEF InLoop

\* Accesses to the pins of the applications, and to the ports' change notice enables.
OfApplications(m) == m \in SUBSET (Own \cup {"LedHeartbeat"} \cup PortIds)

\* Writing such pins is such a program.
LEMMA InLoopBits ==
    ASSUME NEW r \in PortRegisters, NEW c, NEW s, NEW f, OfApplications(c), OfApplications(s), OfApplications(f)
    PROVE  InLoop(Bits(r, c, s, f))
<1> DEFINE a == [do |-> "port", reg |-> r, clear |-> c, set |-> s, flip |-> f]
<1>1. c \in SUBSET PortBits /\ s \in SUBSET PortBits /\ f \in SUBSET PortBits
  BY PinSets DEF OfApplications, Own, PortBits
<1>2. a \in PortAccesses
  BY <1>1, BitsSeq
<1>3. a.do = "port" /\ a.reg = r /\ Touched(a) = c \cup s \cup f
  BY DEF Touched
<1>4. \A pin \in Steady \cup ODC \cup {"LedStatus", "BQ_PGood"} : pin \notin c \cup s \cup f
  BY DEF OfApplications, Own, PortIds, Steady, ODC
<1> HIDE DEF a
<1>5. HarmlessPort(a)
  BY <1>3, <1>4 DEF HarmlessPort
<1>6. a \in Harmless /\ a \in Elsewhere
  BY <1>2, <1>3, <1>5, PortIsAccess DEF Harmless, Elsewhere
<1>7. Runs(<<a>>, "loop", "loop")
  <2>1. "loop" \in Phases
    BY DEF Phases
  <2>2. <<a>> \in Seq(Elsewhere)
    BY <1>6
  <2> QED
    BY <2>1, <2>2, RunsElsewhere
<1> QED
  BY <1>6, <1>7 DEF InLoop, Bits, a

\* SYS_PORTS_Write leaves the pins that are not the caller's as their latches are.
LEMMA InLoopWrite ==
    ASSUME NEW m, m \subseteq On("C"), \A pin \in Steady : pin \in On("C") => (pin \in m <=> pin \in LAT)
    PROVE  InLoop(SYS_PORTS_Write("C", m))
<1> DEFINE a == [do |-> "port", reg |-> "lat", clear |-> On("C"), set |-> m, flip |-> {}]
<1>1. On("C") \in SUBSET PortBits /\ m \in SUBSET PortBits /\ {} \in SUBSET PortBits
  BY PinSets DEF PortIds
<1>2. a \in PortAccesses
  BY <1>1, BitsSeq DEF PortRegisters
<1>3. a.do = "port" /\ a.reg = "lat" /\ Touched(a) = On("C") /\ a.set = m /\ a.flip = {}
  BY DEF Touched
<1>4. "LedStatus" \notin On("C")
  BY DEF On, PortOf
<1> HIDE DEF a
<1>5. HarmlessPort(a)
  BY <1>3, <1>4 DEF HarmlessPort
<1>6. a \in Harmless /\ a \in Elsewhere
  BY <1>2, <1>3, <1>5, PortIsAccess DEF Harmless, Elsewhere
<1>7. Runs(<<a>>, "loop", "loop")
  <2>1. "loop" \in Phases
    BY DEF Phases
  <2>2. <<a>> \in Seq(Elsewhere)
    BY <1>6
  <2> QED
    BY <2>1, <2>2, RunsElsewhere
<1> QED
  BY <1>6, <1>7 DEF InLoop, SYS_PORTS_Write, Bits, a

\* Single accesses that are neither port accesses nor register writes.
LEMMA InLoopDo ==
    /\ InLoop(Do("readPort")) /\ InLoop(Do("assert")) /\ InLoop(Do("unlock")) /\ InLoop(<<>>)
    /\ \A m \in {"idle", "sleep"} : InLoop(<<[do |-> "wait", mode |-> m]>>)
<1>1. "loop" \in Phases /\ Enabled("loop")
  BY DEF Phases, Enabled
<1>2. ASSUME NEW d \in {"readPort", "assert", "unlock"} PROVE InLoop(Do(d))
  <2>1. [do |-> d] \in Harmless
    BY DEF Harmless, Access, Simple
  <2>2. Leads("loop", [do |-> d], "loop")
    BY <1>1 DEF Leads
  <2> QED
    BY <1>1, <2>1, <2>2, RunsOne DEF InLoop, Do
<1>3. InLoop(<<>>)
  BY <1>1, RunsEmpty DEF InLoop
<1>4. ASSUME NEW m \in {"idle", "sleep"} PROVE InLoop(<<[do |-> "wait", mode |-> m]>>)
  <2>1. [do |-> "wait", mode |-> m] \in Harmless
    BY DEF Harmless, Access, Waits
  <2>2. Leads("loop", [do |-> "wait", mode |-> m], "loop")
    BY <1>1 DEF Leads
  <2> QED
    BY <1>1, <2>1, <2>2, RunsOne DEF InLoop
<1> QED
  BY <1>2, <1>3, <1>4

\* Writes to registers that take them at any time, and to those that need the key.
LEMMA InLoopReg ==
    ASSUME NEW r \in Registers \ NumberRegisters, NEW v \in Words, r \notin MaskedRegisters
    PROVE  /\ WriteReg(r, v) \in Seq(Harmless)
           /\ r \notin KeyRegisters \/ r \in RemapRegisters => InLoop(WriteReg(r, v))
           /\ InLoop(SYS_DEVCON_SystemUnlock \o WriteReg(r, v) \o SYS_DEVCON_SystemLock)
<1> DEFINE u == SYS_DEVCON_SystemUnlock
           w == WriteReg(r, v)
           l == SYS_DEVCON_SystemLock
<1>1. w \in Seq(Harmless)
  <2>1. [do |-> "write", reg |-> r, value |-> v] \in Writes
    BY DEF Writes
  <2>2. r # "busDivisor"
    BY DEF NumberRegisters
  <2>3. [do |-> "write", reg |-> r, value |-> v] \in Harmless
    BY <2>1, <2>2 DEF Harmless, Access
  <2> QED
    BY <2>3 DEF WriteReg
<1>2. "loop" \in Phases /\ "loopKey" \in Phases /\ Key("loopKey")
  BY DEF Phases, Key
<1>3. r \notin KeyRegisters \/ r \in RemapRegisters => InLoop(w)
  BY <1>1, <1>2, RunsWrite DEF InLoop
<1>4. u \in Seq(Harmless) /\ l \in Seq(Harmless)
  <2>1. \A d \in {"mask", "unlock", "lock", "restore"} : Do(d) \in Seq(Harmless)
    <3>1. \A d \in {"mask", "unlock", "lock", "restore"} : [do |-> d] \in Harmless
      BY DEF Harmless, Access, Simple
    <3> QED
      BY <3>1 DEF Do
  <2> HIDE DEF Do
  <2>2. \A s, t \in Seq(Harmless) : s \o t \in Seq(Harmless)
    BY ConcatProperties
  <2> QED
    BY <2>1, <2>2 DEF SYS_DEVCON_SystemUnlock, SYS_DEVCON_SystemLock
<1>5. Runs(w, "loopKey", "loopKey")
  BY <1>2, RunsWrite
<1>6. Runs(u, "loop", "loopKey") /\ Runs(l, "loopKey", "loop")
  BY RunsUnlockLock
<1> HIDE DEF u, w, l
<1>7. u \o w \in Seq(Harmless) /\ u \o w \o l \in Seq(Harmless)
  BY <1>1, <1>4, ConcatProperties
<1>8. u \in Seq(Access) /\ w \in Seq(Access) /\ l \in Seq(Access) /\ u \o w \in Seq(Access)
  BY <1>1, <1>4, <1>7, HarmlessApart, SeqMonotonic
<1>9. Runs(u \o w, "loop", "loopKey")
  BY <1>2, <1>5, <1>6, <1>8, RunsConcat
<1>10. Runs(u \o w \o l, "loop", "loop")
  BY <1>2, <1>6, <1>8, <1>9, RunsConcat
<1> QED
  BY <1>1, <1>3, <1>7, <1>10 DEF InLoop, u, w, l

\* The services of DeviceControl.
DevconCalls ==
    {SYS_DEVCON_Reinitialize, SYS_DEVCON_Deinitialize, SYS_DEVCON_JTAGEnable,
     SYS_DEVCON_JTAGDisable, SYS_DEVCON_TraceEnable, SYS_DEVCON_TraceDisable,
     SYS_DEVCON_PerformanceConfig(SYS_CLK_SystemFrequencyGet),
     SYS_CLK_SecondaryOscillatorEnable(reg["secondary"]),
     SYS_CLK_SecondaryOscillatorDisable(reg["secondary"])}
    \cup {SYS_DEVCON_PowerModeEnter(m) : m \in {"idle", "sleep"}}

\* The services of device control and clock are such programs.
LEMMA DevconInLoop == \A call \in DevconCalls : InLoop(call)
<1>1. /\ {"on", "off", "ready", "uninitialized", "idle", "sleep"} \subseteq Words
      /\ {"devcon", "jtag", "trace", "secondary", "onWait"} \subseteq Registers \ NumberRegisters
      /\ \A r \in {"devcon", "jtag", "trace", "secondary", "onWait"} : r \notin MaskedRegisters
      /\ \A r \in {"devcon", "jtag", "trace"} : r \notin KeyRegisters
  BY DEF Words, Registers, NumberRegisters, KeyRegisters, MaskedRegisters, RemapRegisters, OpenRegisters
<1>2. /\ InLoop(SYS_DEVCON_Reinitialize) /\ InLoop(SYS_DEVCON_Deinitialize) /\ InLoop(SYS_DEVCON_JTAGEnable)
      /\ InLoop(SYS_DEVCON_JTAGDisable) /\ InLoop(SYS_DEVCON_TraceEnable) /\ InLoop(SYS_DEVCON_TraceDisable)
  BY <1>1, InLoopReg
     DEF SYS_DEVCON_Reinitialize, SYS_DEVCON_Deinitialize, SYS_DEVCON_JTAGEnable, SYS_DEVCON_JTAGDisable,
         SYS_DEVCON_TraceEnable, SYS_DEVCON_TraceDisable
<1>3. InLoop(SYS_DEVCON_PerformanceConfig(SYS_CLK_SystemFrequencyGet))
  <2> DEFINE m == Do("mask")
             r == Do("restore")
             w1 == WriteReg("waitStates", WaitStates(SYS_CLK_SystemFrequencyGet))
             w2 == WriteReg("prefetch", "on")
  <2>1. m \in Seq(Harmless) /\ r \in Seq(Harmless)
    BY DEF Do, Harmless, Access, Simple
  <2>2. w1 \in Seq(Harmless)
    <3> DEFINE n == WaitStates(SYS_CLK_SystemFrequencyGet)
    <3>1. n \in Int
      BY DEF WaitStates
    <3> HIDE DEF n
    <3>2. [do |-> "write", reg |-> "waitStates", value |-> n] \in Writes
      BY <3>1 DEF Writes, NumberRegisters
    <3>3. [do |-> "write", reg |-> "waitStates", value |-> n] \in Harmless
      BY <3>2 DEF Harmless, Access
    <3> QED
      BY <3>3 DEF WriteReg, n
  <2>3. w2 \in Seq(Harmless)
    <3>1. "prefetch" \in Registers \ NumberRegisters /\ "on" \in Words
      BY DEF Words, Registers, NumberRegisters, MaskedRegisters
    <3>2. [do |-> "write", reg |-> "prefetch", value |-> "on"] \in Writes
      BY <3>1 DEF Writes
    <3>3. [do |-> "write", reg |-> "prefetch", value |-> "on"] \in Harmless
      BY <3>2 DEF Harmless, Access
    <3> QED
      BY <3>3 DEF WriteReg
  <2> HIDE DEF m, r, w1, w2
  <2>4. m \o w1 \o r \o m \o w2 \o r \in Seq(Harmless)
    BY <2>1, <2>2, <2>3, ConcatProperties
  <2>5. SYS_DEVCON_PerformanceConfig(SYS_CLK_SystemFrequencyGet) \in Seq(Harmless)
    BY <2>4 DEF SYS_DEVCON_PerformanceConfig, m, r, w1, w2
  <2> QED
    BY <2>5, PerformanceRuns DEF InLoop
<1>4. \A x : InLoop(SYS_CLK_SecondaryOscillatorEnable(x)) /\ InLoop(SYS_CLK_SecondaryOscillatorDisable(x))
  <2>1. /\ InLoop(SYS_DEVCON_SystemUnlock \o WriteReg("secondary", "on") \o SYS_DEVCON_SystemLock)
        /\ InLoop(SYS_DEVCON_SystemUnlock \o WriteReg("secondary", "off") \o SYS_DEVCON_SystemLock)
    BY <1>1, InLoopReg
  <2> QED
    BY <2>1, InLoopDo DEF SYS_CLK_SecondaryOscillatorEnable, SYS_CLK_SecondaryOscillatorDisable
<1>5. ASSUME NEW m \in {"idle", "sleep"} PROVE InLoop(SYS_DEVCON_PowerModeEnter(m))
  <2>1. m \in Words /\ "onWait" \in Registers \ NumberRegisters /\ "onWait" \notin MaskedRegisters
    BY <1>1
  <2>2. InLoop(SYS_DEVCON_SystemUnlock \o WriteReg("onWait", m) \o SYS_DEVCON_SystemLock)
    BY <2>1, InLoopReg
  <2> QED
    BY <2>2, InLoopDo, InLoopConcat DEF SYS_DEVCON_PowerModeEnter, OnWait
<1> QED
  BY <1>2, <1>3, <1>4, <1>5 DEF DevconCalls

\* The services of Ports on the applications' pins, and those of the change notice.
PortsCalls ==
    LET p == CHOOSE q \in Own : TRUE
    IN {SYS_PORTS_Read, SYS_PORTS_PinRead, SYS_PORTS_Toggle(Own), SYS_PORTS_Clear(Own),
        SYS_PORTS_Set(Own, Own), SYS_PORTS_OpenDrainEnable(Own), SYS_PORTS_OpenDrainDisable(Own),
        SYS_PORTS_ChangeNotificationGlobalEnable, SYS_PORTS_ChangeNotificationGlobalDisable,
        SYS_PORTS_GlobalChangeNotificationDisable, SYS_PORTS_ChangeNotificationDisable(p),
        SYS_PORTS_ChangeNotificationInIdleModeEnable,
        SYS_PORTS_ChangeNotificationInIdleModeDisable,
        SYS_PORTS_ChangeNotificationPullUpEnable(p), SYS_PORTS_ChangeNotificationPullUpDisable(p),
        SYS_PORTS_PinToggle(p), SYS_PORTS_PinSet(p), SYS_PORTS_PinClear(p),
        SYS_PORTS_PinOpenDrainEnable(p), SYS_PORTS_PinOpenDrainDisable(p), Unsupported,
        SYS_PORTS_RemapInput, SYS_PORTS_RemapOutput}
       \cup {SYS_PORTS_DirectionSelect(d, Own) : d \in {"input", "output"}}
       \cup {SYS_PORTS_PinDirectionSelect(d, p) : d \in {"input", "output"}}
       \cup {SYS_PORTS_ChangeNotificationEnable(p, v) : v \in {"enable", "disable"}}
       \cup {SYS_PORTS_PinModeSelect(p, m) : m \in {"analog", "digital"}}
       \cup {SYS_PORTS_PinWrite(p, v) : v \in BOOLEAN}

\* So are the services of the ports.
LEMMA PortsInLoop == \A call \in PortsCalls : InLoop(call)
<1> DEFINE p == CHOOSE q \in Own : TRUE
<1>1. p \in Own
  BY DEF Own
<1> HIDE DEF p
<1>2. OfApplications({}) /\ OfApplications(Own) /\ OfApplications({p}) /\ OfApplications(PortIds)
      /\ OfApplications(Own \cap Own)
  BY <1>1 DEF OfApplications
<1>3. ASSUME NEW r \in PortRegisters, NEW m \in {Own, {p}, PortIds, Own \cap Own}
      PROVE  InLoop(SetBits(r, m)) /\ InLoop(ClearBits(r, m)) /\ InLoop(FlipBits(r, m))
  BY <1>2, InLoopBits DEF SetBits, ClearBits, FlipBits
<1>4. {"lat", "output", "odc", "digital", "cnen", "cnOn", "cnIdle", "pullUp"} = PortRegisters
  BY DEF PortRegisters
<1>5. /\ InLoop(SYS_PORTS_Toggle(Own)) /\ InLoop(SYS_PORTS_Clear(Own)) /\ InLoop(SYS_PORTS_Set(Own, Own))
      /\ InLoop(SYS_PORTS_OpenDrainEnable(Own)) /\ InLoop(SYS_PORTS_OpenDrainDisable(Own))
      /\ \A d : InLoop(SYS_PORTS_DirectionSelect(d, Own))
  BY <1>3, <1>4
     DEF SYS_PORTS_Toggle, SYS_PORTS_Clear, SYS_PORTS_Set, SYS_PORTS_OpenDrainEnable,
         SYS_PORTS_OpenDrainDisable, SYS_PORTS_DirectionSelect
<1>6. /\ InLoop(SYS_PORTS_ChangeNotificationGlobalEnable) /\ InLoop(SYS_PORTS_ChangeNotificationGlobalDisable)
      /\ InLoop(SYS_PORTS_GlobalChangeNotificationDisable)
      /\ InLoop(SYS_PORTS_ChangeNotificationInIdleModeEnable)
      /\ InLoop(SYS_PORTS_ChangeNotificationInIdleModeDisable)
  BY <1>3, <1>4
     DEF SYS_PORTS_ChangeNotificationGlobalEnable, SYS_PORTS_ChangeNotificationGlobalDisable,
         SYS_PORTS_GlobalChangeNotificationDisable, SYS_PORTS_ChangeNotificationInIdleModeEnable,
         SYS_PORTS_ChangeNotificationInIdleModeDisable
<1>7. /\ InLoop(SYS_PORTS_ChangeNotificationDisable(p)) /\ InLoop(SYS_PORTS_ChangeNotificationPullUpEnable(p))
      /\ InLoop(SYS_PORTS_ChangeNotificationPullUpDisable(p))
      /\ \A v : InLoop(SYS_PORTS_ChangeNotificationEnable(p, v))
  <2>1. InLoop(ClearBits("cnen", {p})) /\ InLoop(SetBits("cnen", {p}))
        /\ InLoop(SetBits("pullUp", {p})) /\ InLoop(ClearBits("pullUp", {p}))
    BY <1>3, <1>4
  <2> QED
    BY <2>1, InLoopConcat
       DEF SYS_PORTS_ChangeNotificationDisable, SYS_PORTS_ChangeNotificationPullUpEnable,
           SYS_PORTS_ChangeNotificationPullUpDisable, SYS_PORTS_ChangeNotificationEnable
<1>8. /\ InLoop(SYS_PORTS_PinToggle(p)) /\ InLoop(SYS_PORTS_PinSet(p)) /\ InLoop(SYS_PORTS_PinClear(p))
      /\ InLoop(SYS_PORTS_PinOpenDrainEnable(p)) /\ InLoop(SYS_PORTS_PinOpenDrainDisable(p))
      /\ \A d : InLoop(SYS_PORTS_PinDirectionSelect(d, p))
      /\ \A m : InLoop(SYS_PORTS_PinModeSelect(p, m))
      /\ \A v \in BOOLEAN : InLoop(SYS_PORTS_PinWrite(p, v))
  BY <1>3, <1>4
     DEF SYS_PORTS_PinToggle, SYS_PORTS_PinSet, SYS_PORTS_PinClear, SYS_PORTS_PinOpenDrainEnable,
         SYS_PORTS_PinOpenDrainDisable, SYS_PORTS_PinDirectionSelect, SYS_PORTS_PinModeSelect,
         SYS_PORTS_PinWrite
<1>9. InLoop(SYS_PORTS_Read) /\ InLoop(SYS_PORTS_PinRead) /\ InLoop(Unsupported)
  BY InLoopDo DEF SYS_PORTS_Read, SYS_PORTS_PinRead, Unsupported
<1>10. InLoop(SYS_PORTS_RemapInput) /\ InLoop(SYS_PORTS_RemapOutput)
  <2>1. /\ RemapRegisters \subseteq Registers \ NumberRegisters
        /\ RemapRegisters \cap MaskedRegisters = {}
        /\ {"off", "remapped"} \subseteq Words
    BY DEF Words, Registers, NumberRegisters, KeyRegisters, MaskedRegisters, RemapRegisters
  <2>2. \A r \in RemapRegisters, v \in {"off", "remapped"} : InLoop(WriteReg(r, v))
    BY <2>1, InLoopReg
  <2>3. /\ InLoop(WriteReg("remapLock", "off"))
        /\ InLoop(WriteReg("remapInput", "remapped")) /\ InLoop(WriteReg("remapOutput", "remapped"))
    BY <2>2 DEF RemapRegisters
  <2>4. InLoop(RemapUnlock)
    BY <2>3, InLoopDo, InLoopConcat DEF RemapUnlock
  <2> QED
    BY <2>3, <2>4, InLoopConcat DEF SYS_PORTS_RemapInput, SYS_PORTS_RemapOutput
<1> QED
  BY <1>5, <1>6, <1>7, <1>8, <1>9, <1>10 DEF PortsCalls, p

\* The heartbeat, and every call an application may make.
LEMMA ServicesInLoop ==
    ASSUME \A pin \in Steady : pin \in port.lat <=> pin \in LAT
    PROVE  /\ InLoop(LedHeartbeatToggle)
           /\ \A call \in ServiceCalls : InLoop(call \o LedHeartbeatToggle)
<1>1. InLoop(LedHeartbeatToggle)
  <2>1. OfApplications({}) /\ OfApplications({"LedHeartbeat"}) /\ "lat" \in PortRegisters
    BY DEF OfApplications, PortRegisters
  <2> QED
    BY <2>1, InLoopBits DEF LedHeartbeatToggle, FlipBits
<1>2. ASSUME NEW own \in SUBSET Own
      PROVE  InLoop(SYS_PORTS_Write("C", ((port.lat \cap On("C")) \ Own) \cup own))
  <2> DEFINE m == ((port.lat \cap On("C")) \ Own) \cup own
  <2>1. m \subseteq On("C")
    <3>1. "StatusRight" \in On("C")
      BY PinSets DEF On, PortOf
    <3> QED
      BY <3>1 DEF Own
  <2>2. \A pin \in Steady : pin \in On("C") => (pin \in m <=> pin \in LAT)
    BY DEF Steady, Own
  <2> HIDE DEF m
  <2>3. InLoop(SYS_PORTS_Write("C", m))
    BY <2>1, <2>2, InLoopWrite
  <2> QED
    BY <2>3 DEF m
<1>3. ServiceCalls =
        DevconCalls \cup PortsCalls
          \cup {SYS_PORTS_Write("C", ((port.lat \cap On("C")) \ Own) \cup own) : own \in SUBSET Own}
  BY DEF ServiceCalls, DevconCalls, PortsCalls
<1>4. ASSUME NEW call \in ServiceCalls PROVE InLoop(call)
  BY <1>2, <1>3, DevconInLoop, PortsInLoop
<1> QED
  BY <1>1, <1>4, InLoopConcat

\* The first pass of the loop.
FirstPass == AttachChannels \o Initialized("channels") \o LedHeartbeatToggle

\* It attaches the channels when everything wanted of them is configured, and ends where it began.
LEMMA FirstPassSeq ==
    ASSUME \A pin \in Steady : pin \in port.lat <=> pin \in LAT
    PROVE  /\ FirstPass \in Seq(ChannelAccess \cup Attaching \cup Harmless) /\ FirstPass \in Seq(Access)
           /\ Runs(FirstPass, "loop", "loop")
           /\ \A w \in Wanted : w[2] # "on" => Ordered(ConfiguresAs(w), Attaching, FirstPass)
           /\ \A c \in ChannelIndex : Ordered(OfKind("source", wdTimer[c]), Attaching, FirstPass)
<1> DEFINE a == AttachChannels
           r == Initialized("channels")
           h == LedHeartbeatToggle
           T == ChannelAccess \cup Attaching \cup Harmless
<1>1. a \in Seq(ChannelAccess) /\ InLoop(h) /\ h \in Seq(Harmless)
  BY AttachWanted, ServicesInLoop DEF InLoop
<1>2. [do |-> "ready", object |-> "channels"] \in Attaching /\ [do |-> "ready", object |-> "channels"] \in Elsewhere
  BY DEF Attaching, Access, Readies, ObjectNames, Elsewhere
<1>3. r \in Seq(Attaching) /\ r \in Seq(Elsewhere)
  BY <1>2 DEF Initialized
<1>4. a \in Seq(T) /\ r \in Seq(T) /\ h \in Seq(T)
  <2>1. ChannelAccess \subseteq T /\ Attaching \subseteq T /\ Harmless \subseteq T
    OBVIOUS
  <2> QED
    BY <1>1, <1>3, <2>1, SeqMonotonic
<1>5. T \subseteq Access
  BY ChannelApart, HarmlessApart DEF Attaching
<1>6. FirstPass = a \o r \o h
  BY DEF FirstPass
<1> HIDE DEF a, r, h, T
<1>7. FirstPass \in Seq(T)
  BY <1>4, <1>6, ConcatProperties
<1>8. a \in Seq(Access) /\ r \in Seq(Access) /\ h \in Seq(Access) /\ a \o r \in Seq(Access)
      /\ FirstPass \in Seq(Access)
  <2>1. a \in Seq(Access) /\ r \in Seq(Access) /\ h \in Seq(Access) /\ FirstPass \in Seq(Access)
    BY <1>4, <1>5, <1>7, SeqMonotonic
  <2> QED
    BY <2>1, ConcatProperties
<1>9. Runs(FirstPass, "loop", "loop")
  <2>1. "loop" \in Phases
    BY DEF Phases
  <2>2. a \in Seq(Elsewhere)
    BY <1>1, ChannelApart, SeqMonotonic
  <2>3. Runs(a, "loop", "loop") /\ Runs(r, "loop", "loop") /\ Runs(h, "loop", "loop")
    BY <1>1, <1>3, <2>1, <2>2, RunsElsewhere DEF InLoop
  <2>4. Runs(a \o r, "loop", "loop")
    BY <1>8, <2>1, <2>3, RunsConcat
  <2> QED
    BY <1>6, <1>8, <2>1, <2>3, <2>4, RunsConcat
<1>10. ASSUME NEW E, Has(E, a) PROVE Ordered(E, Attaching, FirstPass)
  <2>1. Ordered(E, Attaching, a)
    BY <1>1, ChannelApart, Apart
  <2>2. Ordered(E, Attaching, a \o r) /\ Has(E, a \o r)
    BY <1>8, <1>10, <2>1, OrderedConcat, HasConcat
  <2> QED
    BY <1>6, <1>8, <2>2, OrderedConcat
<1>11. ASSUME NEW w \in Wanted, w[2] # "on" PROVE Ordered(ConfiguresAs(w), Attaching, FirstPass)
  BY <1>10, <1>11, AttachWanted DEF a
<1>12. ASSUME NEW c \in ChannelIndex PROVE Ordered(OfKind("source", wdTimer[c]), Attaching, FirstPass)
  BY <1>10, AttachWanted DEF a
<1> QED
  BY <1>7, <1>8, <1>9, <1>11, <1>12 DEF T

-----------------------------------------------------------------------------
(* What a step changes                                                     *)

\* The next access of the main program is made
Made(a) ==
    /\ isr.source = "none" /\ todo # <<>> /\ a = Head(todo) /\ a.do # "stopped" /\ todo' = Tail(todo)
    /\ IF a.do = "mask" THEN saved' = ie /\ ie' = FALSE
       ELSE /\ saved' = saved
            /\ ie' = ((a.do = "restore" /\ (ie \/ saved)) \/ a.do = "enable" \/ (a.do # "restore" /\ ie))
    /\ IF a.do = "unlock" THEN unlocked' \in (IF ie THEN {unlocked, TRUE} ELSE {TRUE})
       ELSE unlocked' = (a.do # "lock" /\ unlocked)
    /\ IF a.do = "write"
       THEN /\ asked' = [asked EXCEPT ![a.reg] = a.value]
            /\ reg' = IF Lands(a.reg) THEN [reg EXCEPT ![a.reg] = a.value] ELSE reg
       ELSE UNCHANGED <<reg, asked>>
    /\ IF a.do = "port"
       THEN port' = [port EXCEPT ![a.reg] =
                        (((@ \ a.clear) \cup a.set) \ a.flip) \cup (a.flip \ ((@ \ a.clear) \cup a.set))]
       ELSE port' = port
    /\ IF a.do = "configure" THEN config' = [config EXCEPT ![a.part][a.field] = a.value] ELSE config' = config
    /\ ready' = IF a.do = "ready" THEN ready \cup {a.object} ELSE ready
    /\ sources' = IF a.do = "source" THEN sources \cup {a.source}
                  ELSE IF a.do = "noSource" THEN sources \ {a.source} ELSE sources
    /\ flags' = IF a.do = "clearFlag" THEN flags \ {a.source} ELSE flags
    /\ lastRead' = IF a.do = "readPort" THEN pgood ELSE lastRead
    /\ opened' = (a.do = "enable" \/ opened)
    /\ UNCHANGED <<pgood, unseen, isrVars>>

\* The assertion stops the program
Stops == /\ todo # <<>> /\ todo' = Do("stopped")
         /\ UNCHANGED <<ready, cpuVars, reg, port, config, flags, sources, pinVars, isrVars, asked, historyVars>>

\* An interrupt routine or a device steps
Aside == UNCHANGED <<todo, ready, cpuVars, reg, asked, config, sources, opened>>

\* Every step is one of these, or a new pass of the loop.
LEMMA Steps ==
    ASSUME SuTypeOK, [SuNext]_suVars
    PROVE  \/ \E a \in Access : Made(a)
           \/ Stops \/ SYS_Tasks
           \/ Aside /\ (Isr \/ PGoodChange \/ (\E s \in Drivers : Raise(s)) \/ UNCHANGED suVars)
<1>1. todo \in Seq(Access) /\ (todo # <<>> => Head(todo) \in Access) /\ {ie, unlocked, saved, opened} \subseteq BOOLEAN
  BY DEF SuTypeOK
<1> DEFINE a == Head(todo)
<1>2. CASE Mask
  BY <1>1, <1>2 DEF Mask, Next1, Made, cpuVars, isrVars, pinVars, historyVars
<1>3. CASE Restore
  BY <1>1, <1>3 DEF Restore, Next1, Made, cpuVars, isrVars, pinVars, historyVars
<1>4. CASE Unlock
  BY <1>1, <1>4 DEF Unlock, Next1, Made, cpuVars, isrVars, pinVars, historyVars
<1>5. CASE Lock
  BY <1>1, <1>5 DEF Lock, Next1, Made, cpuVars, isrVars, pinVars, historyVars
<1>6. CASE Write
  BY <1>1, <1>6 DEF Write, Next1, Made, cpuVars, isrVars, pinVars, historyVars
<1>7. CASE PortAccess
  BY <1>1, <1>7 DEF PortAccess, Next1, Made, cpuVars, isrVars, pinVars, historyVars
<1>8. CASE ReadPort
  BY <1>1, <1>8 DEF ReadPort, Next1, Made, cpuVars, isrVars, pinVars, historyVars
<1>9. CASE ClearFlag
  BY <1>1, <1>9 DEF ClearFlag, Next1, Made, cpuVars, isrVars, pinVars, historyVars
<1>10. CASE SourceEnable
  BY <1>1, <1>10 DEF SourceEnable, Next1, Made, cpuVars, isrVars, pinVars, historyVars
<1>11. CASE SourceDisable
  BY <1>1, <1>11 DEF SourceDisable, Next1, Made, cpuVars, isrVars, pinVars, historyVars
<1>12. CASE Set
  BY <1>1, <1>12 DEF Set, Next1, Made, cpuVars, isrVars, pinVars, historyVars
<1>13. CASE Ready
  BY <1>1, <1>13 DEF Ready, Next1, Made, cpuVars, isrVars, pinVars, historyVars
<1>14. CASE IntEnable
  BY <1>1, <1>14 DEF IntEnable, Next1, Made, cpuVars, isrVars, pinVars, historyVars
<1>15. CASE Assert
  BY <1>1, <1>15 DEF Assert, Next1, Made, Stops, cpuVars, isrVars, pinVars, historyVars
<1>16. CASE Wait
  BY <1>1, <1>16 DEF Wait, Next1, Made, cpuVars, isrVars, pinVars, historyVars
<1>17. CASE Isr
  BY <1>17 DEF Isr, Enter, ChangeNotification, SetLed, Return, Aside, cpuVars, historyVars
<1>18. CASE PGoodChange
  BY <1>18 DEF PGoodChange, Aside, cpuVars, historyVars
<1>19. CASE \E s \in Drivers : Raise(s)
  BY <1>19 DEF Raise, Aside, cpuVars, historyVars
<1>20. CASE UNCHANGED suVars
  BY <1>20 DEF suVars, Aside, cpuVars, historyVars
<1> QED
  BY <1>2, <1>3, <1>4, <1>5, <1>6, <1>7, <1>8, <1>9, <1>10, <1>11, <1>12, <1>13, <1>14, <1>15, <1>16, <1>17, <1>18, <1>19, <1>20 DEF SuNext, Main

\* The kinds of accesses.
LEMMA AccessKinds ==
    \A a \in Access :
       /\ a.do = "port" => a \in PortAccesses
       /\ a.do = "configure" => a \in Configures
       /\ a.do = "write" => a.reg \in Registers
BY DEF Access, Simple, Writes, PortAccesses, OfSource, Readies, Configures, Waits, NumberRegisters, Registers,
       KeyRegisters, MaskedRegisters

\* A pass of the loop begins with interrupts enabled and all pins as configured.
LEMMA PassBegins ==
    ASSUME SuInv, SYS_Tasks
    PROVE  /\ opened /\ ie /\ \A pin \in Steady : pin \in port.lat <=> pin \in LAT
           /\ \/ "channels" \notin ready /\ todo' = FirstPass
              \/ "channels" \in ready /\ InLoop(todo')
<1>1. todo = <<>>
  BY DEF SYS_Tasks
<1>2. PICK p \in Phases : PhaseIs(p) /\ Runs(todo, p, "loop")
  BY DEF SuInv, InPhase
<1>3. p = "loop"
  <2>1. "loop" \in Phases
    BY DEF Phases
  <2> QED
    BY <1>1, <1>2, <2>1, RunsEmpty
<1>4. opened /\ ie
  BY <1>2, <1>3 DEF PhaseIs, Opened, Enabled, Phases
<1>5. \A pin \in Steady : pin \in port.lat <=> pin \in LAT
  BY <1>4 DEF SuInv, PinsInTime
<1>6. InLoop(LedHeartbeatToggle) /\ \A call \in ServiceCalls : InLoop(call \o LedHeartbeatToggle)
  BY <1>5, ServicesInLoop
<1>7. \/ "channels" \notin ready /\ todo' = FirstPass
      \/ "channels" \in ready /\ todo' = LedHeartbeatToggle
      \/ "channels" \in ready /\ \E call \in ServiceCalls : todo' = call \o LedHeartbeatToggle
  BY DEF SYS_Tasks, FirstPass
<1> QED
  BY <1>4, <1>5, <1>6, <1>7

\* What a pass is made of.
LEMMA PassSeq ==
    ASSUME SuInv, SYS_Tasks
    PROVE  /\ todo' \in Seq(Access) /\ Runs(todo', "loop", "loop")
           /\ \A B : B \cap ChannelAccess = {} /\ B \cap Attaching = {} /\ B \cap Harmless = {} => Free(B, todo')
           /\ \A E : Closed(Opening, E, todo')
<1> DEFINE T == ChannelAccess \cup Attaching \cup Harmless
<1>1. T \subseteq Access
  BY ChannelApart, HarmlessApart DEF Attaching
<1>2. todo' \in Seq(T) /\ Runs(todo', "loop", "loop")
  <2>1. Harmless \subseteq T
    OBVIOUS
  <2>2. CASE todo' = FirstPass
    <3>1. FirstPass \in Seq(T) /\ Runs(FirstPass, "loop", "loop")
      BY PassBegins, FirstPassSeq
    <3> QED
      BY <2>2, <3>1
  <2>3. CASE InLoop(todo')
    <3>1. todo' \in Seq(Harmless) /\ Runs(todo', "loop", "loop")
      BY <2>3 DEF InLoop
    <3> QED
      BY <2>1, <3>1, SeqMonotonic
  <2> QED
    BY <2>2, <2>3, PassBegins
<1>3. todo' \in Seq(Access)
  BY <1>1, <1>2, SeqMonotonic
<1>4. ASSUME NEW B, B \cap ChannelAccess = {}, B \cap Attaching = {}, B \cap Harmless = {}
      PROVE  Free(B, todo')
  <2>1. T \cap B = {}
    BY <1>4
  <2> QED
    BY <1>1, <1>2, <2>1, Apart
<1>5. ASSUME NEW E PROVE Closed(Opening, E, todo')
  <2>1. Opening \cap Attaching = {}
    BY DEF Opening, Attaching
  <2>2. T \cap Opening = {}
    BY <2>1, ChannelApart, HarmlessApart
  <2> QED
    BY <1>1, <1>2, <2>2, Apart
<1> QED
  BY <1>2, <1>3, <1>4, <1>5

\* A program that has stopped does nothing of interest.
LEMMA StoppedSeq ==
    /\ Do("stopped") \in Seq(Access) /\ \A p \in Phases : Runs(Do("stopped"), p, "loop")
    /\ \A B : (\A a \in B : a.do # "stopped") => Free(B, Do("stopped"))
    /\ \A E, N : (\A a \in N : a.do # "stopped") => Ordered(E, N, Do("stopped"))
    /\ \A E : Closed(Opening, E, Do("stopped"))
<1> DEFINE a == [do |-> "stopped"]
<1>1. a \in Access /\ a.do = "stopped"
  BY DEF Access, Simple
<1>2. \A p \in Phases : Leads(p, a, "loop")
  BY DEF Leads
<1> HIDE DEF a
<1>3. Do("stopped") = <<a>>
  BY DEF Do, a
<1>4. "loop" \in Phases
  BY DEF Phases
<1>5. \A p \in Phases : Runs(<<a>>, p, "loop")
  BY <1>2, <1>4, RunsOne
<1>6. ASSUME NEW B, \A b \in B : b.do # "stopped" PROVE Free(B, <<a>>)
  BY <1>1, <1>6 DEF Free
<1>7. ASSUME NEW E, NEW N, \A b \in N : b.do # "stopped" PROVE Ordered(E, N, <<a>>)
  BY <1>1, <1>7 DEF Ordered
<1>8. ASSUME NEW E PROVE Closed(Opening, E, <<a>>)
  BY <1>1 DEF Closed, Opening
<1>9. <<a>> \in Seq(Access)
  BY <1>1
<1> QED
  BY <1>3, <1>5, <1>6, <1>7, <1>8, <1>9, Zenon

\* What the program has yet to do stays an admissible sequence; registers keep their shape.
LEMMA TypeStep == SuInv /\ [SuNext]_suVars => SuTypeOK'
<1> SUFFICES ASSUME SuInv, [SuNext]_suVars PROVE SuTypeOK'
  OBVIOUS
<1>1. SuTypeOK
  BY DEF SuInv
<1>2. ASSUME NEW a \in Access, Made(a) PROVE SuTypeOK'
  <2>1. todo' \in Seq(Access)
    BY <1>1, <1>2 DEF SuTypeOK, Made
  <2>2. {ie', unlocked', saved', pgood', lastRead', seen', opened', served', unseen'} \subseteq BOOLEAN
    BY <1>1, <1>2 DEF SuTypeOK, Made, isrVars
  <2>3. DOMAIN reg' = Registers /\ DOMAIN asked' = Registers
    BY <1>1, <1>2 DEF SuTypeOK, Made
  <2>4. port' \in [PortRegisters -> SUBSET PortBits]
    <3>1. CASE a.do = "port"
      <4>1. a \in PortAccesses
        BY <3>1, AccessKinds
      <4>2. /\ a.reg \in PortRegisters /\ a.clear \in SUBSET PortBits /\ a.set \in SUBSET PortBits
            /\ a.flip \in SUBSET PortBits
        BY <4>1 DEF PortAccesses
      <4> DEFINE m == ((port[a.reg] \ a.clear) \cup a.set)
                 n == (m \ a.flip) \cup (a.flip \ m)
      <4>3. port' = [port EXCEPT ![a.reg] = n]
        BY <1>2, <3>1 DEF Made
      <4>4. port \in [PortRegisters -> SUBSET PortBits]
        BY <1>1 DEF SuTypeOK
      <4>5. n \in SUBSET PortBits
        BY <4>2, <4>4
      <4> HIDE DEF n
      <4> QED
        BY <4>3, <4>4, <4>5
    <3>2. CASE a.do # "port"
      BY <1>1, <1>2, <3>2 DEF SuTypeOK, Made
    <3> QED
      BY <3>1, <3>2
  <2>5. config' \in [Parts -> [Fields -> Int]]
    <3>1. CASE a.do = "configure"
      <4>1. a.part \in Parts /\ a.field \in Fields /\ a.value \in Int
        BY <3>1, AccessKinds DEF Configures
      <4>2. config' = [config EXCEPT ![a.part][a.field] = a.value]
        BY <1>2, <3>1 DEF Made
      <4>3. config \in [Parts -> [Fields -> Int]]
        BY <1>1 DEF SuTypeOK
      <4> QED
        BY <4>1, <4>2, <4>3
    <3>2. CASE a.do # "configure"
      BY <1>1, <1>2, <3>2 DEF SuTypeOK, Made
    <3> QED
      BY <3>1, <3>2
  <2> QED
    BY <1>1, <1>2, <2>1, <2>2, <2>3, <2>4, <2>5 DEF SuTypeOK, Made, isrVars
<1>3. CASE Stops
  BY <1>1, <1>3, StoppedSeq DEF SuTypeOK, Stops, cpuVars, isrVars, pinVars, historyVars
<1>4. CASE SYS_Tasks
  <2>1. todo' \in Seq(Access)
    BY <1>4, PassSeq
  <2> QED
    BY <1>1, <1>4, <2>1 DEF SuTypeOK, SYS_Tasks, cpuVars, isrVars, pinVars, historyVars
<1>5. ASSUME Aside, NEW s \in Drivers, Enter(s) PROVE SuTypeOK'
  BY <1>1, <1>5 DEF SuTypeOK, Aside, Enter, cpuVars, pinVars, Sources
<1>6. CASE Aside /\ ChangeNotification
  BY <1>1, <1>6 DEF SuTypeOK, Aside, ChangeNotification, cpuVars, pinVars, Sources
<1>7. CASE Aside /\ SetLed
  <2>1. port' \in [PortRegisters -> SUBSET PortBits]
    <3>1. "lat" \in PortRegisters /\ "LedStatus" \in PortBits
      BY PinSets DEF PortRegisters
    <3> QED
      BY <1>1, <1>7, <3>1 DEF SuTypeOK, SetLed
  <2> QED
    BY <1>1, <1>7, <2>1 DEF SuTypeOK, Aside, SetLed, cpuVars, pinVars, Sources
<1>8. CASE Aside /\ Return
  BY <1>1, <1>8 DEF SuTypeOK, Aside, Return, cpuVars, pinVars, Sources
<1>9. CASE Aside /\ PGoodChange
  BY <1>1, <1>9 DEF SuTypeOK, Aside, PGoodChange, cpuVars, isrVars
<1>10. ASSUME Aside, NEW s \in Drivers, Raise(s) PROVE SuTypeOK'
  BY <1>1, <1>10 DEF SuTypeOK, Aside, Raise, cpuVars, isrVars, pinVars
<1>11. CASE UNCHANGED suVars
  BY <1>1, <1>11 DEF SuTypeOK, suVars
<1> QED
  BY <1>1, <1>2, <1>3, <1>4, <1>5, <1>6, <1>7, <1>8, <1>9, <1>10, <1>11, Steps DEF Isr

\* What the phases after a mask, a restore, the key and its return tell.
LEMMA PhaseMaps ==
    ASSUME NEW p \in Phases
    PROVE  /\ ~Enabled(Masked[p]) /\ (Opened(Masked[p]) <=> Opened(p)) /\ (Key(Masked[p]) <=> Key(p))
           /\ (Enabled(Restored[p]) <=> Opened(p)) /\ (Opened(Restored[p]) <=> Opened(p)) /\ (Key(Restored[p]) <=> Key(p))
           /\ (Enabled(WithKey[p]) <=> Enabled(p)) /\ (Opened(WithKey[p]) <=> Opened(p))
           /\ (Enabled(WithoutKey[p]) <=> Enabled(p)) /\ (Opened(WithoutKey[p]) <=> Opened(p)) /\ ~Key(WithoutKey[p])
           /\ (Enabled(p) => Opened(p))
BY DEF Phases, Enabled, Opened, Key, Masked, Restored, WithKey, WithoutKey

\* The interrupt enable and the key are as the program needs them for what it still has to do, so
\* that every write lands.
LEMMA PhaseStep == SuInv /\ [SuNext]_suVars => InPhase' /\ WritesLand'
<1> SUFFICES ASSUME SuInv, [SuNext]_suVars PROVE InPhase' /\ WritesLand'
  OBVIOUS
<1>1. SuTypeOK /\ WritesLand
  BY DEF SuInv
<1>2. PICK p \in Phases : PhaseIs(p) /\ Runs(todo, p, "loop")
  BY DEF SuInv, InPhase
<1>3. "loop" \in Phases
  BY DEF Phases
<1>4. {ie, unlocked, saved, opened} \subseteq BOOLEAN
  BY <1>1 DEF SuTypeOK
<1>5. ASSUME NEW a \in Access, Made(a) PROVE InPhase' /\ WritesLand'
  <2>1. todo \in Seq(Access) /\ todo # <<>> /\ a = Head(todo) /\ todo' = Tail(todo)
    BY <1>1, <1>5 DEF SuTypeOK, Made
  <2>2. PICK q \in Phases : Leads(p, a, q) /\ Runs(todo', q, "loop")
    BY <1>2, <1>3, <2>1, RunsTail
  <2>3. PhaseIs(q)'
    <3>1. a.do \in {"mask", "restore", "unlock", "lock", "enable", "readPort", "assert", "stopped", "write",
                    "port", "clearFlag", "source", "noSource", "ready", "configure", "wait"}
      BY DEF Access, Simple, Writes, PortAccesses, OfSource, Readies, Configures, Waits
    <3>2. a.do # "stopped"
      BY <1>5 DEF Made
    <3>3. /\ (ie <=> Enabled(p)) /\ (opened <=> Opened(p)) /\ (~ie => saved = opened)
          /\ (Key(p) => unlocked)
      BY <1>2 DEF PhaseIs
    <3> DEFINE Then == /\ (ie' <=> Enabled(q)) /\ (opened' <=> Opened(q)) /\ (~ie' => saved' = opened')
                       /\ (Key(q) => unlocked')
    <3>0. ASSUME Then PROVE PhaseIs(q)'
      <4>1. ie' \in BOOLEAN /\ opened' \in BOOLEAN
        BY TypeStep DEF SuTypeOK
      <4> QED
        BY <3>0, <4>1 DEF PhaseIs, Enabled, Opened
    <3>4. CASE a.do = "mask"
      <4>1. q = Masked[p] /\ p \notin {"masked", "maskedKey"}
        BY <2>2, <3>4 DEF Leads
      <4>2. ie' = FALSE /\ saved' = ie /\ opened' = opened /\ unlocked' = unlocked
        BY <1>4, <1>5, <3>4 DEF Made
      <4>3. ie = opened
        BY <1>4, <3>3, <4>1 DEF Phases, Enabled, Opened
      <4>4. saved' = opened' /\ (ie' <=> Enabled(q)) /\ (opened' <=> Opened(q))
        <5>1. ~Enabled(q) /\ (Opened(q) <=> Opened(p))
          BY <4>1, PhaseMaps
        <5> QED
          BY <3>3, <4>2, <4>3, <5>1
      <4>5. Key(q) => unlocked'
        BY <3>3, <4>1, <4>2, PhaseMaps
      <4> QED
        BY <3>0, <4>4, <4>5
    <3>5. CASE a.do = "restore"
      <4>1. q = Restored[p]
        BY <2>2, <3>5 DEF Leads
      <4>2. ie' = (ie \/ saved) /\ saved' = saved /\ opened' = opened /\ unlocked' = unlocked
        BY <1>4, <1>5, <3>5 DEF Made
      <4>3. ie' = opened
        BY <1>4, <3>3, <4>2, PhaseMaps
      <4>4. ~ie' => saved' = opened'
        BY <1>4, <3>3, <4>2
      <4>5. (Opened(q) <=> Opened(p)) /\ (Enabled(q) <=> Opened(p)) /\ (Key(q) <=> Key(p))
        BY <4>1, PhaseMaps
      <4> QED
        BY <3>0, <3>3, <4>2, <4>3, <4>4, <4>5
    <3>6. CASE a.do = "unlock"
      <4>1. q = IF Enabled(p) THEN p ELSE WithKey[p]
        BY <2>2, <3>6 DEF Leads
      <4>2. ie' = ie /\ saved' = saved /\ opened' = opened /\ (~ie => unlocked') /\ (unlocked => unlocked')
        BY <1>4, <1>5, <3>6 DEF Made
      <4>3. Then
        BY <1>4, <3>3, <4>1, <4>2, PhaseMaps
      <4> QED
        BY <3>0, <4>3
    <3>7. CASE a.do = "lock"
      <4>1. q = WithoutKey[p]
        BY <2>2, <3>7 DEF Leads
      <4>2. ie' = ie /\ saved' = saved /\ opened' = opened
        BY <1>4, <1>5, <3>7 DEF Made
      <4>3. Then
        BY <1>4, <3>3, <4>1, <4>2, PhaseMaps
      <4> QED
        BY <3>0, <4>3
    <3>8. CASE a.do = "enable"
      BY <1>4, <1>5, <2>2, <3>3, <3>8 DEF Made, Leads, PhaseIs, Phases, Enabled, Opened, Key
    <3>9. CASE a.do \notin {"mask", "restore", "unlock", "lock", "enable"}
      <4>1. q = p
        BY <2>2, <3>1, <3>2, <3>9 DEF Leads
      <4>2. UNCHANGED <<ie, unlocked, saved, opened>>
        BY <1>4, <1>5, <3>9 DEF Made
      <4> QED
        BY <1>2, <4>1, <4>2 DEF PhaseIs
    <3> QED
      BY <3>4, <3>5, <3>6, <3>7, <3>8, <3>9
  <2>4. WritesLand'
    <3>1. CASE a.do = "write"
      <4>1. a.reg \in Registers
        BY <3>1, AccessKinds
      <4>2. a.reg \notin RemapRegisters => Lands(a.reg)
        BY <1>2, <2>2, <3>1 DEF Leads, Lands, PhaseIs, RemapRegisters, MaskedRegisters
      <4>3. /\ asked' = [asked EXCEPT ![a.reg] = a.value]
            /\ reg' = IF Lands(a.reg) THEN [reg EXCEPT ![a.reg] = a.value] ELSE reg
        BY <1>5, <3>1 DEF Made
      <4>4. DOMAIN reg = Registers /\ DOMAIN asked = Registers
        BY <1>1 DEF SuTypeOK
      <4> QED
        BY <1>1, <4>1, <4>2, <4>3, <4>4 DEF WritesLand
    <3>2. CASE a.do # "write"
      BY <1>1, <1>5, <3>2 DEF WritesLand, Made
    <3> QED
      BY <3>1, <3>2
  <2> QED
    BY <2>2, <2>3, <2>4 DEF InPhase
<1>6. CASE Stops
  <2>1. Runs(todo', p, "loop")
    BY <1>6, StoppedSeq DEF Stops
  <2>2. PhaseIs(p)'
    BY <1>2, <1>6 DEF Stops, PhaseIs, cpuVars, historyVars
  <2>3. WritesLand'
    BY <1>1, <1>6 DEF Stops, WritesLand
  <2> QED
    BY <2>1, <2>2, <2>3 DEF InPhase
<1>7. CASE SYS_Tasks
  <2>1. todo = <<>> /\ p = "loop"
    BY <1>2, <1>3, <1>7, RunsEmpty DEF SYS_Tasks
  <2>2. Runs(todo', p, "loop")
    BY <1>7, <2>1, PassSeq
  <2>3. PhaseIs(p)'
    BY <1>2, <1>7 DEF SYS_Tasks, PhaseIs, cpuVars, historyVars
  <2>4. WritesLand'
    BY <1>1, <1>7 DEF SYS_Tasks, WritesLand
  <2> QED
    BY <2>2, <2>3, <2>4 DEF InPhase
<1>8. CASE Aside
  <2>1. PhaseIs(p)' /\ Runs(todo', p, "loop")
    BY <1>2, <1>8 DEF Aside, PhaseIs, cpuVars
  <2>2. WritesLand'
    BY <1>1, <1>8 DEF Aside, WritesLand
  <2> QED
    BY <2>1, <2>2 DEF InPhase
<1> QED
  BY <1>1, <1>5, <1>6, <1>7, <1>8, Steps

\* What an access does to the bit of a pin.
LEMMA PortEffect ==
    ASSUME SuTypeOK, NEW a \in Access, Made(a), NEW r \in PortRegisters, NEW pin
    PROVE  /\ a \notin PortWrites(r, pin) => (pin \in port[r]' <=> pin \in port[r])
           /\ a \in SetsBit(r, pin) => pin \in port[r]'
           /\ r = "lat" /\ a \in SettlesLatch(pin) => (pin \in port[r]' <=> pin \in LAT)
           /\ r = "output" /\ a \notin Drives(pin) /\ pin \notin port[r] => pin \notin port[r]'
<1>1. port \in [PortRegisters -> SUBSET PortBits]
  BY DEF SuTypeOK
<1>2. CASE a.do # "port"
  <2>1. port' = port
    BY <1>2 DEF Made
  <2> QED
    BY <1>2, <2>1 DEF SetsBit, SettlesLatch, PortWrites
<1>3. CASE a.do = "port" /\ a.reg # r
  <2>1. port[r]' = port[r]
    BY <1>1, <1>3 DEF Made
  <2> QED
    BY <1>3, <2>1 DEF SetsBit, SettlesLatch, PortWrites
<1>4. CASE a.do = "port" /\ a.reg = r
  <2> DEFINE m == (port[r] \ a.clear) \cup a.set
  <2>1. port[r]' = (m \ a.flip) \cup (a.flip \ m)
    BY <1>1, <1>4 DEF Made
  <2>2. a \notin PortWrites(r, pin) => pin \notin a.clear /\ pin \notin a.set /\ pin \notin a.flip
    BY <1>4 DEF PortWrites
  <2>3. a \notin PortWrites(r, pin) => (pin \in port[r]' <=> pin \in port[r])
    BY <2>1, <2>2
  <2>4. a \in SetsBit(r, pin) => pin \in port[r]'
    BY <2>1 DEF SetsBit
  <2>5. r = "lat" /\ a \in SettlesLatch(pin) => (pin \in port[r]' <=> pin \in LAT)
    BY <2>1 DEF SettlesLatch, PortWrites
  <2>6. r = "output" /\ a \notin Drives(pin) /\ pin \notin port[r] => pin \notin port[r]'
    BY <1>4, <2>1 DEF Drives, PortWrites
  <2> QED
    BY <2>3, <2>4, <2>5, <2>6
<1> QED
  BY <1>2, <1>3, <1>4

\* What has to come before interrupts are opened does.
LEMMA ObjectsStep == SuInv /\ [SuNext]_suVars => ObjectsInTime'
<1> SUFFICES ASSUME SuInv, [SuNext]_suVars, NEW o \in Objects
             PROVE  (o \in ready \/ (~opened /\ Ordered(Initialises(o), Opening, todo)))'
  BY DEF ObjectsInTime
<1>1. SuTypeOK /\ (o \in ready \/ (~opened /\ Ordered(Initialises(o), Opening, todo)))
  BY DEF SuInv, ObjectsInTime
<1>2. ASSUME NEW a \in Access, Made(a), o \notin ready
      PROVE  o \in ready' \/ (~opened' /\ Ordered(Initialises(o), Opening, todo'))
  <2>1. todo \in Seq(Access) /\ todo # <<>> /\ a = Head(todo) /\ todo' = Tail(todo)
    BY <1>1, <1>2 DEF SuTypeOK, Made
  <2>2. a \notin Opening /\ (a \in Initialises(o) \/ Ordered(Initialises(o), Opening, todo'))
    BY <1>1, <1>2, <2>1, OrderedTail
  <2>3. ~opened'
    BY <1>1, <1>2, <2>2 DEF Made, Opening
  <2>4. a \in Initialises(o) => o \in ready'
    BY <1>2 DEF Initialises, Made
  <2> QED
    BY <2>2, <2>3, <2>4
<1>3. ASSUME NEW a \in Access, Made(a), o \in ready PROVE o \in ready'
  BY <1>3 DEF Made
<1>4. CASE Stops
  <2>1. ready' = ready /\ opened' = opened
    BY <1>4 DEF Stops, historyVars
  <2>2. Ordered(Initialises(o), Opening, todo')
    BY <1>4, StoppedSeq DEF Stops, Opening
  <2> QED
    BY <1>1, <2>1, <2>2
<1>5. CASE SYS_Tasks
  BY <1>1, <1>5, PassBegins DEF SYS_Tasks
<1>6. CASE Aside
  BY <1>1, <1>6 DEF Aside
<1> QED
  BY <1>1, <1>2, <1>3, <1>4, <1>5, <1>6, Steps

\* An interrupt routine touches no pin but the LED's latch.
LEMMA AsidePort ==
    ASSUME SuTypeOK, Aside, Isr \/ PGoodChange \/ (\E s \in Drivers : Raise(s)) \/ UNCHANGED suVars
    PROVE  \A r \in PortRegisters : \A pin :
              r # "lat" \/ pin # "LedStatus" => (pin \in port[r]' <=> pin \in port[r])
<1>1. port \in [PortRegisters -> SUBSET PortBits]
  BY DEF SuTypeOK
<1>2. CASE SetLed
  BY <1>1, <1>2 DEF SetLed
<1>3. CASE ~SetLed
  <2>1. port' = port
    BY <1>3 DEF Isr, Enter, ChangeNotification, Return, PGoodChange, Raise, suVars
  <2> QED
    BY <2>1
<1> QED
  BY <1>2, <1>3

\* Latches are written before the pins drive, and keep their level.
LEMMA PinsStep == SuInv /\ [SuNext]_suVars => PinsInTime'
<1> SUFFICES ASSUME SuInv, [SuNext]_suVars, NEW pin \in Steady
             PROVE  /\ Free(SpoilsLatch(pin), todo')
                    /\ \/ pin \in port["lat"]' <=> pin \in LAT
                       \/ ~opened' /\ pin \notin port["output"]' /\ Ordered(SettlesLatch(pin), Drives(pin), todo')
  BY DEF PinsInTime
<1>1. /\ SuTypeOK /\ Free(SpoilsLatch(pin), todo)
      /\ \/ pin \in port["lat"] <=> pin \in LAT
         \/ ~opened /\ pin \notin port["output"] /\ Ordered(SettlesLatch(pin), Drives(pin), todo)
  BY DEF SuInv, PinsInTime
<1>2. "lat" \in PortRegisters /\ "output" \in PortRegisters /\ pin # "LedStatus"
  BY DEF PortRegisters, Steady
<1>3. ASSUME NEW a \in Access, Made(a)
      PROVE  /\ Free(SpoilsLatch(pin), todo')
             /\ \/ pin \in port["lat"]' <=> pin \in LAT
                \/ ~opened' /\ pin \notin port["output"]' /\ Ordered(SettlesLatch(pin), Drives(pin), todo')
  <2>1. todo \in Seq(Access) /\ todo # <<>> /\ a = Head(todo) /\ todo' = Tail(todo)
    BY <1>1, <1>3 DEF SuTypeOK, Made
  <2>2. Free(SpoilsLatch(pin), todo') /\ a \notin SpoilsLatch(pin)
    BY <1>1, <2>1, FreeTail
  <2>3. a \notin PortWrites("lat", pin) \/ a \in SettlesLatch(pin)
    BY <2>2 DEF SpoilsLatch
  <2>4. CASE pin \in port["lat"] <=> pin \in LAT
    BY <1>1, <1>2, <1>3, <2>2, <2>3, <2>4, PortEffect
  <2>5. CASE ~opened /\ pin \notin port["output"] /\ Ordered(SettlesLatch(pin), Drives(pin), todo)
    <3>1. a \notin Drives(pin) /\ (a \in SettlesLatch(pin) \/ Ordered(SettlesLatch(pin), Drives(pin), todo'))
      BY <2>1, <2>5, OrderedTail
    <3>2. ~opened'
      BY <1>3, <2>5, <3>1 DEF Made, Drives, Opening
    <3> QED
      BY <1>1, <1>2, <1>3, <2>2, <2>5, <3>1, <3>2, PortEffect
  <2> QED
    BY <1>1, <2>4, <2>5
<1>4. CASE Stops
  <2>1. port' = port /\ opened' = opened
    BY <1>4 DEF Stops, historyVars
  <2>2. Ordered(SettlesLatch(pin), Drives(pin), todo') /\ Free(SpoilsLatch(pin), todo')
    BY <1>4, StoppedSeq DEF Stops, Drives, Opening, PortWrites, SpoilsLatch
  <2> QED
    BY <1>1, <2>1, <2>2
<1>5. CASE SYS_Tasks
  <2>1. Free(SpoilsLatch(pin), todo')
    <3>1. SpoilsLatch(pin) \cap ChannelAccess = {} /\ SpoilsLatch(pin) \cap Harmless = {}
      BY ChannelApart, HarmlessApart DEF SpoilsLatch
    <3>2. SpoilsLatch(pin) \cap Attaching = {}
      BY DEF SpoilsLatch, PortWrites, Attaching
    <3> QED
      BY <1>5, <3>1, <3>2, PassSeq
  <2>2. port' = port
    BY <1>5 DEF SYS_Tasks
  <2> QED
    BY <1>5, <2>1, <2>2, PassBegins
<1>6. CASE Aside /\ (Isr \/ PGoodChange \/ (\E s \in Drivers : Raise(s)) \/ UNCHANGED suVars)
  <2>1. todo' = todo /\ opened' = opened
    BY <1>6 DEF Aside
  <2>2. (pin \in port["lat"]' <=> pin \in port["lat"]) /\ (pin \in port["output"]' <=> pin \in port["output"])
    BY <1>1, <1>2, <1>6, AsidePort
  <2> QED
    BY <1>1, <2>1, <2>2
<1> QED
  BY <1>1, <1>3, <1>4, <1>5, <1>6, Steps

\* Open drains are selected before the pins drive, and stay.
LEMMA DrainsStep == SuInv /\ [SuNext]_suVars => DrainsInTime'
<1> SUFFICES ASSUME SuInv, [SuNext]_suVars, NEW pin \in ODC
             PROVE  /\ Free(ClearsBit("odc", pin), todo')
                    /\ \/ pin \in port["odc"]'
                       \/ ~opened' /\ pin \notin port["output"]' /\ Ordered(SetsBit("odc", pin), Drives(pin), todo')
  BY DEF DrainsInTime
<1>1. /\ SuTypeOK /\ Free(ClearsBit("odc", pin), todo)
      /\ \/ pin \in port["odc"]
         \/ ~opened /\ pin \notin port["output"] /\ Ordered(SetsBit("odc", pin), Drives(pin), todo)
  BY DEF SuInv, DrainsInTime
<1>2. "odc" \in PortRegisters /\ "output" \in PortRegisters /\ "odc" # "lat" /\ "output" # "lat"
  BY DEF PortRegisters
<1>3. ASSUME NEW a \in Access, Made(a)
      PROVE  /\ Free(ClearsBit("odc", pin), todo')
             /\ \/ pin \in port["odc"]'
                \/ ~opened' /\ pin \notin port["output"]' /\ Ordered(SetsBit("odc", pin), Drives(pin), todo')
  <2>1. todo \in Seq(Access) /\ todo # <<>> /\ a = Head(todo) /\ todo' = Tail(todo)
    BY <1>1, <1>3 DEF SuTypeOK, Made
  <2>2. Free(ClearsBit("odc", pin), todo') /\ a \notin ClearsBit("odc", pin)
    BY <1>1, <2>1, FreeTail
  <2>3. a \notin PortWrites("odc", pin) \/ a \in SetsBit("odc", pin)
    BY <2>2 DEF ClearsBit
  <2>4. CASE pin \in port["odc"]
    BY <1>1, <1>2, <1>3, <2>2, <2>3, <2>4, PortEffect
  <2>5. CASE ~opened /\ pin \notin port["output"] /\ Ordered(SetsBit("odc", pin), Drives(pin), todo)
    <3>1. a \notin Drives(pin) /\ (a \in SetsBit("odc", pin) \/ Ordered(SetsBit("odc", pin), Drives(pin), todo'))
      BY <2>1, <2>5, OrderedTail
    <3>2. ~opened'
      BY <1>3, <2>5, <3>1 DEF Made, Drives, Opening
    <3> QED
      BY <1>1, <1>2, <1>3, <2>2, <2>5, <3>1, <3>2, PortEffect
  <2> QED
    BY <1>1, <2>4, <2>5
<1>4. CASE Stops
  <2>1. port' = port /\ opened' = opened
    BY <1>4 DEF Stops, historyVars
  <2>2. Ordered(SetsBit("odc", pin), Drives(pin), todo') /\ Free(ClearsBit("odc", pin), todo')
    BY <1>4, StoppedSeq DEF Stops, Drives, Opening, PortWrites, ClearsBit
  <2> QED
    BY <1>1, <2>1, <2>2
<1>5. CASE SYS_Tasks
  <2>1. Free(ClearsBit("odc", pin), todo')
    <3>1. ClearsBit("odc", pin) \cap ChannelAccess = {} /\ ClearsBit("odc", pin) \cap Harmless = {}
      BY ChannelApart, HarmlessApart DEF ClearsBit
    <3>2. ClearsBit("odc", pin) \cap Attaching = {}
      BY DEF ClearsBit, PortWrites, Attaching
    <3> QED
      BY <1>5, <3>1, <3>2, PassSeq
  <2>2. port' = port /\ opened
    BY <1>5, PassBegins DEF SYS_Tasks
  <2> QED
    BY <1>1, <2>1, <2>2
<1>6. CASE Aside /\ (Isr \/ PGoodChange \/ (\E s \in Drivers : Raise(s)) \/ UNCHANGED suVars)
  <2>1. todo' = todo /\ opened' = opened
    BY <1>6 DEF Aside
  <2>2. (pin \in port["odc"]' <=> pin \in port["odc"]) /\ (pin \in port["output"]' <=> pin \in port["output"])
    BY <1>1, <1>2, <1>6, AsidePort
  <2> QED
    BY <1>1, <2>1, <2>2
<1> QED
  BY <1>1, <1>3, <1>4, <1>5, <1>6, Steps

\* The power-good pin is digital before it is read in an interrupt, and stays.
LEMMA PGoodStep == SuInv /\ [SuNext]_suVars => PGoodInTime'
<1> DEFINE pin == "BQ_PGood"
<1> SUFFICES ASSUME SuInv, [SuNext]_suVars
             PROVE  /\ Free(ClearsBit("digital", pin), todo')
                    /\ \/ pin \in port["digital"]'
                       \/ ~opened' /\ Ordered(SetsBit("digital", pin), Opening, todo')
  BY DEF PGoodInTime
<1>1. /\ SuTypeOK /\ Free(ClearsBit("digital", pin), todo)
      /\ \/ pin \in port["digital"]
         \/ ~opened /\ Ordered(SetsBit("digital", pin), Opening, todo)
  BY DEF SuInv, PGoodInTime
<1>2. "digital" \in PortRegisters /\ "digital" # "lat"
  BY DEF PortRegisters
<1>3. ASSUME NEW a \in Access, Made(a)
      PROVE  /\ Free(ClearsBit("digital", pin), todo')
             /\ \/ pin \in port["digital"]'
                \/ ~opened' /\ Ordered(SetsBit("digital", pin), Opening, todo')
  <2>1. todo \in Seq(Access) /\ todo # <<>> /\ a = Head(todo) /\ todo' = Tail(todo)
    BY <1>1, <1>3 DEF SuTypeOK, Made
  <2>2. Free(ClearsBit("digital", pin), todo') /\ a \notin ClearsBit("digital", pin)
    BY <1>1, <2>1, FreeTail
  <2>3. a \notin PortWrites("digital", pin) \/ a \in SetsBit("digital", pin)
    BY <2>2 DEF ClearsBit
  <2>4. CASE pin \in port["digital"]
    BY <1>1, <1>2, <1>3, <2>2, <2>3, <2>4, PortEffect
  <2>5. CASE ~opened /\ Ordered(SetsBit("digital", pin), Opening, todo)
    <3>1. a \notin Opening /\ (a \in SetsBit("digital", pin) \/ Ordered(SetsBit("digital", pin), Opening, todo'))
      BY <2>1, <2>5, OrderedTail
    <3>2. ~opened'
      BY <1>3, <2>5, <3>1 DEF Made, Opening
    <3> QED
      BY <1>1, <1>2, <1>3, <2>2, <3>1, <3>2, PortEffect
  <2> QED
    BY <1>1, <2>4, <2>5
<1>4. CASE Stops
  <2>1. port' = port /\ opened' = opened
    BY <1>4 DEF Stops, historyVars
  <2>2. Ordered(SetsBit("digital", pin), Opening, todo') /\ Free(ClearsBit("digital", pin), todo')
    BY <1>4, StoppedSeq DEF Stops, Opening, PortWrites, ClearsBit
  <2> QED
    BY <1>1, <2>1, <2>2
<1>5. CASE SYS_Tasks
  <2>1. Free(ClearsBit("digital", pin), todo')
    <3>1. ClearsBit("digital", pin) \cap ChannelAccess = {} /\ ClearsBit("digital", pin) \cap Harmless = {}
      BY ChannelApart, HarmlessApart DEF ClearsBit
    <3>2. ClearsBit("digital", pin) \cap Attaching = {}
      BY DEF ClearsBit, PortWrites, Attaching
    <3> QED
      BY <1>5, <3>1, <3>2, PassSeq
  <2>2. port' = port /\ opened
    BY <1>5, PassBegins DEF SYS_Tasks
  <2> QED
    BY <1>1, <2>1, <2>2
<1>6. CASE Aside /\ (Isr \/ PGoodChange \/ (\E s \in Drivers : Raise(s)) \/ UNCHANGED suVars)
  <2>1. todo' = todo /\ opened' = opened
    BY <1>6 DEF Aside
  <2>2. pin \in port["digital"]' <=> pin \in port["digital"]
    BY <1>1, <1>2, <1>6, AsidePort
  <2> QED
    BY <1>1, <2>1, <2>2
<1> QED
  BY <1>1, <1>3, <1>4, <1>5, <1>6, Steps

\* Timers, compare unit and priorities are as wanted once the channels are attached.
LEMMA ConfiguredStep == SuInv /\ [SuNext]_suVars => ConfiguredInTime'
<1> SUFFICES ASSUME SuInv, [SuNext]_suVars, NEW w \in Wanted
             PROVE  /\ Free(Misconfigures(w), todo')
                    /\ \/ config[w[1]][w[2]]' = w[3]
                       \/ w[2] # "on" /\ "channels" \notin ready' /\ Ordered(ConfiguresAs(w), Attaching, todo')
  BY DEF ConfiguredInTime
<1>1. /\ SuTypeOK /\ Free(Misconfigures(w), todo)
      /\ \/ config[w[1]][w[2]] = w[3]
         \/ w[2] # "on" /\ "channels" \notin ready /\ Ordered(ConfiguresAs(w), Attaching, todo)
  BY DEF SuInv, ConfiguredInTime
<1>2. config \in [Parts -> [Fields -> Int]] /\ w[1] \in Parts /\ w[2] \in Fields
  BY <1>1, WantedTypes DEF SuTypeOK
<1>3. ASSUME NEW a \in Access, Made(a)
      PROVE  /\ Free(Misconfigures(w), todo')
             /\ \/ config[w[1]][w[2]]' = w[3]
                \/ w[2] # "on" /\ "channels" \notin ready' /\ Ordered(ConfiguresAs(w), Attaching, todo')
  <2>1. todo \in Seq(Access) /\ todo # <<>> /\ a = Head(todo) /\ todo' = Tail(todo)
    BY <1>1, <1>3 DEF SuTypeOK, Made
  <2>2. Free(Misconfigures(w), todo') /\ a \notin Misconfigures(w)
    BY <1>1, <2>1, FreeTail
  <2>3. config' = IF a.do = "configure" THEN [config EXCEPT ![a.part][a.field] = a.value] ELSE config
    BY <1>3 DEF Made
  <2>4. a \notin Touches(w) => config[w[1]][w[2]]' = config[w[1]][w[2]]
    BY <1>2, <2>3 DEF Touches
  <2>5. a \in ConfiguresAs(w) => config[w[1]][w[2]]' = w[3]
    BY <1>2, <2>3 DEF Touches, ConfiguresAs
  <2>6. a \in Touches(w) => a \in ConfiguresAs(w)
    BY <2>2 DEF Misconfigures
  <2>7. CASE config[w[1]][w[2]] = w[3]
    BY <2>2, <2>4, <2>5, <2>6, <2>7
  <2>8. CASE w[2] # "on" /\ "channels" \notin ready /\ Ordered(ConfiguresAs(w), Attaching, todo)
    <3>1. a \notin Attaching /\ (a \in ConfiguresAs(w) \/ Ordered(ConfiguresAs(w), Attaching, todo'))
      BY <2>1, <2>8, OrderedTail
    <3>2. "channels" \notin ready'
      BY <1>3, <2>8, <3>1 DEF Made, Attaching
    <3> QED
      BY <2>2, <2>5, <2>8, <3>1, <3>2
  <2> QED
    BY <1>1, <2>7, <2>8
<1>4. CASE Stops
  <2>1. config' = config /\ ready' = ready
    BY <1>4 DEF Stops
  <2>2. Ordered(ConfiguresAs(w), Attaching, todo') /\ Free(Misconfigures(w), todo')
    BY <1>4, StoppedSeq DEF Stops, Attaching, Misconfigures, Touches
  <2> QED
    BY <1>1, <2>1, <2>2
<1>5. CASE SYS_Tasks
  <2>1. Free(Misconfigures(w), todo')
    <3>1. Misconfigures(w) \cap ChannelAccess = {} /\ Misconfigures(w) \cap Harmless = {}
      BY ChannelApart, HarmlessApart DEF Misconfigures
    <3>2. Misconfigures(w) \cap Attaching = {}
      BY DEF Misconfigures, Touches, Attaching
    <3> QED
      BY <1>5, <3>1, <3>2, PassSeq
  <2>2. config' = config /\ ready' = ready
    BY <1>5 DEF SYS_Tasks
  <2>3. CASE "channels" \in ready
    BY <1>1, <2>1, <2>2, <2>3
  <2>4. CASE "channels" \notin ready
    <3>1. todo' = FirstPass /\ \A pin \in Steady : pin \in port.lat <=> pin \in LAT
      BY <1>5, <2>4, PassBegins
    <3>2. w[2] # "on" => Ordered(ConfiguresAs(w), Attaching, todo')
      BY <3>1, FirstPassSeq
    <3> QED
      BY <1>1, <2>1, <2>2, <2>4, <3>2
  <2> QED
    BY <2>3, <2>4
<1>6. CASE Aside
  BY <1>1, <1>6 DEF Aside
<1> QED
  BY <1>1, <1>3, <1>4, <1>5, <1>6, Steps

\* The watchdogs may interrupt once the channels are attached, the inputs may not yet.
LEMMA WatchdogsStep == SuInv /\ [SuNext]_suVars => WatchdogsInTime'
<1> SUFFICES ASSUME SuInv, [SuNext]_suVars, NEW c \in ChannelIndex
             PROVE  /\ Free(OfKind("noSource", wdTimer[c]), todo')
                    /\ \/ wdTimer[c] \in sources'
                       \/ "channels" \notin ready' /\ Ordered(OfKind("source", wdTimer[c]), Attaching, todo')
                    /\ Free(OfKind("source", inputInt[c]), todo') /\ inputInt[c] \notin sources'
  BY DEF WatchdogsInTime
<1> DEFINE off == OfKind("noSource", wdTimer[c])
           on == OfKind("source", wdTimer[c])
           input == OfKind("source", inputInt[c])
<1>1. /\ SuTypeOK /\ Free(off, todo) /\ Free(input, todo) /\ inputInt[c] \notin sources
      /\ \/ wdTimer[c] \in sources
         \/ "channels" \notin ready /\ Ordered(on, Attaching, todo)
  BY DEF SuInv, WatchdogsInTime
<1>2. ASSUME NEW a \in Access, Made(a)
      PROVE  /\ Free(off, todo')
             /\ \/ wdTimer[c] \in sources'
                \/ "channels" \notin ready' /\ Ordered(on, Attaching, todo')
             /\ Free(input, todo') /\ inputInt[c] \notin sources'
  <2>1. todo \in Seq(Access) /\ todo # <<>> /\ a = Head(todo) /\ todo' = Tail(todo)
    BY <1>1, <1>2 DEF SuTypeOK, Made
  <2>2. Free(off, todo') /\ a \notin off /\ Free(input, todo') /\ a \notin input
    BY <1>1, <2>1, FreeTail
  <2>3. sources' = IF a.do = "source" THEN sources \cup {a.source}
                   ELSE IF a.do = "noSource" THEN sources \ {a.source} ELSE sources
    BY <1>2 DEF Made
  <2>4. inputInt[c] \notin sources'
    BY <1>1, <2>2, <2>3 DEF OfKind
  <2>5. CASE wdTimer[c] \in sources
    <3>1. wdTimer[c] \in sources'
      BY <2>2, <2>3, <2>5 DEF OfKind
    <3> QED
      BY <2>2, <2>4, <3>1
  <2>6. CASE "channels" \notin ready /\ Ordered(on, Attaching, todo)
    <3>1. a \notin Attaching /\ (a \in on \/ Ordered(on, Attaching, todo'))
      BY <2>1, <2>6, OrderedTail
    <3>2. "channels" \notin ready'
      BY <1>2, <2>6, <3>1 DEF Made, Attaching
    <3>3. a \in on => wdTimer[c] \in sources'
      BY <2>3 DEF OfKind
    <3> QED
      BY <2>2, <2>4, <3>1, <3>2, <3>3
  <2> QED
    BY <1>1, <2>5, <2>6
<1>3. CASE Stops
  <2>1. sources' = sources /\ ready' = ready
    BY <1>3 DEF Stops
  <2>2. Ordered(on, Attaching, todo') /\ Free(off, todo') /\ Free(input, todo')
    BY <1>3, StoppedSeq DEF Stops, Attaching, OfKind
  <2> QED
    BY <1>1, <2>1, <2>2
<1>4. CASE SYS_Tasks
  <2>1. Free(off, todo') /\ Free(input, todo')
    <3>1. /\ off \cap ChannelAccess = {} /\ off \cap Harmless = {}
          /\ input \cap ChannelAccess = {} /\ input \cap Harmless = {}
      BY ChannelApart, HarmlessApart
    <3>2. off \cap Attaching = {} /\ input \cap Attaching = {}
      BY DEF OfKind, Attaching
    <3> QED
      BY <1>4, <3>1, <3>2, PassSeq
  <2>2. sources' = sources /\ ready' = ready
    BY <1>4 DEF SYS_Tasks
  <2>3. CASE "channels" \in ready
    BY <1>1, <2>1, <2>2, <2>3
  <2>4. CASE "channels" \notin ready
    <3>1. todo' = FirstPass /\ \A pin \in Steady : pin \in port.lat <=> pin \in LAT
      BY <1>4, <2>4, PassBegins
    <3>2. Ordered(on, Attaching, todo')
      BY <3>1, FirstPassSeq
    <3> QED
      BY <1>1, <2>1, <2>2, <2>4, <3>2
  <2> QED
    BY <2>3, <2>4
<1>5. CASE Aside
  BY <1>1, <1>5 DEF Aside
<1> QED
  BY <1>1, <1>2, <1>3, <1>4, <1>5, Steps

\* The divisor of the peripheral bus is chosen before anybody reckons with it.
LEMMA DivisorStep == SuInv /\ [SuNext]_suVars => DivisorInTime'
<1> DEFINE other == WritesDivisor \ ChoosesDivisor
           users == Opening \cup Attaching
<1> SUFFICES ASSUME SuInv, [SuNext]_suVars
             PROVE  /\ Free(other, todo')
                    /\ \/ asked["busDivisor"]' = 9
                       \/ ~opened' /\ "channels" \notin ready' /\ Ordered(ChoosesDivisor, users, todo')
  BY DEF DivisorInTime
<1>1. /\ SuTypeOK /\ Free(other, todo)
      /\ \/ asked["busDivisor"] = 9
         \/ ~opened /\ "channels" \notin ready /\ Ordered(ChoosesDivisor, users, todo)
  BY DEF SuInv, DivisorInTime
<1>2. DOMAIN asked = Registers /\ "busDivisor" \in Registers
  BY <1>1 DEF SuTypeOK, Registers, KeyRegisters
<1>3. ASSUME NEW a \in Access, Made(a)
      PROVE  /\ Free(other, todo')
             /\ \/ asked["busDivisor"]' = 9
                \/ ~opened' /\ "channels" \notin ready' /\ Ordered(ChoosesDivisor, users, todo')
  <2>1. todo \in Seq(Access) /\ todo # <<>> /\ a = Head(todo) /\ todo' = Tail(todo)
    BY <1>1, <1>3 DEF SuTypeOK, Made
  <2>2. Free(other, todo') /\ a \notin other
    BY <1>1, <2>1, FreeTail
  <2>3. asked' = IF a.do = "write" THEN [asked EXCEPT ![a.reg] = a.value] ELSE asked
    BY <1>3 DEF Made
  <2>4. a \in ChoosesDivisor => asked["busDivisor"]' = 9
    BY <1>2, <2>3 DEF ChoosesDivisor, WritesDivisor
  <2>5. a \notin WritesDivisor => asked["busDivisor"]' = asked["busDivisor"]
    BY <1>2, <2>3 DEF WritesDivisor
  <2>6. CASE asked["busDivisor"] = 9
    BY <2>2, <2>4, <2>5, <2>6
  <2>7. CASE ~opened /\ "channels" \notin ready /\ Ordered(ChoosesDivisor, users, todo)
    <3>1. a \notin users /\ (a \in ChoosesDivisor \/ Ordered(ChoosesDivisor, users, todo'))
      BY <2>1, <2>7, OrderedTail
    <3>2. ~opened' /\ "channels" \notin ready'
      BY <1>3, <2>7, <3>1 DEF Made, Opening, Attaching
    <3> QED
      BY <2>2, <2>4, <3>1, <3>2
  <2> QED
    BY <1>1, <2>6, <2>7
<1>4. CASE Stops
  <2>1. asked' = asked /\ ready' = ready /\ opened' = opened
    BY <1>4 DEF Stops, historyVars
  <2>2. Ordered(ChoosesDivisor, users, todo') /\ Free(other, todo')
    BY <1>4, StoppedSeq DEF Stops, Opening, Attaching, WritesDivisor
  <2> QED
    BY <1>1, <2>1, <2>2
<1>5. CASE SYS_Tasks
  <2>1. Free(other, todo')
    <3>1. other \cap ChannelAccess = {} /\ other \cap Harmless = {}
      BY ChannelApart, HarmlessApart
    <3>2. other \cap Attaching = {}
      BY DEF WritesDivisor, Attaching
    <3> QED
      BY <1>5, <3>1, <3>2, PassSeq
  <2>2. asked' = asked /\ opened
    BY <1>5, PassBegins DEF SYS_Tasks
  <2> QED
    BY <1>1, <2>1, <2>2
<1>6. CASE Aside
  BY <1>1, <1>6 DEF Aside
<1> QED
  BY <1>1, <1>3, <1>4, <1>5, <1>6, Steps

\* Once interrupts are opened the main program touches neither the LED nor the notice's flag.
LEMMA UndisturbedStep == SuInv /\ [SuNext]_suVars => Undisturbed'
<1> SUFFICES ASSUME SuInv, [SuNext]_suVars
             PROVE  (opened' => Free(Disturbs, todo')) /\ Closed(Opening, Disturbs, todo')
  BY DEF Undisturbed
<1>1. SuTypeOK /\ (opened => Free(Disturbs, todo)) /\ Closed(Opening, Disturbs, todo)
  BY DEF SuInv, Undisturbed
<1>2. ASSUME NEW a \in Access, Made(a)
      PROVE  (opened' => Free(Disturbs, todo')) /\ Closed(Opening, Disturbs, todo')
  <2>1. todo \in Seq(Access) /\ todo # <<>> /\ a = Head(todo) /\ todo' = Tail(todo)
    BY <1>1, <1>2 DEF SuTypeOK, Made
  <2>2. Closed(Opening, Disturbs, todo') /\ (a \in Opening => Free(Disturbs, todo'))
    BY <1>1, <2>1, ClosedTail
  <2>3. opened => Free(Disturbs, todo')
    BY <1>1, <2>1, FreeTail
  <2>4. opened' => opened \/ a \in Opening
    BY <1>2 DEF Made, Opening
  <2> QED
    BY <2>2, <2>3, <2>4
<1>3. CASE Stops
  BY <1>3, StoppedSeq DEF Stops, Disturbs, PortWrites, OfKind
<1>4. CASE SYS_Tasks
  <2>1. Disturbs \cap ChannelAccess = {} /\ Disturbs \cap Harmless = {}
    BY ChannelApart, HarmlessApart
  <2>2. Disturbs \cap Attaching = {}
    BY DEF Disturbs, PortWrites, OfKind, Attaching
  <2> QED
    BY <1>4, <2>1, <2>2, PassSeq
<1>5. CASE Aside
  BY <1>1, <1>5 DEF Aside
<1> QED
  BY <1>1, <1>2, <1>3, <1>4, <1>5, Steps

\* The LED shows what the routine has seen, and what it has not seen is pending or missed.
LEMMA LedStep == SuInv /\ [SuNext]_suVars => LedFollows'
<1> SUFFICES ASSUME SuInv, [SuNext]_suVars PROVE LedFollows'
  OBVIOUS
<1>1. SuTypeOK /\ LedFollows
  BY DEF SuInv
<1>2. {pgood, lastRead, seen, opened, served, unseen} \subseteq BOOLEAN
  BY <1>1 DEF SuTypeOK
<1>3. ASSUME NEW a \in Access, Made(a) PROVE LedFollows'
  <2>1. todo \in Seq(Access) /\ todo # <<>> /\ a = Head(todo) /\ todo' = Tail(todo)
    BY <1>1, <1>3 DEF SuTypeOK, Made
  <2>2. opened => a \notin Disturbs
    <3>1. opened => Free(Disturbs, todo)
      BY DEF SuInv, Undisturbed
    <3> QED
      BY <2>1, <3>1, FreeTail
  <2>3. opened => ("LedStatus" \in port["lat"]' <=> "LedStatus" \in port["lat"])
    <3>1. "lat" \in PortRegisters
      BY DEF PortRegisters
    <3> QED
      BY <1>1, <1>3, <2>2, <3>1, PortEffect DEF Disturbs
  <2>4. opened => ("cn" \in flags' <=> "cn" \in flags)
    BY <1>3, <2>2 DEF Made, Disturbs, OfKind
  <2>5. /\ isr' = isr /\ isr.source = "none" /\ UNCHANGED <<pgood, unseen, seen, served>>
        /\ (opened => opened') /\ (lastRead' = lastRead \/ lastRead' = pgood)
    BY <1>2, <1>3 DEF Made, isrVars
  <2>6. served => opened
    BY <1>1 DEF LedFollows
  <2> QED
    BY <1>1, <2>3, <2>4, <2>5, <2>6 DEF LedFollows
<1>4. CASE Stops
  BY <1>1, <1>4 DEF LedFollows, Stops, isrVars, pinVars, historyVars
<1>5. CASE SYS_Tasks
  BY <1>1, <1>5 DEF LedFollows, SYS_Tasks, isrVars, pinVars, historyVars
<1>6. ie => opened
  <2>1. PICK p \in Phases : PhaseIs(p)
    BY DEF SuInv, InPhase
  <2> QED
    BY <1>2, <2>1 DEF PhaseIs, Phases, Enabled, Opened
<1>7. ASSUME Aside, NEW s \in Drivers, Enter(s) PROVE LedFollows'
  <2>1. isr.source = "none" /\ isr'.source # "cn" /\ isr'.step = "return" /\ opened' /\ opened
    BY <1>6, <1>7 DEF Aside, Enter, Interruptible, Drivers
  <2>2. UNCHANGED <<port, flags, pgood, lastRead, unseen, seen, served>>
    BY <1>7 DEF Enter, pinVars
  <2>3. isr.step # "led"
    BY <1>1, <2>1 DEF SuTypeOK
  <2> QED
    BY <1>1, <2>1, <2>2, <2>3 DEF LedFollows
<1>8. CASE Aside /\ ChangeNotification
  <2>1. opened /\ "BQ_PGood" \in port.digital
    BY <1>6, <1>8 DEF SuInv, PGoodInTime, ChangeNotification, Interruptible
  <2>2. seen' = lastRead'
    BY <1>2, <1>8, <2>1 DEF ChangeNotification
  <2> QED
    BY <1>1, <1>8, <2>1, <2>2 DEF LedFollows, Aside, ChangeNotification, Interruptible
<1>9. CASE Aside /\ SetLed
  BY <1>1, <1>2, <1>9 DEF LedFollows, SuTypeOK, Aside, SetLed, pinVars, PortRegisters
<1>10. CASE Aside /\ Return
  BY <1>1, <1>2, <1>10 DEF LedFollows, Aside, Return
<1>11. CASE Aside /\ PGoodChange
  BY <1>1, <1>2, <1>11 DEF LedFollows, Aside, PGoodChange, isrVars
<1>12. ASSUME Aside, NEW s \in Drivers, Raise(s) PROVE LedFollows'
  BY <1>1, <1>12 DEF LedFollows, Aside, Raise, isrVars, pinVars, Drivers
<1>13. CASE UNCHANGED suVars
  BY <1>1, <1>13 DEF LedFollows, suVars
<1> QED
  BY <1>1, <1>3, <1>4, <1>5, <1>7, <1>8, <1>9, <1>10, <1>11, <1>12, <1>13, Steps DEF Isr

\* After reset nothing is relied on yet, and the start-up will provide for it.
LEMMA SuStarts == SuInit => SuInv
<1> SUFFICES ASSUME SuInit PROVE SuInv
  OBVIOUS
<1>1. todo = SYS_Initialize /\ ready = {} /\ ~ie /\ ~opened /\ ~served /\ sources = {}
  BY DEF SuInit
<1>2. PICK undefined \in SUBSET Pins :
         port = [lat |-> undefined, output |-> {}, odc |-> {}, digital |-> {}, cnen |-> {},
                 cnOn |-> {}, cnIdle |-> {}, pullUp |-> {}]
  BY DEF SuInit
<1>3. SuTypeOK
  <2>1. port \in [PortRegisters -> SUBSET PortBits]
    <3>1. undefined \in SUBSET PortBits
      BY PinSets
    <3> QED
      BY <1>2, <3>1 DEF PortRegisters
  <2>2. config \in [Parts -> [Fields -> Int]]
    BY DEF SuInit, ResetConfig
  <2>3. DOMAIN reg = Registers /\ DOMAIN asked = Registers
    BY DEF SuInit, ResetRegisters
  <2>4. {ie, unlocked, saved, pgood, lastRead, seen, opened, served, unseen} \subseteq BOOLEAN
    BY DEF SuInit
  <2>5. isr = [source |-> "none", step |-> "none"]
    BY DEF SuInit
  <2> QED
    BY <1>1, <2>1, <2>2, <2>3, <2>4, <2>5, BootSeq DEF SuTypeOK
<1>4. WritesLand
  BY DEF SuInit, WritesLand
<1>5. InPhase
  <2>1. "boot" \in Phases
    BY DEF Phases
  <2>2. PhaseIs("boot")
    <3>1. ~Enabled("boot") /\ ~Opened("boot") /\ ~Key("boot")
      BY DEF Enabled, Opened, Key
    <3>2. Enabled("boot") \in BOOLEAN /\ Opened("boot") \in BOOLEAN
      BY DEF Enabled, Opened
    <3>3. ie = FALSE /\ opened = FALSE /\ saved = FALSE
      BY DEF SuInit
    <3> QED
      BY <3>1, <3>2, <3>3 DEF PhaseIs
  <2> QED
    BY <1>1, <2>1, <2>2, BootSeq DEF InPhase
<1>6. ObjectsInTime
  BY <1>1, BootSeq DEF ObjectsInTime
<1>7. port["output"] = {} /\ Steady \subseteq Pins /\ ODC \subseteq Pins /\ "BQ_PGood" \in Pins /\ "BQ_PGood" \in Digital
  BY <1>2, PinSets DEF Steady, ODC, Digital
<1>8. PinsInTime
  BY <1>1, <1>7, BootSeq DEF PinsInTime
<1>9. DrainsInTime
  BY <1>1, <1>7, BootSeq DEF DrainsInTime
<1>10. PGoodInTime
  BY <1>1, <1>7, BootSeq DEF PGoodInTime
<1>11. ConfiguredInTime
  <2>1. ASSUME NEW w \in Wanted
        PROVE  /\ Free(Misconfigures(w), todo)
               /\ \/ config[w[1]][w[2]] = w[3]
                  \/ w[2] # "on" /\ "channels" \notin ready /\ Ordered(ConfiguresAs(w), Attaching, todo)
    <3>1. Free(Touches(w), todo) /\ Free(Attaching, todo)
      BY <1>1, BootSeq
    <3>2. Free(Misconfigures(w), todo) /\ Ordered(ConfiguresAs(w), Attaching, todo)
      BY <3>1 DEF Free, Ordered, Misconfigures
    <3>3. w[2] = "on" => config[w[1]][w[2]] = w[3]
      <4>1. w[2] = "on" => w[3] = 0
        BY DEF Wanted
      <4>2. config[w[1]][w[2]] = 0
        BY WantedTypes DEF SuInit, ResetConfig
      <4> QED
        BY <4>1, <4>2
    <3> QED
      BY <1>1, <3>2, <3>3
  <2> QED
    BY <2>1 DEF ConfiguredInTime
<1>12. WatchdogsInTime
  <2>1. \A c \in ChannelIndex : /\ Free(OfKind("noSource", wdTimer[c]), todo)
                                /\ Free(OfKind("source", inputInt[c]), todo)
    BY <1>1, BootSeq
  <2>2. \A E : Ordered(E, Attaching, todo)
    <3>1. Free(Attaching, todo)
      BY <1>1, BootSeq
    <3> QED
      BY <3>1 DEF Free, Ordered
  <2> QED
    BY <1>1, <2>1, <2>2 DEF WatchdogsInTime
<1>13. DivisorInTime
  BY <1>1, BootSeq DEF DivisorInTime
<1>14. Undisturbed
  BY <1>1, BootSeq DEF Undisturbed
<1>15. LedFollows
  BY <1>1 DEF SuInit, LedFollows
<1> QED
  BY <1>3, <1>4, <1>5, <1>6, <1>8, <1>9, <1>10, <1>11, <1>12, <1>13, <1>14, <1>15 DEF SuInv

-----------------------------------------------------------------------------
(* The theorems                                                            *)

\* The invariant holds from reset on, whatever the applications call and whenever devices interrupt.
THEOREM SuInvariance == SuSpec => []SuInv
<1>1. SuInv /\ [SuNext]_suVars => SuInv'
  BY TypeStep, PhaseStep, ObjectsStep, PinsStep, DrainsStep, PGoodStep, ConfiguredStep, WatchdogsStep,
     DivisorStep, UndisturbedStep, LedStep
     DEF SuInv
<1> QED
  BY <1>1, SuStarts, PTL DEF SuSpec

\* What every state of the invariant promises; each is a property of StartUpProps.
LEMMA SuPromises ==
    ASSUME SuInv
    PROVE  /\ WritesLand /\ InterruptsAsBefore /\ IsrFindsObjects /\ OutputsQuiet /\ LedShowsPower
           /\ ChannelsAsModelled
<1>1. SuTypeOK /\ WritesLand
  BY DEF SuInv
<1>2. PICK p \in Phases : PhaseIs(p) /\ Runs(todo, p, "loop")
  BY DEF SuInv, InPhase
<1>3. "loop" \in Phases
  BY DEF Phases
<1>4. {ie, opened, served, unseen} \subseteq BOOLEAN /\ todo \in Seq(Access)
  BY <1>1 DEF SuTypeOK
<1>5. InterruptsAsBefore
  <2>1. ~opened => ~ie
    BY <1>2, <1>4 DEF PhaseIs, Phases, Enabled, Opened
  <2>2. ASSUME todo = <<>> PROVE ie
    <3>1. p = "loop"
      BY <1>2, <1>3, <2>2, RunsEmpty
    <3> QED
      BY <1>2, <3>1 DEF PhaseIs, Enabled
  <2>3. ASSUME Waiting PROVE ie
    <3>1. todo # <<>> /\ Head(todo).do = "wait"
      BY <2>3 DEF Waiting
    <3>2. PICK q \in Phases : Leads(p, Head(todo), q)
      BY <1>2, <1>3, <1>4, <3>1, RunsTail
    <3>3. Enabled(p)
      BY <3>1, <3>2 DEF Leads
    <3> QED
      BY <1>2, <3>3 DEF PhaseIs, Enabled
  <2> QED
    BY <2>1, <2>2, <2>3 DEF InterruptsAsBefore
<1>6. IsrFindsObjects
  <2>1. ASSUME isr.source # "none" PROVE {Uses[isr.source], "services"} \subseteq ready
    <3>1. opened
      BY <2>1 DEF SuInv, LedFollows
    <3>2. Objects \subseteq ready
      BY <3>1 DEF SuInv, ObjectsInTime
    <3>3. isr.source \in Sources
      BY <1>1, <2>1 DEF SuTypeOK, Sources
    <3>4. Uses[isr.source] \in Objects /\ "services" \in Objects
      BY <3>3 DEF Uses, Sources, Drivers, Objects
    <3> QED
      BY <3>2, <3>4
  <2> QED
    BY <2>1 DEF IsrFindsObjects
<1>7. OutputsQuiet
  BY DEF OutputsQuiet, SuInv, PinsInTime, DrainsInTime, Steady
<1>8. LedShowsPower
  <2>1. ASSUME served, isr.source = "none", "cn" \notin flags, ~unseen
        PROVE  "LedStatus" \in port.lat <=> ~pgood
    <3>1. isr.step # "led"
      BY <1>1, <2>1 DEF SuTypeOK
    <3>2. seen = pgood /\ ("LedStatus" \in port["lat"] <=> ~seen)
      BY <2>1, <3>1 DEF SuInv, LedFollows
    <3> QED
      BY <3>2
  <2> QED
    BY <2>1 DEF LedShowsPower
<1>9. ChannelsAsModelled
  <2> SUFFICES ASSUME "channels" \in ready
               PROVE  /\ reg["busDivisor"] * SYS_CLK_PeripheralFrequencyGet = SYS_CLK_SystemFrequencyGet
                      /\ \A q \in Parts : config[q].on = 0
                      /\ \A c \in ChannelIndex :
                            /\ wdTimer[c] \in sources /\ inputInt[c] \notin sources
                            /\ config[wdTimer[c]].priority = 7 /\ config[inputInt[c]].priority = 7
                            /\ LET watchdog == PeriodUs(config, wdTimer[c], reg["busDivisor"])
                                   carrier == PeriodUs(config, "T2", reg["busDivisor"])
                               IN 2 * carrier < watchdog /\ watchdog < 3 * carrier
    BY DEF ChannelsAsModelled
  <2>1. reg["busDivisor"] = 9
    <3>1. asked["busDivisor"] = 9
      BY DEF SuInv, DivisorInTime
    <3>2. "busDivisor" \in Registers \ RemapRegisters
      BY DEF Registers, KeyRegisters, RemapRegisters
    <3> QED
      BY <1>1, <3>1, <3>2 DEF WritesLand
  <2>2. \A w \in Wanted : config[w[1]][w[2]] = w[3]
    BY DEF SuInv, ConfiguredInTime
  <2>3. ASSUME NEW q \in Parts PROVE config[q]["on"] = 0
    <3>1. <<q, "on", 0>> \in Wanted
      BY DEF Wanted
    <3> QED
      BY <2>2, <3>1
  <2>4. ASSUME NEW q \in {"T4", "T5", "INT2", "INT3"} PROVE config[q]["priority"] = 7
    <3>1. <<q, "priority", 7>> \in Wanted
      BY DEF Wanted
    <3> QED
      BY <2>2, <3>1
  <2>5. ASSUME NEW q \in {"T4", "T5"} PROVE config[q]["prescale"] = 8 /\ config[q]["period"] = 2750
    <3>1. <<q, "prescale", 8>> \in Wanted /\ <<q, "period", 2750>> \in Wanted
      BY DEF Wanted
    <3> QED
      BY <2>2, <3>1
  <2>6. config["T2"]["prescale"] = 16 /\ config["T2"]["period"] = 500
    <3>1. <<"T2", "prescale", 16>> \in Wanted /\ <<"T2", "period", 500>> \in Wanted
      BY DEF Wanted
    <3> QED
      BY <2>2, <3>1
  <2>7. ASSUME NEW c \in ChannelIndex
        PROVE  /\ wdTimer[c] \in {"T4", "T5"} /\ inputInt[c] \in {"INT2", "INT3"}
               /\ wdTimer[c] \in sources /\ inputInt[c] \notin sources
    BY DEF SuInv, WatchdogsInTime, wdTimer, inputInt
  <2>8. ASSUME NEW c \in ChannelIndex
        PROVE  PeriodUs(config, wdTimer[c], reg["busDivisor"]) = 2751
    <3>1. config[wdTimer[c]]["prescale"] = 8 /\ config[wdTimer[c]]["period"] = 2750
      BY <2>5, <2>7
    <3>2. PeriodUs(config, wdTimer[c], reg["busDivisor"]) = ((2750 + 1) * 8 * 9) \div 72
      BY <2>1, <3>1 DEF PeriodUs, SYS_CLK_SystemFrequencyGet
    <3> QED
      BY <3>2
  <2>9. PeriodUs(config, "T2", reg["busDivisor"]) = 1002
    <3>1. PeriodUs(config, "T2", reg["busDivisor"]) = ((500 + 1) * 16 * 9) \div 72
      BY <2>1, <2>6 DEF PeriodUs, SYS_CLK_SystemFrequencyGet
    <3> QED
      BY <3>1
  <2> QED
    BY <2>1, <2>3, <2>4, <2>7, <2>8, <2>9 DEF SYS_CLK_PeripheralFrequencyGet, SYS_CLK_SystemFrequencyGet
<1> QED
  BY <1>1, <1>5, <1>6, <1>7, <1>8, <1>9

\* Every register holds what the services wrote to it: the key is held, and interrupts are off, where a
\* write needs it.
THEOREM WritesLanding == SuSpec => []WritesLand
<1>1. SuInv => WritesLand
  BY SuPromises
<1> QED
  BY <1>1, SuInvariance, PTL

\* Interrupts are off until SYS_INT_Enable, and on whenever the loop begins a pass or waits.
THEOREM InterruptsKept == SuSpec => []InterruptsAsBefore
<1>1. SuInv => InterruptsAsBefore
  BY SuPromises
<1> QED
  BY <1>1, SuInvariance, PTL

\* No interrupt routine runs before the objects it works on are initialised.
THEOREM ObjectsFound == SuSpec => []IsrFindsObjects
<1>1. SuInv => IsrFindsObjects
  BY SuPromises
<1> QED
  BY <1>1, SuInvariance, PTL

\* From reset on no laser and no reset line is driven to another level than the configured one.
THEOREM OutputsStayQuiet == SuSpec => []OutputsQuiet
<1>1. SuInv => OutputsQuiet
  BY SuPromises
<1> QED
  BY <1>1, SuInvariance, PTL

\* The LED shows the charger unless a change of the pin is pending or was missed.
THEOREM LedTrue == SuSpec => []LedShowsPower
<1>1. SuInv => LedShowsPower
  BY SuPromises
<1> QED
  BY <1>1, SuInvariance, PTL

\* After the first pass timers, compare unit, priorities and bus clock are as module Channels has them.
THEOREM ChannelsSetUp == SuSpec => []ChannelsAsModelled
<1>1. SuInv => ChannelsAsModelled
  BY SuPromises
<1> QED
  BY <1>1, SuInvariance, PTL
=============================================================================
