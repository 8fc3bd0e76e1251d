---------------------------- MODULE SwVsyncProofs ----------------------------
(***************************************************************************)
(* Theorems of SwVsync: no turn of vsync_loop divides by a rate that was    *)
(* never set, late and stale vsyncs come once at most, and timestamps keep  *)
(* their phase, for any number of callers, any periods, width of the clock  *)
(* and bounds.                                                              *)
(***************************************************************************)
EXTENDS SwVsync, TLAPS

LoopTypes ==
  loop \in [pc : {"none", "lock", "waiting", "clock", "sleep"}, ran : BOOLEAN,
            period : Nat, tp : Int, next_vsync : Int, next_fake_vsync : Int]

CallTypes ==
  call \in [Callers -> [pc : {"out", "start", "stop", "signal"}, period : Nat]]

SeenTypes ==
  seen \in [timestamp : Int, period : Nat, ticked : BOOLEAN, late : Int, stale : Int]

\* Who is about to set the rate has read a period, and the loop runs with one.
RatesSet ==
  /\ vsync_rate \in Nat /\ (vsync_loop_active => vsync_rate \in Periods)
  /\ \A c \in Callers : call[c].pc \in {"start", "stop"} => call[c].period \in Periods
  /\ loop.pc \in {"clock", "sleep"} => loop.period \in Periods

Typed ==
  /\ time \in Nat /\ vsync_loop_active \in BOOLEAN
  /\ uevents \in Seq(Nat)
  /\ LoopTypes /\ CallTypes /\ SeenTypes /\ RatesSet

\* A vsync that came after the stop is the last one: the loop goes to wait.
LateInv ==
  /\ seen.late \in {0, 1}
  /\ seen.late = 1 => ~vsync_loop_active /\ loop.pc \in {"lock", "waiting"}

\* A vsync with the old period is the last one with it.
StaleInv ==
  /\ seen.stale \in {0, 1}
  /\ seen.stale = 1 => loop.pc \in {"lock", "waiting"} \/ loop.period = vsync_rate

VsyncInv == Typed /\ LateInv /\ StaleInv

-----------------------------------------------------------------------------
\* What is left of a number without its remainder is a number of periods.
LEMMA WholePeriods ==
  ASSUME NEW p \in Nat \ {0}, NEW d \in Int
  PROVE  (d - (d % p) + p) % p = 0
  OBVIOUS

\* However late the loop is and whatever the clock says, the next vsync comes a whole
\* number of periods after the one that was planned.
LEMMA NextInPhase ==
  ASSUME NEW now \in Int, NEW next \in Int, NEW period \in Nat \ {0}
  PROVE  /\ NextVsync(now, next, period) \in Int
         /\ NextVsync(now, next, period) - next >= 0
         /\ (NextVsync(now, next, period) - next) % period = 0
<1>1. CASE next - now < 0
  <2> DEFINE d == now - next
  <2>1. d \in Int /\ d % period \in 0 .. period - 1 /\ d >= 0
    BY <1>1
  <2>2. (d - (d % period) + period) % period = 0
    BY <2>1, WholePeriods
  <2>3. NextVsync(now, next, period) = now + period - (d % period)
    BY <1>1 DEF NextVsync
  <2> HIDE DEF d
  <2>4. now = next + d
    BY <2>1 DEF d
  <2>5. NextVsync(now, next, period) - next = d - (d % period) + period
    BY <2>1, <2>3, <2>4
  <2> QED
    BY <2>1, <2>2, <2>3, <2>5
<1>2. CASE ~(next - now < 0)
  <2>1. NextVsync(now, next, period) = next
    BY <1>2 DEF NextVsync
  <2>2. 0 % period = 0
    OBVIOUS
  <2> QED
    BY <2>1, <2>2
<1> QED
  BY <1>1, <1>2

LEMMA WrappedIsInt ==
  ASSUME NEW t \in Nat
  PROVE  Wrapped(t) \in Int
<1>1. Word \in Nat /\ Word > 1 /\ Word \div 2 \in Int
  BY WordAssumption
<1>2. (t + Word \div 2) % Word \in Int
  BY <1>1
<1> QED
  BY <1>1, <1>2 DEF Wrapped

\* The next vsync is a number, whatever was planned and however the clock wrapped.
LEMMA NextVsyncIsInt ==
  ASSUME NEW t \in Nat, NEW next \in Int, NEW period \in Periods
  PROVE  NextVsync(Wrapped(t), next, period) \in Int
  BY WrappedIsInt, NextInPhase, PeriodsAssumption

LEMMA InitTyped == Init => VsyncInv
<1> SUFFICES ASSUME Init PROVE VsyncInv  OBVIOUS
<1>1. time \in Nat  BY BoundsAssumption DEF Init
<1>2. LoopTypes  BY DEF Init, LoopTypes
<1>3. CallTypes /\ SeenTypes  BY DEF Init, CallTypes, SeenTypes
<1>4. RatesSet
  <2>1. loop.pc \in {"lock", "none"}  BY DEF Init
  <2>2. \A c \in Callers : call[c].pc = "out"  BY DEF Init
  <2> QED  BY <2>1, <2>2 DEF Init, RatesSet
<1>5. uevents \in Seq(Nat)
  <2>1. << >> \in Seq(Nat)  OBVIOUS
  <2> QED  BY <2>1 DEF Init
<1>7. vsync_loop_active \in BOOLEAN  BY DEF Init
<1>6. LateInv /\ StaleInv  BY DEF Init, LateInv, StaleInv
<1> QED  BY <1>1, <1>2, <1>3, <1>4, <1>5, <1>6, <1>7 DEF VsyncInv, Typed

LEMMA NextTyped == ASSUME Typed, [Next]_vars PROVE Typed'
<1> USE DEF Typed
<1>1. CASE UNCHANGED vars
  BY <1>1 DEF vars, control, LoopTypes, CallTypes, SeenTypes, RatesSet
<1>2. ASSUME NEW c \in Callers, Begin(c) PROVE Typed'
  <2>1. UNCHANGED <<time, uevents, vsync_loop_active, vsync_rate, loop, seen>>
    BY <1>2 DEF Begin
  <2>2. CallTypes' /\ \A d \in Callers :
          (call[d].pc \in {"start", "stop"} => call[d].period \in Periods)'
    <3>1. CASE UNCHANGED call  BY <3>1 DEF CallTypes, RatesSet
    <3>2. CASE ~ UNCHANGED call
      <4>1. PICK p \in Periods, on \in {"start", "stop"} :
              call' = [call EXCEPT ![c] = [pc |-> on, period |-> p]]
        BY <1>2, <3>2 DEF Begin
      <4>2. p \in Nat  BY PeriodsAssumption
      <4> QED  BY <4>1, <4>2 DEF CallTypes, RatesSet
    <3> QED  BY <3>1, <3>2
  <2> QED  BY <2>1, <2>2 DEF LoopTypes, SeenTypes, RatesSet
<1>3. ASSUME NEW c \in Callers, Start(c) PROVE Typed'
  <2>1. call[c].period \in Periods /\ vsync_rate' \in Periods /\ vsync_rate' \in Nat
    BY <1>3, PeriodsAssumption DEF Start, RatesSet, CallTypes
  <2>2. CallTypes' /\ \A d \in Callers :
          (call[d].pc \in {"start", "stop"} => call[d].period \in Periods)'
    BY <1>3 DEF Start, CallTypes, RatesSet
  <2>3. SeenTypes'
    <3> DEFINE ticked == seen.ticked /\ vsync_loop_active
               stale == IF call[c].period = vsync_rate THEN seen.stale ELSE 0
    <3>1. ticked \in BOOLEAN /\ stale \in Int  BY DEF SeenTypes
    <3>2. seen' = [seen EXCEPT !.ticked = ticked, !.late = 0, !.stale = stale]
      BY <1>3 DEF Start
    <3> HIDE DEF ticked, stale
    <3>3. 0 \in Int  OBVIOUS
    <3> QED  BY <3>1, <3>2, <3>3 DEF SeenTypes
  <2> QED  BY <1>3, <2>1, <2>2, <2>3 DEF Start, control, LoopTypes, RatesSet
<1>4. ASSUME NEW c \in Callers, Stop(c) PROVE Typed'
  <2>1. CallTypes' /\ \A d \in Callers :
          (call[d].pc \in {"start", "stop"} => call[d].period \in Periods)'
    BY <1>4 DEF Stop, CallTypes, RatesSet
  <2> QED  BY <1>4, <2>1 DEF Stop, control, LoopTypes, SeenTypes, RatesSet
<1>5. ASSUME NEW c \in Callers, Signal(c) PROVE Typed'
  <2>1. CallTypes' /\ \A d \in Callers :
          (call[d].pc \in {"start", "stop"} => call[d].period \in Periods)'
    BY <1>5 DEF Signal, CallTypes, RatesSet
  <2>2. LoopTypes' /\ (loop.pc \in {"clock", "sleep"} => loop.period \in Periods)'
    BY <1>5 DEF Signal, LoopTypes, RatesSet
  <2> QED  BY <1>5, <2>1, <2>2 DEF Signal, control, SeenTypes, RatesSet
<1>6. CASE ReadRate
  <2>1. LoopTypes' /\ (loop.pc \in {"clock", "sleep"} => loop.period \in Periods)'
    <3>1. CASE RunsOn
      <4>1. loop' = [loop EXCEPT !.pc = "clock", !.period = vsync_rate, !.ran = TRUE]
        BY <1>6, <3>1 DEF ReadRate, Reread
      <4>2. vsync_rate \in Periods /\ vsync_rate \in Nat  BY <3>1 DEF RunsOn, RatesSet
      <4> QED  BY <4>1, <4>2 DEF LoopTypes
    <3>2. CASE ~RunsOn
      <4>1. loop' = [loop EXCEPT !.pc = "waiting", !.ran = FALSE]
        BY <1>6, <3>2 DEF ReadRate
      <4> QED  BY <4>1 DEF LoopTypes
    <3> QED  BY <3>1, <3>2
  <2> QED  BY <1>6, <2>1 DEF ReadRate, control, CallTypes, SeenTypes, RatesSet
<1>7. CASE WokenForNothing
  <2>1. LoopTypes' /\ (loop.pc \in {"clock", "sleep"} => loop.period \in Periods)'
    BY <1>7 DEF WokenForNothing, LoopTypes, RatesSet
  <2> QED  BY <1>7, <2>1 DEF WokenForNothing, control, CallTypes, SeenTypes, RatesSet
<1>8. CASE Compute
  <2> DEFINE next == NextVsync(Wrapped(time), loop.next_fake_vsync, loop.period)
  <2>1. loop.period \in Periods /\ loop.period \in Nat /\ loop.next_fake_vsync \in Int
    BY <1>8 DEF Compute, LoopTypes, RatesSet
  <2>2. next \in Int  BY <2>1, NextVsyncIsInt
  <2>3. loop' = [loop EXCEPT !.pc = "sleep", !.tp = time, !.next_vsync = next,
                             !.next_fake_vsync = next + loop.period]
    BY <1>8 DEF Compute
  <2> HIDE DEF next
  <2>4. next + loop.period \in Int /\ time \in Int  BY <2>1, <2>2
  <2>5. LoopTypes'  BY <2>2, <2>3, <2>4 DEF LoopTypes
  <2>6. loop'.period = loop.period  BY <2>3 DEF LoopTypes
  <2> QED  BY <1>8, <2>1, <2>5, <2>6 DEF Compute, control, CallTypes, SeenTypes, RatesSet
<1>9. CASE Callback
  <2>1. LoopTypes' /\ (loop.pc \in {"clock", "sleep"} => loop.period \in Periods)'
    BY <1>9 DEF Callback, LoopTypes, RatesSet
  <2>2. SeenTypes'
    <3>1. CASE UNCHANGED seen  BY <3>1 DEF SeenTypes
    <3>2. CASE seen' = Shown(loop.next_vsync)
      <4> DEFINE late == IF vsync_loop_active THEN 0 ELSE seen.late + 1
                 stale == IF loop.period = vsync_rate THEN seen.stale ELSE seen.stale + 1
      <4>1. late \in Int /\ stale \in Int /\ loop.next_vsync \in Int /\ loop.period \in Nat
        BY DEF SeenTypes, LoopTypes
      <4>2. seen' = [seen EXCEPT !.timestamp = loop.next_vsync, !.period = loop.period,
                                 !.ticked = TRUE, !.late = late, !.stale = stale]
        BY <3>2 DEF Shown
      <4> HIDE DEF late, stale
      <4> QED  BY <4>1, <4>2 DEF SeenTypes
    <3> QED  BY <1>9, <3>1, <3>2 DEF Callback
  <2> QED  BY <1>9, <2>1, <2>2 DEF Callback, control, CallTypes, RatesSet
<1>10. CASE Uevent
  BY <1>10 DEF Uevent, LoopTypes, CallTypes, SeenTypes, RatesSet
<1>11. CASE HandleUevent
  <2>1. Head(uevents) \in Nat /\ Tail(uevents) \in Seq(Nat)  BY <1>11 DEF HandleUevent
  <2>2. SeenTypes'  BY <1>11, <2>1 DEF HandleUevent, SeenTypes
  <2> QED  BY <1>11, <2>1, <2>2 DEF HandleUevent, LoopTypes, CallTypes, RatesSet
<1>12. CASE RegisterProcs
  BY <1>12 DEF RegisterProcs, LoopTypes, CallTypes, SeenTypes, RatesSet
<1>13. CASE Tick
  BY <1>13 DEF Tick, control, LoopTypes, CallTypes, SeenTypes, RatesSet
<1> QED
  BY <1>1, <1>2, <1>3, <1>4, <1>5, <1>6, <1>7, <1>8, <1>9, <1>10, <1>11, <1>12, <1>13
     DEF Next, Loop

LEMMA NextLate == ASSUME Typed, LateInv, [Next]_vars PROVE LateInv'
<1> USE DEF Typed, LateInv
<1>1. CASE UNCHANGED vars  BY <1>1 DEF vars, control
<1>2. ASSUME NEW c \in Callers, Begin(c) PROVE LateInv'  BY <1>2 DEF Begin
<1>3. ASSUME NEW c \in Callers, Start(c) PROVE LateInv'
  <2>1. seen'.late = 0  BY <1>3 DEF Start, SeenTypes
  <2> QED  BY <2>1
<1>4. ASSUME NEW c \in Callers, Stop(c) PROVE LateInv'  BY <1>4 DEF Stop
<1>5. ASSUME NEW c \in Callers, Signal(c) PROVE LateInv'  BY <1>5 DEF Signal, LoopTypes
<1>6. CASE ReadRate  BY <1>6 DEF ReadRate, RunsOn, Reread, LoopTypes
<1>7. CASE WokenForNothing  BY <1>7 DEF WokenForNothing, LoopTypes
<1>8. CASE Compute
  <2>1. seen.late = 0  BY <1>8 DEF Compute
  <2> QED  BY <1>8, <2>1 DEF Compute
<1>9. CASE Callback
  <2>1. seen.late = 0 /\ loop'.pc = "lock" /\ UNCHANGED vsync_loop_active
    BY <1>9 DEF Callback, LoopTypes
  <2>2. seen'.late = 0 \/ (seen'.late = 1 /\ ~vsync_loop_active)
    <3>1. CASE UNCHANGED seen  BY <2>1, <3>1
    <3>2. CASE seen' = Shown(loop.next_vsync)
      <4>1. seen'.late = IF vsync_loop_active THEN 0 ELSE seen.late + 1
        BY <3>2 DEF Shown, SeenTypes
      <4> QED  BY <2>1, <4>1
    <3> QED  BY <1>9, <3>1, <3>2 DEF Callback
  <2> QED  BY <2>1, <2>2
<1>10. CASE Uevent  BY <1>10 DEF Uevent
<1>11. CASE HandleUevent
  <2>1. seen'.late = seen.late  BY <1>11 DEF HandleUevent, SeenTypes
  <2> QED  BY <1>11, <2>1 DEF HandleUevent
<1>12. CASE RegisterProcs  BY <1>12 DEF RegisterProcs
<1>13. CASE Tick  BY <1>13 DEF Tick
<1> QED
  BY <1>1, <1>2, <1>3, <1>4, <1>5, <1>6, <1>7, <1>8, <1>9, <1>10, <1>11, <1>12, <1>13
     DEF Next, Loop

LEMMA NextStale == ASSUME Typed, StaleInv, [Next]_vars PROVE StaleInv'
<1> USE DEF Typed, StaleInv
<1>1. CASE UNCHANGED vars  BY <1>1 DEF vars, control
<1>2. ASSUME NEW c \in Callers, Begin(c) PROVE StaleInv'  BY <1>2 DEF Begin
<1>3. ASSUME NEW c \in Callers, Start(c) PROVE StaleInv'
  <2>1. CASE call[c].period = vsync_rate
    <3>1. seen'.stale = seen.stale /\ UNCHANGED <<loop, vsync_rate>>
      BY <1>3, <2>1 DEF Start, SeenTypes
    <3> QED  BY <3>1
  <2>2. CASE call[c].period # vsync_rate
    <3>1. seen'.stale = 0  BY <1>3, <2>2 DEF Start, SeenTypes
    <3> QED  BY <3>1
  <2> QED  BY <2>1, <2>2
<1>4. ASSUME NEW c \in Callers, Stop(c) PROVE StaleInv'  BY <1>4 DEF Stop
<1>5. ASSUME NEW c \in Callers, Signal(c) PROVE StaleInv'  BY <1>5 DEF Signal, LoopTypes
<1>6. CASE ReadRate  BY <1>6 DEF ReadRate, RunsOn, Reread, LoopTypes
<1>7. CASE WokenForNothing  BY <1>7 DEF WokenForNothing, LoopTypes
<1>8. CASE Compute
  <2>1. loop'.period = loop.period  BY <1>8 DEF Compute, LoopTypes
  <2> QED  BY <1>8, <2>1 DEF Compute
<1>9. CASE Callback
  <2>1. loop.pc = "sleep" /\ loop'.pc = "lock"  BY <1>9 DEF Callback, LoopTypes
  <2>2. seen'.stale \in {0, 1}  BY <1>9, <2>1 DEF Callback, Shown, SeenTypes
  <2> QED  BY <2>1, <2>2
<1>10. CASE Uevent  BY <1>10 DEF Uevent
<1>11. CASE HandleUevent
  <2>1. seen'.stale = seen.stale  BY <1>11 DEF HandleUevent, SeenTypes
  <2> QED  BY <1>11, <2>1 DEF HandleUevent
<1>12. CASE RegisterProcs  BY <1>12 DEF RegisterProcs
<1>13. CASE Tick  BY <1>13 DEF Tick
<1> QED
  BY <1>1, <1>2, <1>3, <1>4, <1>5, <1>6, <1>7, <1>8, <1>9, <1>10, <1>11, <1>12, <1>13
     DEF Next, Loop

\* The invariant all the theorems rest on: it is true at first and every step of a
\* caller, of vsync_loop, of the event thread and of time keeps it.
THEOREM VsyncInvariant == Spec => []VsyncInv
<1>1. VsyncInv /\ [Next]_vars => VsyncInv'
  BY NextTyped, NextLate, NextStale DEF VsyncInv
<1> QED  BY <1>1, InitTyped, PTL DEF Spec

\* vsync_loop divides by its period only when that is one start_sw_vsync has set,
\* although vsync_rate is 0 until then and stop_sw_vsync may come at any point.
THEOREM DividesByAPeriod == Spec => [](loop.pc = "clock" => loop.period > 0)
<1>1. VsyncInv => (loop.pc = "clock" => loop.period > 0)
  <2> SUFFICES ASSUME VsyncInv, loop.pc = "clock" PROVE loop.period > 0  OBVIOUS
  <2>1. loop.period \in Periods  BY DEF VsyncInv, Typed, RatesSet
  <2>2. loop.period \in Nat \ {0}  BY <2>1, PeriodsAssumption
  <2> QED  BY <2>2
<1> QED  BY <1>1, VsyncInvariant, PTL

\* One vsync at most comes after stop_sw_vsync: when it has come the loop is before
\* its mutex with the flag cleared, and only start_sw_vsync lets it go on.
THEOREM LateOnce == Spec => []OneLateVsync
<1>1. VsyncInv => OneLateVsync  BY DEF VsyncInv, LateInv, OneLateVsync
<1> QED  BY <1>1, VsyncInvariant, PTL

\* One vsync at most comes with the old rate: when it has come the loop is before
\* the place where it reads the rate again.
THEOREM StaleOnce == Spec => []OneStaleVsync
<1>1. VsyncInv => OneStaleVsync  BY DEF VsyncInv, StaleInv, OneStaleVsync
<1> QED  BY <1>1, VsyncInvariant, PTL

-----------------------------------------------------------------------------
(* The phase of the vsyncs.                                                *)

\* The vsync that is due: the last one seen and the period it came with.
Due == seen.timestamp + seen.period

\* The thread's next vsync is the one due, or, once it has looked at the clock, some
\* periods later.
SwPhase ==
  use_sw_vsync =>
    /\ ~kernel_vsync /\ uevents = <<>> /\ loop.pc # "none"
    /\ loop.pc = "sleep" => loop.next_fake_vsync = loop.next_vsync + loop.period
    /\ seen.timestamp >= 0 =>
         /\ procs
         /\ loop.pc \in {"lock", "waiting", "clock"} => loop.next_fake_vsync = Due
         /\ loop.pc = "sleep" =>
              loop.next_vsync - Due >= 0 /\ (loop.next_vsync - Due) % loop.period = 0

\* The kernel's timestamps ascend in the queue, from the last one seen to the clock.
KernelPhase ==
  ~use_sw_vsync =>
    /\ loop.pc = "none" /\ \A c \in Callers : call[c].pc = "out"
    /\ seen.period = 0 /\ seen.timestamp < time
    /\ \A k \in 1 .. Len(uevents) : seen.timestamp < uevents[k] /\ uevents[k] < time
    /\ \A j, k \in 1 .. Len(uevents) : j < k => uevents[j] < uevents[k]

PhaseInv == use_sw_vsync \in BOOLEAN /\ SwPhase /\ KernelPhase

LEMMA InitPhase == Init => PhaseInv
<1> SUFFICES ASSUME Init
             PROVE  PhaseInv
  OBVIOUS
<1>1. use_sw_vsync \in BOOLEAN /\ time \in Nat
  BY BoundsAssumption DEF Init
<1>2. loop.pc = IF use_sw_vsync THEN "lock" ELSE "none"
  BY DEF Init
<1>3. uevents = <<>> /\ ~kernel_vsync /\ seen.timestamp = -1 /\ seen.period = 0
  BY DEF Init
<1>4. \A c \in Callers : call[c].pc = "out"
  BY DEF Init
<1>5. SwPhase
  BY <1>1, <1>2, <1>3 DEF SwPhase
<1>6. KernelPhase
  BY <1>1, <1>2, <1>3, <1>4 DEF KernelPhase
<1> QED
  BY <1>1, <1>5, <1>6 DEF PhaseInv

\* The thread's phase is kept by its own turns, a signal and what the kernel does not do.
LEMMA NextSwPhase ==
  ASSUME Typed, Typed', PhaseInv, use_sw_vsync, [Next]_vars
  PROVE  SwPhase'
<1>1. /\ ~kernel_vsync /\ uevents = <<>> /\ loop.pc # "none"
      /\ loop.pc = "sleep" => loop.next_fake_vsync = loop.next_vsync + loop.period
  BY DEF PhaseInv, SwPhase
<1>2. ASSUME seen.timestamp >= 0
      PROVE  /\ procs
             /\ loop.pc \in {"lock", "waiting", "clock"} => loop.next_fake_vsync = Due
             /\ loop.pc = "sleep" =>
                  loop.next_vsync - Due >= 0 /\ (loop.next_vsync - Due) % loop.period = 0
  BY <1>2 DEF PhaseInv, SwPhase
<1>3. LoopTypes /\ SeenTypes
  BY DEF Typed
<1>4. CASE UNCHANGED <<loop, seen.timestamp, seen.period, procs, kernel_vsync, uevents>>
  BY <1>1, <1>2, <1>4 DEF SwPhase, Due
<1>5. CASE UNCHANGED vars \/ RegisterProcs \/ Tick \/ \E c \in Callers : Begin(c) \/ Stop(c)
  <2>1. UNCHANGED <<loop, seen, kernel_vsync, uevents>> /\ procs' \in {procs, TRUE}
    <3>1. CASE UNCHANGED vars \/ RegisterProcs \/ Tick
      BY <3>1 DEF vars, control, RegisterProcs, Tick
    <3>2. CASE \E c \in Callers : Begin(c) \/ Stop(c)
      BY <3>2 DEF control, Begin, Stop
    <3> QED
      BY <1>5, <3>1, <3>2
  <2> QED
    BY <1>1, <1>2, <2>1 DEF SwPhase, Due
<1>6. ASSUME NEW c \in Callers, Start(c)
      PROVE  SwPhase'
  <2>1. seen'.timestamp = seen.timestamp /\ seen'.period = seen.period
    BY <1>3, <1>6 DEF Start, SeenTypes
  <2> QED
    BY <1>4, <1>6, <2>1 DEF Start, control
<1>7. ASSUME NEW c \in Callers, Signal(c)
      PROVE  SwPhase'
  <2>1. UNCHANGED <<seen, procs, kernel_vsync, uevents>>
    BY <1>7 DEF Signal, control
  <2>2. /\ loop'.pc = IF loop.pc = "waiting" THEN "lock" ELSE loop.pc
        /\ loop'.next_vsync = loop.next_vsync /\ loop'.next_fake_vsync = loop.next_fake_vsync
        /\ loop'.period = loop.period
    BY <1>3, <1>7 DEF Signal, LoopTypes
  <2> QED
    BY <1>1, <1>2, <2>1, <2>2 DEF SwPhase, Due
<1>8. CASE ReadRate \/ WokenForNothing
  <2>1. UNCHANGED <<seen, procs, kernel_vsync, uevents>>
    BY <1>8 DEF ReadRate, WokenForNothing, control
  <2>2. /\ loop.pc \in {"lock", "waiting"} /\ loop'.pc \in {"lock", "waiting", "clock"}
        /\ loop'.next_fake_vsync = loop.next_fake_vsync
    BY <1>3, <1>8 DEF ReadRate, WokenForNothing, LoopTypes
  <2> QED
    BY <1>1, <1>2, <2>1, <2>2 DEF SwPhase, Due
<1>9. CASE Compute
  <2> DEFINE next == NextVsync(Wrapped(time), loop.next_fake_vsync, loop.period)
  <2>1. loop.period \in Nat \ {0} /\ loop.next_fake_vsync \in Int /\ time \in Nat
    BY <1>3, <1>9, PeriodsAssumption DEF Compute, LoopTypes, Typed, RatesSet
  <2>2. /\ next \in Int /\ next - loop.next_fake_vsync >= 0
        /\ (next - loop.next_fake_vsync) % loop.period = 0
    BY <2>1, WrappedIsInt, NextInPhase
  <2>3. loop' = [loop EXCEPT !.pc = "sleep", !.tp = time, !.next_vsync = next,
                             !.next_fake_vsync = next + loop.period]
    BY <1>9 DEF Compute
  <2> HIDE DEF next
  <2>4. /\ loop'.pc = "sleep" /\ loop'.next_vsync = next /\ loop'.period = loop.period
        /\ loop'.next_fake_vsync = next + loop.period
    BY <1>3, <2>3 DEF LoopTypes
  <2>5. loop.pc = "clock" /\ UNCHANGED <<seen, procs, kernel_vsync, uevents>>
    BY <1>9 DEF Compute, control
  <2>6. ASSUME seen.timestamp >= 0
        PROVE  /\ procs /\ loop'.next_vsync - Due >= 0
               /\ (loop'.next_vsync - Due) % loop'.period = 0
    BY <1>2, <2>2, <2>4, <2>5, <2>6
  <2> QED
    BY <1>1, <2>4, <2>5, <2>6 DEF SwPhase, Due
<1>10. CASE Callback
  <2>1. /\ loop.pc = "sleep" /\ UNCHANGED <<procs, kernel_vsync, uevents>>
        /\ loop'.pc = "lock" /\ loop'.next_fake_vsync = loop.next_fake_vsync
    BY <1>3, <1>10 DEF Callback, control, LoopTypes
  <2>2. CASE procs
    <3>1. seen'.timestamp = loop.next_vsync /\ seen'.period = loop.period
      BY <1>3, <1>10, <2>2 DEF Callback, Shown, SeenTypes
    <3> QED
      BY <1>1, <2>1, <2>2, <3>1 DEF SwPhase, Due
  <2>3. CASE ~procs
    <3>1. seen' = seen
      BY <1>10, <2>3 DEF Callback
    <3>2. ~(seen'.timestamp >= 0)
      BY <1>2, <2>3, <3>1
    <3> QED
      BY <1>1, <2>1, <3>2 DEF SwPhase
  <2> QED
    BY <2>2, <2>3
<1>11. ~Uevent /\ ~HandleUevent
  BY <1>1 DEF Uevent, HandleUevent
<1> QED
  BY <1>5, <1>6, <1>7, <1>8, <1>9, <1>10, <1>11 DEF Next, Loop

\* The kernel's timestamps stay in order when one is queued and when one is read.
LEMMA NextKernelPhase ==
  ASSUME Typed, Typed', PhaseInv, ~use_sw_vsync, [Next]_vars
  PROVE  KernelPhase'
<1>1. /\ loop.pc = "none" /\ \A c \in Callers : call[c].pc = "out"
      /\ seen.period = 0 /\ seen.timestamp < time
      /\ \A k \in 1 .. Len(uevents) : seen.timestamp < uevents[k] /\ uevents[k] < time
      /\ \A j, k \in 1 .. Len(uevents) : j < k => uevents[j] < uevents[k]
  BY DEF PhaseInv, KernelPhase
<1>2. /\ time \in Nat /\ uevents \in Seq(Nat) /\ seen.timestamp \in Int
      /\ SeenTypes
  BY DEF Typed, SeenTypes
<1>3. CASE UNCHANGED vars \/ RegisterProcs \/ Tick \/ \E c \in Callers : Begin(c)
  <2>1. UNCHANGED <<loop, seen, uevents, call>> /\ time' \in {time, time + 1}
    <3>1. CASE UNCHANGED vars \/ RegisterProcs \/ Tick
      BY <3>1 DEF vars, control, RegisterProcs, Tick
    <3>2. CASE \E c \in Callers : Begin(c)
      BY <3>2 DEF Begin
    <3> QED
      BY <1>3, <3>1, <3>2
  <2>2. \A n \in Int : n < time => n < time'
    BY <1>2, <2>1
  <2>3. \A k \in 1 .. Len(uevents) : uevents[k] \in Int
    BY <1>2
  <2> QED
    BY <1>1, <1>2, <2>1, <2>2, <2>3 DEF KernelPhase
<1>4. CASE Uevent
  <2>1. /\ UNCHANGED <<loop, seen, call>> /\ time' = time + 1
        /\ uevents' = Append(uevents, time)
    BY <1>4 DEF Uevent
  <2>2. /\ Len(uevents) \in Nat /\ Len(uevents') = Len(uevents) + 1
        /\ \A k \in 1 .. Len(uevents) : uevents'[k] = uevents[k] /\ uevents[k] \in Nat
        /\ uevents'[Len(uevents) + 1] = time
    BY <1>2, <2>1
  <2>3. seen'.timestamp < time'
    BY <1>1, <1>2, <2>1
  <2>4. ASSUME NEW k \in 1 .. Len(uevents')
        PROVE  seen'.timestamp < uevents'[k] /\ uevents'[k] < time'
    <3>1. CASE k \in 1 .. Len(uevents)
      BY <1>1, <1>2, <2>1, <2>2, <3>1
    <3>2. CASE k = Len(uevents) + 1
      BY <1>1, <1>2, <2>1, <2>2, <3>2
    <3> QED
      BY <2>2, <3>1, <3>2
  <2>5. ASSUME NEW j \in 1 .. Len(uevents'), NEW k \in 1 .. Len(uevents'), j < k
        PROVE  uevents'[j] < uevents'[k]
    <3>1. j \in 1 .. Len(uevents)
      BY <2>2, <2>5
    <3>2. CASE k \in 1 .. Len(uevents)
      BY <1>1, <2>2, <2>5, <3>1, <3>2
    <3>3. CASE k = Len(uevents) + 1
      BY <1>1, <2>2, <3>1, <3>3
    <3> QED
      BY <2>2, <3>2, <3>3
  <2> QED
    BY <1>1, <2>1, <2>3, <2>4, <2>5 DEF KernelPhase
<1>5. CASE HandleUevent
  <2>1. /\ UNCHANGED <<time, loop, call>> /\ uevents # <<>> /\ uevents' = Tail(uevents)
    BY <1>5 DEF HandleUevent
  <2>2. /\ Len(uevents) \in Nat \ {0} /\ Len(uevents') = Len(uevents) - 1
        /\ \A k \in 1 .. Len(uevents') : uevents'[k] = uevents[k + 1]
        /\ \A k \in 1 .. Len(uevents) : uevents[k] \in Nat
        /\ Head(uevents) = uevents[1]
    BY <1>2, <2>1
  <2>3. seen'.period = 0 /\ seen'.timestamp \in {seen.timestamp, uevents[1]}
    BY <1>1, <1>2, <1>5, <2>2 DEF HandleUevent, SeenTypes
  <2>4. 1 \in 1 .. Len(uevents)
    BY <2>2
  <2>5. seen'.timestamp < time'
    BY <1>1, <2>1, <2>3, <2>4
  <2>6. ASSUME NEW k \in 1 .. Len(uevents')
        PROVE  seen'.timestamp < uevents'[k] /\ uevents'[k] < time'
    <3>1. k + 1 \in 1 .. Len(uevents) /\ 1 < k + 1
      BY <2>2
    <3>2. uevents'[k] = uevents[k + 1]
      BY <2>2
    <3>3. uevents[1] < uevents[k + 1] /\ seen.timestamp < uevents[k + 1] /\ uevents[k + 1] < time
      BY <1>1, <2>4, <3>1
    <3> QED
      BY <2>1, <2>3, <3>2, <3>3
  <2>7. ASSUME NEW j \in 1 .. Len(uevents'), NEW k \in 1 .. Len(uevents'), j < k
        PROVE  uevents'[j] < uevents'[k]
    <3>1. j + 1 \in 1 .. Len(uevents) /\ k + 1 \in 1 .. Len(uevents) /\ j + 1 < k + 1
      BY <2>2, <2>7
    <3>2. uevents'[j] = uevents[j + 1] /\ uevents'[k] = uevents[k + 1]
      BY <2>2
    <3> QED
      BY <1>1, <3>1, <3>2
  <2> QED
    BY <1>1, <2>1, <2>3, <2>5, <2>6, <2>7 DEF KernelPhase
<1>6. \A c \in Callers : ~Start(c) /\ ~Stop(c) /\ ~Signal(c)
  BY <1>1 DEF Start, Stop, Signal
<1>7. ~Loop /\ ~WokenForNothing
  BY <1>1 DEF Loop, ReadRate, Compute, Callback, WokenForNothing
<1> QED
  BY <1>3, <1>4, <1>5, <1>6, <1>7 DEF Next

LEMMA NextPhase ==
  ASSUME Typed, Typed', PhaseInv, [Next]_vars
  PROVE  PhaseInv'
<1>1. use_sw_vsync' = use_sw_vsync
  BY DEF Next, Loop, vars, control, Begin, Start, Stop, Signal, ReadRate, WokenForNothing,
         Compute, Callback, Uevent, HandleUevent, RegisterProcs, Tick
<1>2. CASE use_sw_vsync
  <2>1. SwPhase'
    BY <1>2, NextSwPhase
  <2>2. KernelPhase'
    BY <1>1, <1>2 DEF KernelPhase
  <2> QED
    BY <1>1, <2>1, <2>2 DEF PhaseInv
<1>3. CASE ~use_sw_vsync
  <2>1. KernelPhase'
    BY <1>3, NextKernelPhase
  <2>2. SwPhase'
    BY <1>1, <1>3 DEF SwPhase
  <2> QED
    BY <1>1, <2>1, <2>2 DEF PhaseInv
<1> QED
  BY <1>2, <1>3 DEF PhaseInv

\* What one step may do to the last timestamp, the body of VsyncsInPhase.
InPhase ==
  seen.timestamp >= 0 /\ seen'.timestamp # seen.timestamp =>
    LET later == seen'.timestamp - seen.timestamp - seen.period IN
    /\ later >= 0
    /\ use_sw_vsync => later % seen'.period = 0

LEMMA StepInPhase ==
  ASSUME Typed, Typed', PhaseInv, [Next]_vars
  PROVE  InPhase
<1> SUFFICES ASSUME seen.timestamp >= 0, seen'.timestamp # seen.timestamp
             PROVE  LET later == seen'.timestamp - seen.timestamp - seen.period IN
                    /\ later >= 0
                    /\ use_sw_vsync => later % seen'.period = 0
  BY DEF InPhase
<1>1. LoopTypes /\ SeenTypes /\ uevents \in Seq(Nat)
  BY DEF Typed
<1>2. \A c \in Callers : ~Start(c)
  BY <1>1 DEF Start, SeenTypes
<1>3. Callback \/ HandleUevent
  BY <1>2 DEF Next, Loop, vars, Begin, Stop, Signal, ReadRate, WokenForNothing, Compute,
              Uevent, RegisterProcs, Tick
<1>4. CASE Callback
  <2>1. loop.pc = "sleep" /\ procs
    BY <1>4 DEF Callback
  <2>2. seen'.timestamp = loop.next_vsync /\ seen'.period = loop.period
    BY <1>1, <1>4, <2>1 DEF Callback, Shown, SeenTypes
  <2>3. use_sw_vsync
    BY <2>1 DEF PhaseInv, KernelPhase
  <2>4. loop.next_vsync - Due >= 0 /\ (loop.next_vsync - Due) % loop.period = 0
    BY <2>1, <2>3 DEF PhaseInv, SwPhase
  <2>5. loop.next_vsync - seen.timestamp - seen.period = loop.next_vsync - Due
    BY <1>1 DEF LoopTypes, SeenTypes, Due
  <2> QED
    BY <2>2, <2>4, <2>5
<1>5. CASE HandleUevent
  <2>1. uevents # <<>> /\ seen' = [seen EXCEPT !.timestamp = Head(uevents)]
    BY <1>5 DEF HandleUevent
  <2>2. Head(uevents) = uevents[1] /\ 1 \in 1 .. Len(uevents) /\ uevents[1] \in Nat
    BY <1>1, <2>1
  <2>3. seen'.timestamp = uevents[1]
    BY <1>1, <2>1, <2>2 DEF SeenTypes
  <2>4. ~use_sw_vsync
    BY <2>1 DEF PhaseInv, SwPhase
  <2>5. seen.period = 0 /\ seen.timestamp < uevents[1]
    BY <2>2, <2>4 DEF PhaseInv, KernelPhase
  <2>6. seen'.timestamp - seen.timestamp - seen.period >= 0
    BY <1>1, <2>2, <2>3, <2>5 DEF SeenTypes
  <2> QED
    BY <2>4, <2>6
<1> QED
  BY <1>3, <1>4, <1>5

\* Each vsync SurfaceFlinger is shown comes one period of the last one and a whole
\* number of its own after it, for every width of time_t, any rates and callers: the
\* loop may be late, wait, or be given another rate in between, and the clock wrap.
THEOREM PhaseKept == Spec => VsyncsInPhase
<1>1. VsyncInv /\ PhaseInv /\ [Next]_vars => PhaseInv' /\ InPhase
  <2> SUFFICES ASSUME VsyncInv, PhaseInv, [Next]_vars
               PROVE  PhaseInv' /\ InPhase
    OBVIOUS
  <2>1. Typed /\ Typed'
    BY NextTyped DEF VsyncInv
  <2> QED
    BY <2>1, NextPhase, StepInPhase
<1>2. Spec => [][InPhase]_seen
  <2>1. VsyncInv /\ PhaseInv /\ [Next]_vars => [InPhase]_seen
    BY <1>1
  <2> QED
    BY <1>1, <2>1, VsyncInvariant, InitPhase, PTL DEF Spec
<1>3. [][InPhase]_seen => VsyncsInPhase
  BY DEF InPhase, VsyncsInPhase
<1> QED
  BY <1>2, <1>3
=============================================================================
