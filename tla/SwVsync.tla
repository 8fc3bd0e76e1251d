------------------------------- MODULE SwVsync -------------------------------
(***************************************************************************)
(* Vsync events: eventControl (hwc/hwc.c) turns them on and off; they come  *)
(* from the thread of hwc/sw_vsync.c, which sleeps from one to the next, or *)
(* from the kernel as uevents.  A critical section of vsync_mutex is one    *)
(* step: nothing in it waits but pthread_cond_wait, which leaves it.        *)
(* A time is a number of nanoseconds, a few of them here.                   *)
(***************************************************************************)
EXTENDS Integers, Sequences

CONSTANTS
  Callers,   \* threads of SurfaceFlinger that call eventControl
  Periods,   \* what 1000000000 / persist.hwc.sw_vsync_rate may be
  Word,      \* how many values time_t has: 2^32 in nanoseconds
  MaxTime, MaxCalls, MaxUevents   \* bounds

ASSUME PeriodsAssumption == Periods \subseteq Nat \ {0} /\ Periods # {}
ASSUME WordAssumption == Word \in Nat /\ Word > 1 /\ Word % 2 = 0
ASSUME BoundsAssumption == MaxTime \in Nat /\ MaxCalls \in Nat /\ MaxUevents \in Nat

VARIABLES
  time,
  use_sw_vsync,
  procs,             \* SurfaceFlinger has registered its callbacks
  vsync_loop_active,
  vsync_rate,
  loop,              \* vsync_loop: where it is and its variables
  call,              \* where each caller is, and the period it has read
  kernel_vsync,      \* OMAPFB_ENABLEVSYNC
  uevents,           \* timestamps of the vsyncs the event thread is to read
  calls,
  seen               \* what SurfaceFlinger saw: the last timestamp and the period it
                     \* came with; whether a vsync came since the last start; how many
                     \* came since the last stop, and with another period than the one
                     \* set since it was set

control == <<use_sw_vsync, procs, kernel_vsync, uevents>>
vars == <<time, control, vsync_loop_active, vsync_rate, loop, call, calls, seen>>

-----------------------------------------------------------------------------
(* eventControl, start_sw_vsync and stop_sw_vsync.                          *)

Begin(c) ==
  /\ call[c].pc = "out" /\ calls < MaxCalls
  /\ calls' = calls + 1
  /\ \E enabled \in BOOLEAN, p \in Periods :
       IF use_sw_vsync
       THEN /\ call' = [call EXCEPT ![c] = [pc |-> IF enabled THEN "start" ELSE "stop", period |-> p]]
            /\ UNCHANGED kernel_vsync
       ELSE kernel_vsync' = enabled /\ UNCHANGED call
  /\ UNCHANGED <<time, use_sw_vsync, procs, uevents, vsync_loop_active, vsync_rate, loop, seen>>

\* The rate is set also when the loop runs already.
Start(c) ==
  /\ call[c].pc = "start"
  /\ vsync_rate' = call[c].period
  /\ vsync_loop_active' = TRUE
  /\ call' = [call EXCEPT ![c].pc = IF vsync_loop_active THEN "out" ELSE "signal"]
  /\ seen' = [seen EXCEPT !.ticked = @ /\ vsync_loop_active, !.late = 0,
                          !.stale = IF call[c].period = vsync_rate THEN @ ELSE 0]
  /\ UNCHANGED <<time, control, loop, calls>>

Stop(c) ==
  /\ call[c].pc = "stop"
  /\ vsync_loop_active' = FALSE
  /\ call' = [call EXCEPT ![c].pc = IF vsync_loop_active THEN "signal" ELSE "out"]
  /\ UNCHANGED <<time, control, vsync_rate, loop, calls, seen>>

MutSignal(c) ==   \* wakes nobody: the flag is enough for a loop that is awake
  /\ call[c].pc = "signal"
  /\ call' = [call EXCEPT ![c].pc = "out"]
  /\ UNCHANGED <<time, control, vsync_loop_active, vsync_rate, loop, calls, seen>>

\* pthread_cond_signal, after the mutex was left.
Signal(c) ==
  /\ call[c].pc = "signal"
  /\ call' = [call EXCEPT ![c].pc = "out"]
  /\ loop' = [loop EXCEPT !.pc = IF @ = "waiting" THEN "lock" ELSE @]
  /\ UNCHANGED <<time, control, vsync_loop_active, vsync_rate, calls, seen>>

-----------------------------------------------------------------------------
(* vsync_loop                                                               *)

MutRunsOn == vsync_loop_active \/ loop.ran

\* The loop goes on from pthread_cond_wait's loop.
RunsOn == vsync_loop_active

MutReread == IF loop.ran /\ loop.period # 0 THEN loop.period ELSE vsync_rate

\* The period of the next turn.
Reread == vsync_rate

ReadRate ==
  /\ loop.pc = "lock"
  /\ loop' = IF RunsOn THEN [loop EXCEPT !.pc = "clock", !.period = Reread, !.ran = TRUE]
             ELSE [loop EXCEPT !.pc = "waiting", !.ran = FALSE]
  /\ UNCHANGED <<time, control, vsync_loop_active, vsync_rate, call, calls, seen>>

\* A wait on a condition may end although nobody signalled it.
WokenForNothing ==
  /\ loop.pc = "waiting"
  /\ loop' = [loop EXCEPT !.pc = "lock"]
  /\ UNCHANGED <<time, control, vsync_loop_active, vsync_rate, call, calls, seen>>

\* tv_sec * 1000000000 + tv_nsec in the width of time_t, which is signed.
Wrapped(t) == ((t + Word \div 2) % Word) - (Word \div 2)

MutNextVsync(now, next, period) ==
  IF next - now < 0 THEN now + period ELSE next

\* When the next vsync is, with the one that was planned.
NextVsync(now, next, period) ==
  IF next - now < 0 THEN now + period - ((now - next) % period) ELSE next

\* clock_gettime and the arithmetic, and nanosleep starts.
Compute ==
  /\ loop.pc = "clock"
  /\ LET next == NextVsync(Wrapped(time), loop.next_fake_vsync, loop.period)
     IN  loop' = [loop EXCEPT !.pc = "sleep", !.tp = time, !.next_vsync = next,
                              !.next_fake_vsync = next + loop.period]
  /\ UNCHANGED <<time, control, vsync_loop_active, vsync_rate, call, calls, seen>>

\* diff is negative when the vsync is over, and nanosleep refuses that.
SleepEnds == loop.next_vsync < loop.tp \/ loop.next_vsync <= time

\* What SurfaceFlinger sees of a vsync.
Shown(timestamp) ==
  [seen EXCEPT !.timestamp = timestamp, !.period = loop.period, !.ticked = TRUE,
               !.late = IF vsync_loop_active THEN 0 ELSE @ + 1,
               !.stale = IF loop.period = vsync_rate THEN @ ELSE @ + 1]

\* The callback, without the mutex.
Callback ==
  /\ loop.pc = "sleep" /\ SleepEnds
  /\ loop' = [loop EXCEPT !.pc = "lock"]
  /\ seen' = IF procs THEN Shown(loop.next_vsync) ELSE seen
  /\ UNCHANGED <<time, control, vsync_loop_active, vsync_rate, call, calls>>

Loop == ReadRate \/ Compute \/ Callback

-----------------------------------------------------------------------------
(* The kernel's vsyncs, handle_uevents, registerProcs and time.             *)

\* The kernel sends one uevent for each vsync (outside of src/).
Uevent ==
  /\ kernel_vsync /\ Len(uevents) < MaxUevents
  /\ uevents' = Append(uevents, time)
  /\ time < MaxTime /\ time' = time + 1
  /\ UNCHANGED <<use_sw_vsync, procs, kernel_vsync, vsync_loop_active, vsync_rate, loop, call, calls, seen>>

HandleUevent ==
  /\ uevents # <<>>
  /\ uevents' = Tail(uevents)
  /\ seen' = IF procs THEN [seen EXCEPT !.timestamp = Head(uevents)] ELSE seen
  /\ UNCHANGED <<time, use_sw_vsync, procs, kernel_vsync, vsync_loop_active, vsync_rate, loop, call, calls>>

RegisterProcs ==
  /\ ~procs /\ procs' = TRUE
  /\ UNCHANGED <<time, use_sw_vsync, kernel_vsync, uevents, vsync_loop_active, vsync_rate, loop, call, calls, seen>>

Tick ==
  /\ time < MaxTime
  /\ time' = time + 1
  /\ UNCHANGED <<control, vsync_loop_active, vsync_rate, loop, call, calls, seen>>

\* init_sw_vsync starts the loop; the clock has run since the device was booted.
Init ==
  /\ time \in 0 .. MaxTime
  /\ use_sw_vsync \in BOOLEAN
  /\ procs = FALSE
  /\ vsync_loop_active = FALSE /\ vsync_rate = 0
  /\ loop = [pc |-> IF use_sw_vsync THEN "lock" ELSE "none", ran |-> FALSE, period |-> 0,
             tp |-> 0, next_vsync |-> 0, next_fake_vsync |-> 0]
  /\ call = [c \in Callers |-> [pc |-> "out", period |-> 0]]
  /\ kernel_vsync = FALSE /\ uevents = <<>>
  /\ calls = 0
  /\ seen = [timestamp |-> -1, period |-> 0, ticked |-> FALSE, late |-> 0, stale |-> 0]

Next ==
  \/ \E c \in Callers : Begin(c) \/ Start(c) \/ Stop(c) \/ Signal(c)
  \/ Loop \/ WokenForNothing
  \/ Uevent \/ HandleUevent \/ RegisterProcs \/ Tick

\* Threads run, time passes while the loop sleeps, and SurfaceFlinger registers.
Fairness ==
  /\ \A c \in Callers : WF_vars(Start(c) \/ Stop(c) \/ Signal(c))
  /\ WF_vars(Loop)
  /\ WF_vars(loop.pc = "sleep" /\ Tick)
  /\ WF_vars(RegisterProcs)

Spec == Init /\ [][Next]_vars /\ Fairness

-----------------------------------------------------------------------------
\* Timestamps never go back, and those of the thread keep their phase: from one to
\* the next it is the period of the one and a number of periods of the other,
\* although the loop was late, stopped for a while or given another rate, and the
\* clock it reads wraps around.
VsyncsInPhase ==
  [][ seen.timestamp >= 0 /\ seen'.timestamp # seen.timestamp =>
        LET later == seen'.timestamp - seen.timestamp - seen.period IN
        /\ later >= 0
        /\ use_sw_vsync => later % seen'.period = 0 ]_seen

\* After stop_sw_vsync the thread calls back once at most, with the vsync it was
\* asleep for when the flag was cleared.
OneLateVsync == seen.late <= 1

\* After start_sw_vsync has set another rate, one vsync at most comes with the old
\* one: "the vsync_rate should be re-read" in each turn of vsync_loop.
OneStaleVsync == seen.stale <= 1

\* Once started the loop calls back, or it is stopped, or the bound on time is
\* reached: no wake-up is lost between the flag and the signal.
StartTicks ==
  use_sw_vsync =>
    (vsync_loop_active /\ ~seen.ticked ~> seen.ticked \/ ~vsync_loop_active \/ time = MaxTime)

\* sw_vsync.c: "we missed, find where the next vsync should be".  What the loop
\* sleeps for is not over when it starts to sleep.
NextIsAhead == loop.pc = "sleep" => loop.next_vsync >= loop.tp

=============================================================================
