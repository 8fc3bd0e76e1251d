---------------------------- MODULE AudioHalProofs ----------------------------
(***************************************************************************)
(* Proofs about AudioHal, for any number of threads, any devices and any   *)
(* rates of the two groups.                                                *)
(***************************************************************************)
EXTENDS AudioHal, TLAPS

\* The threads that hold each mutex are those whose place in the code says so.
Owners ==
  /\ \A t \in Threads : lock["adev"] = t <=> pc[t] \in HoldsAdev
  /\ \A t \in Threads, s \in Streams :
       lock[s] = t <=> pc[t] \in HoldsStream /\ Stream(t) = s

\* A stream that is out of standby is open, has the PCM of its routing, and is the
\* active one of the device.
StreamOK(s) ==
  /\ active[s] <=> ~standby[s]
  /\ ~standby[s] => /\ open[s]
                    /\ pcm[s] \in Pcms
                    /\ (pcm[s] = "sco") <=> (device[s] = "sco")

Matches(r1, r2) == Arbiter!SameGroup(r1, r2)

OneGroup ==
  ~standby["out"] /\ ~standby["in"]
    => Matches(Rate["out"][pcm["out"]], Rate["in"][pcm["in"]])

\* No call shares a stream with the call that closes it.
Exclusive ==
  \A t, u \in Threads :
    pc[t] # "idle" /\ pc[u] # "idle" /\ t # u /\ Stream(t) = Stream(u) => Op(t) # "close"

\* What a thread knows where it is.
ThreadOK(t) ==
  LET s == Stream(t)
      o == Other(s)
  IN
  /\ pc[t] # "idle" => call[t] \in Calls /\ open[s]
  /\ pc[t] \in {"lock_other", "start", "transfer", "exit"} => Op(t) = "transfer"
  /\ pc[t] \in {"do_standby", "set_device", "free"} => Op(t) # "transfer"
  /\ pc[t] \in {"lock_other", "start"} => standby[s]
  /\ pc[t] = "lock_other" => active[o]
  /\ pc[t] = "start" /\ active[o] => Matches(Rate[s][PcmFor(s)], Rate[o][pcm[o]])
  /\ pc[t] = "transfer" => ~standby[s] /\ (sco_on[t] <=> (device[s] = "sco"))
  /\ pc[t] \in {"lock_stream", "do_standby", "set_device"} /\ Op(t) = "route"
       => call[t].device \in Devices
  /\ pc[t] = "set_device"
       => Op(t) = "route" /\ (standby[s] \/ ((call[t].device = "sco") <=> (device[s] = "sco")))
  /\ pc[t] = "free" => Op(t) = "close" /\ standby[s]

Inv ==
  /\ TypeOK
  /\ Owners
  /\ \A s \in Streams : StreamOK(s)
  /\ OneGroup
  /\ Exclusive
  /\ \A t \in Threads : ThreadOK(t)

-----------------------------------------------------------------------------

LEMMA StreamFacts ==
  /\ "out" \in Streams /\ "in" \in Streams
  /\ \A s \in Streams : Other(s) \in Streams /\ Other(s) # s /\ Other(Other(s)) = s
                       /\ s \in Mutexes /\ s # "adev"
                       /\ \A r \in Streams : r = s \/ r = Other(s)
  /\ "adev" \in Mutexes
  BY DEF Streams, Other, Mutexes

LEMMA PcmForPcms == ASSUME NEW s \in Streams PROVE PcmFor(s) \in Pcms /\ ((PcmFor(s) = "sco") <=> (device[s] = "sco"))
  BY DEF PcmFor, Pcms

LEMMA MatchesBoth == \A r1, r2 : Matches(r1, r2) => Matches(r2, r1)
  BY DEF Matches, Arbiter!SameGroup

LEMMA NoClash ==
  ASSUME NEW s \in Streams, pcm[Other(s)] \in Pcms, ~Clashes(s)
  PROVE  Matches(Rate[s][PcmFor(s)], Rate[Other(s)][pcm[Other(s)]])
<1> DEFINE r1 == Rate[s][PcmFor(s)]
           r2 == Rate[Other(s)][pcm[Other(s)]]
<1>1. /\ ~((r1 % 8000 = 0) <=> (r1 % 11025 = 0))
      /\ ~((r2 % 8000 = 0) <=> (r2 % 11025 = 0))
  BY RateAssumption, PcmForPcms, StreamFacts
<1>2. ~(r1 % 8000 = 0 /\ r2 % 8000 # 0) /\ ~(r1 % 11025 = 0 /\ r2 % 11025 # 0)
  BY DEF Clashes
<1> HIDE DEF r1, r2
<1>3. Matches(r1, r2)
  BY <1>1, <1>2 DEF Matches, Arbiter!SameGroup
<1> QED
  BY <1>3 DEF r1, r2

LEMMA StandbyEffect ==
  ASSUME Inv, NEW s \in Streams, DoStandby(s)
  PROVE  /\ standby' = [standby EXCEPT ![s] = TRUE]
         /\ active' = [active EXCEPT ![s] = FALSE]
         /\ pcm' \in [Streams -> Pcms \cup {"none", "dangling"}]
         /\ \A r \in Streams \ {s} : pcm'[r] = pcm[r]
<1> USE DEF Inv, TypeOK, StreamOK, DoStandby, streamVars
<1>1. CASE standby[s]
  <2>1. UNCHANGED <<standby, pcm, active>> /\ standby[s] = TRUE /\ active[s] = FALSE
    BY <1>1
  <2> QED
    BY <2>1
<1>2. CASE ~standby[s]
  BY <1>2
<1> QED
  BY <1>1, <1>2

LEMMA LockAdevKeeps ==
  ASSUME Inv, NEW t \in Threads, LockAdev(t)
  PROVE  Inv'
<1> USE StreamFacts, ThreadsAssumption DEF Inv, Goto, Stream, Op, streamVars, routeVars
<1>0. ThreadOK(t)
  OBVIOUS
<1>a. /\ AfterAdev(t) \in {"lock_stream", "unlock_adev", "set_device"}
      /\ AfterAdev(t) # "unlock_adev" /\ call[t].op = "route" => call[t].device # "none"
      /\ AfterAdev(t) = "set_device"
           => call[t].op = "route" /\ ((call[t].device = "sco") <=> (device[call[t].stream] = "sco"))
  BY DEF AfterAdev, Reroutes, TogglesSco
<1>b. /\ pc[t] = "lock_adev" /\ lock["adev"] = Nobody
      /\ lock' = [lock EXCEPT !["adev"] = t]
      /\ pc' = [pc EXCEPT ![t] = AfterAdev(t)]
      /\ UNCHANGED <<call, open, standby, pcm, active, device, bit_in, sco_on>>
  BY DEF LockAdev, TakesAdev
<1>1. TypeOK'
  BY <1>0, <1>a, <1>b, PcmForPcms DEF TypeOK, ThreadOK, Calls, Labels, HoldsAdev,
     HoldsStream, NoCall
<1>2. Owners'
  <2>1. /\ AfterAdev(t) \in HoldsAdev \ HoldsStream /\ pc[t] \notin HoldsAdev \cup HoldsStream
        /\ pc' \in [Threads -> Labels]
    BY <1>a, <1>b, <1>1 DEF HoldsAdev, HoldsStream, TypeOK
  <2>2. ASSUME NEW u \in Threads
        PROVE  lock'["adev"] = u <=> pc'[u] \in HoldsAdev
    BY <1>b, <2>1 DEF TypeOK, Owners
  <2>3. ASSUME NEW u \in Threads, NEW s \in Streams
        PROVE  lock'[s] = u <=> pc'[u] \in HoldsStream /\ call'[u].stream = s
    BY <1>b, <2>1 DEF TypeOK, Owners
  <2> QED
    BY <2>2, <2>3 DEF Owners
<1>3. ASSUME NEW s \in Streams
      PROVE  StreamOK(s)'
  BY <1>0, <1>a, <1>b, PcmForPcms DEF TypeOK, Owners, StreamOK, ThreadOK, Calls
<1>4. OneGroup'
  BY <1>0, <1>a, <1>b, MatchesBoth DEF TypeOK, OneGroup, StreamOK, ThreadOK, Calls, Other
<1>5. Exclusive'
  BY <1>0, <1>a, <1>b DEF TypeOK, Exclusive, Calls
<1>6. ASSUME NEW u \in Threads
      PROVE  ThreadOK(u)'
  <2>1. ThreadOK(u)
    OBVIOUS
  <2>2. CASE u = t
    BY <1>0, <1>a, <1>b, <2>2 DEF TypeOK, Owners, StreamOK, ThreadOK, Calls, HoldsAdev,
       HoldsStream, PcmFor
  <2>3. CASE u # t
    BY <1>0, <1>a, <1>b, <2>1, <2>3 DEF TypeOK, Owners, StreamOK, Exclusive, ThreadOK,
       Calls, HoldsAdev, HoldsStream, PcmFor
  <2> QED
    BY <2>2, <2>3
<1> QED
  BY <1>1, <1>2, <1>3, <1>4, <1>5, <1>6

LEMMA LockOtherKeeps ==
  ASSUME Inv, NEW t \in Threads, LockOther(t)
  PROVE  Inv'
<1> USE StreamFacts, ThreadsAssumption DEF Inv, Goto, Stream, Op, streamVars, routeVars
<1>0. ThreadOK(t)
  OBVIOUS
<1>d. PICK me \in Streams, other \in Streams : me = call[t].stream /\ other = Other(me)
  BY <1>0 DEF LockOther, ThreadOK, Calls
<1>a. /\ pc[t] = "lock_other" /\ lock[other] = Nobody /\ pc' = [pc EXCEPT ![t] = "start"]
      /\ UNCHANGED <<call, lock, open, device, bit_in, sco_on>>
      /\ me \in Streams /\ other \in Streams /\ other # me /\ me = Other(other)
  BY <1>d DEF LockOther
<1>b. /\ standby' \in [Streams -> BOOLEAN] /\ active' \in [Streams -> BOOLEAN]
      /\ pcm' \in [Streams -> Pcms \cup {"none", "dangling"}]
      /\ standby'[me] = standby[me] /\ active'[me] = active[me] /\ pcm'[me] = pcm[me]
      /\ \/ standby'[other] /\ ~active'[other]
         \/ /\ standby'[other] = standby[other] /\ active'[other] = active[other]
            /\ pcm'[other] = pcm[other]
            /\ Matches(Rate[me][PcmFor(me)], Rate[other][pcm[other]])
  <2>1. CASE Clashes(me)
    <3>1. DoStandby(other)
      BY <1>d, <2>1 DEF LockOther
    <3>2. other \in Streams /\ me \in Streams \ {other}
      BY <1>a
    <3>3. /\ standby' = [standby EXCEPT ![other] = TRUE]
          /\ active' = [active EXCEPT ![other] = FALSE]
          /\ pcm' \in [Streams -> Pcms \cup {"none", "dangling"}]
          /\ \A r \in Streams \ {other} : pcm'[r] = pcm[r]
      BY <3>1, <3>2, StandbyEffect
    <3> QED
      BY <3>2, <3>3 DEF TypeOK
  <2>2. CASE ~Clashes(me)
    <3>1. UNCHANGED <<standby, pcm, active>>
      BY <1>d, <2>2 DEF LockOther
    <3>2. pcm[other] \in Pcms
      BY <1>0, <1>a, <1>d DEF ThreadOK, StreamOK
    <3> QED
      BY <1>a, <1>d, <2>2, <3>1, <3>2, NoClash DEF TypeOK
  <2> QED
    BY <2>1, <2>2
<1>c. standby[me] /\ ~active[me]
  BY <1>0, <1>a, <1>d DEF ThreadOK, StreamOK
<1>1. TypeOK'
  BY <1>0, <1>a, <1>b, <1>c, <1>d, PcmForPcms DEF TypeOK, ThreadOK, Calls, Labels,
     HoldsAdev, HoldsStream, NoCall
<1>2. Owners'
  BY <1>0, <1>a, <1>b, <1>c, <1>d DEF TypeOK, Owners, ThreadOK, Calls, HoldsAdev,
     HoldsStream, Mutexes
<1>3. ASSUME NEW s \in Streams
      PROVE  StreamOK(s)'
  <2>1. CASE s = me
    BY <1>a, <1>b, <1>c, <2>1 DEF StreamOK
  <2>2. CASE s = other
    <3>1. CASE standby'[other] /\ ~active'[other]
      BY <2>2, <3>1 DEF StreamOK
    <3>2. CASE /\ standby'[other] = standby[other] /\ active'[other] = active[other]
               /\ pcm'[other] = pcm[other]
      BY <1>a, <2>2, <3>2 DEF StreamOK
    <3> QED
      BY <1>b, <3>1, <3>2
  <2> QED
    BY <1>a, <1>d, <2>1, <2>2
<1>4. OneGroup'
  BY <1>0, <1>a, <1>b, <1>c, <1>d, MatchesBoth DEF TypeOK, OneGroup, StreamOK, ThreadOK,
     Calls, Other
<1>5. Exclusive'
  BY <1>0, <1>a, <1>b, <1>c, <1>d DEF TypeOK, Exclusive, Calls
<1>6. ASSUME NEW u \in Threads
      PROVE  ThreadOK(u)'
  <2>1. ThreadOK(u)
    OBVIOUS
  <2>2. CASE u = t
    <3>1. pc'[t] = "start" /\ call'[t] = call[t] /\ standby'[me]
      BY <1>a, <1>b, <1>c DEF TypeOK
    <3>2. call[t] \in Calls /\ open'[me] /\ call[t].op = "transfer"
      BY <1>0, <1>a, <1>d DEF ThreadOK
    <3>3. PcmFor(me)' = PcmFor(me)
      BY <1>a DEF PcmFor
    <3>4. active'[other] => Matches(Rate[me][PcmFor(me)'], Rate[other][pcm'[other]])
      BY <1>b, <3>3
    <3> QED
      BY <1>d, <2>2, <3>1, <3>2, <3>4 DEF ThreadOK
  <2>3. CASE u # t
    BY <1>0, <1>a, <1>b, <1>c, <1>d, <2>1, <2>3 DEF TypeOK, Owners, StreamOK, Exclusive,
       ThreadOK, Calls, HoldsAdev, HoldsStream, PcmFor
  <2> QED
    BY <2>2, <2>3
<1> QED
  BY <1>1, <1>2, <1>3, <1>4, <1>5, <1>6

LEMMA LockStreamKeeps ==
  ASSUME Inv, NEW t \in Threads, LockStream(t)
  PROVE  Inv'
<1> USE StreamFacts, ThreadsAssumption DEF Inv, Goto, Stream, Op, streamVars, routeVars
<1>0. ThreadOK(t)
  OBVIOUS
<1>1. TypeOK'
  BY <1>0, PcmForPcms DEF TypeOK, ThreadOK, LockStream, Labels, HoldsAdev, HoldsStream,
     NoCall
<1>2. Owners'
  BY <1>0 DEF TypeOK, Owners, ThreadOK, LockStream, HoldsAdev, HoldsStream, Mutexes
<1>3. ASSUME NEW s \in Streams
      PROVE  StreamOK(s)'
  BY <1>0, PcmForPcms DEF TypeOK, Owners, StreamOK, ThreadOK, LockStream
<1>4. OneGroup'
  BY <1>0, MatchesBoth DEF TypeOK, OneGroup, StreamOK, ThreadOK, LockStream, Other
<1>5. Exclusive'
  BY <1>0 DEF TypeOK, Exclusive, LockStream
<1>6. ASSUME NEW u \in Threads
      PROVE  ThreadOK(u)'
  <2>1. ThreadOK(u)
    OBVIOUS
  <2>2. CASE u = t
    BY <1>0, <2>2 DEF TypeOK, Owners, StreamOK, ThreadOK, LockStream, HoldsAdev,
       HoldsStream, PcmFor
  <2>3. CASE u # t
    BY <1>0, <2>1, <2>3 DEF TypeOK, Owners, StreamOK, Exclusive, ThreadOK, LockStream,
       HoldsAdev, HoldsStream, PcmFor
  <2> QED
    BY <2>2, <2>3
<1> QED
  BY <1>1, <1>2, <1>3, <1>4, <1>5, <1>6

LEMMA LockRunningKeeps ==
  ASSUME Inv, NEW t \in Threads, LockRunning(t)
  PROVE  Inv'
<1> USE StreamFacts, ThreadsAssumption DEF Inv, Goto, Stream, Op, streamVars, routeVars
<1>0. ThreadOK(t)
  OBVIOUS
<1>1. TypeOK'
  BY <1>0, PcmForPcms DEF TypeOK, ThreadOK, LockRunning, Released, Labels, HoldsAdev,
     HoldsStream, NoCall
<1>2. Owners'
  BY <1>0 DEF TypeOK, Owners, ThreadOK, LockRunning, Released, HoldsAdev, HoldsStream,
     Mutexes
<1>3. ASSUME NEW s \in Streams
      PROVE  StreamOK(s)'
  BY <1>0, PcmForPcms DEF TypeOK, Owners, StreamOK, ThreadOK, LockRunning, Released
<1>4. OneGroup'
  BY <1>0, MatchesBoth DEF TypeOK, OneGroup, StreamOK, ThreadOK, LockRunning, Released,
     Other
<1>5. Exclusive'
  BY <1>0 DEF TypeOK, Exclusive, LockRunning, Released
<1>6. ASSUME NEW u \in Threads
      PROVE  ThreadOK(u)'
  <2>1. ThreadOK(u)
    OBVIOUS
  <2>2. CASE u = t
    BY <1>0, <2>2 DEF TypeOK, Owners, StreamOK, ThreadOK, LockRunning, Released,
       HoldsAdev, HoldsStream, PcmFor
  <2>3. CASE u # t
    BY <1>0, <2>1, <2>3 DEF TypeOK, Owners, StreamOK, Exclusive, ThreadOK, LockRunning,
       Released, HoldsAdev, HoldsStream, PcmFor
  <2> QED
    BY <2>2, <2>3
<1> QED
  BY <1>1, <1>2, <1>3, <1>4, <1>5, <1>6

LEMMA StartKeeps ==
  ASSUME Inv, NEW t \in Threads, Start(t)
  PROVE  Inv'
<1> USE StreamFacts, ThreadsAssumption DEF Inv, Goto, Stream, Op, streamVars, routeVars
<1>0. ThreadOK(t)
  OBVIOUS
<1>1. TypeOK'
  BY <1>0, PcmForPcms DEF TypeOK, ThreadOK, Start, Released, Labels, HoldsAdev,
     HoldsStream, NoCall
<1>2. Owners'
  BY <1>0 DEF TypeOK, Owners, ThreadOK, Start, Released, HoldsAdev, HoldsStream, Mutexes
<1>3. ASSUME NEW s \in Streams
      PROVE  StreamOK(s)'
  BY <1>0, PcmForPcms DEF TypeOK, Owners, StreamOK, ThreadOK, Start, Released
<1>4. OneGroup'
  BY <1>0, MatchesBoth DEF TypeOK, OneGroup, StreamOK, ThreadOK, Start, Released, Other
<1>5. Exclusive'
  BY <1>0 DEF TypeOK, Exclusive, Start, Released
<1>6. ASSUME NEW u \in Threads
      PROVE  ThreadOK(u)'
  <2>1. ThreadOK(u)
    OBVIOUS
  <2>2. CASE u = t
    <3>1. PICK me \in Streams : me = call[t].stream
      BY <1>0 DEF Start, ThreadOK, Calls
    <3>2. /\ pc[t] = "start" /\ pc'[t] = "transfer" /\ call'[t] = call[t]
          /\ ~standby'[me] /\ (sco_on'[t] <=> (device'[me] = "sco")) /\ open'[me] = open[me]
      BY <3>1 DEF Start, TypeOK
    <3>3. call[t] \in Calls /\ open[me] /\ call[t].op = "transfer"
      BY <1>0, <3>1, <3>2 DEF ThreadOK
    <3> QED
      BY <2>2, <3>1, <3>2, <3>3 DEF ThreadOK
  <2>3. CASE u # t
    BY <1>0, <2>1, <2>3 DEF TypeOK, Owners, StreamOK, Exclusive, ThreadOK, Start,
       Released, HoldsAdev, HoldsStream, PcmFor
  <2> QED
    BY <2>2, <2>3
<1> QED
  BY <1>1, <1>2, <1>3, <1>4, <1>5, <1>6

LEMMA StartFailsKeeps ==
  ASSUME Inv, NEW t \in Threads, StartFails(t)
  PROVE  Inv'
<1> USE StreamFacts, ThreadsAssumption DEF Inv, Goto, Stream, Op, streamVars, routeVars
<1>0. ThreadOK(t)
  OBVIOUS
<1>1. TypeOK'
  BY <1>0, PcmForPcms DEF TypeOK, ThreadOK, StartFails, Released, AfterFailure, Labels,
     HoldsAdev, HoldsStream, NoCall
<1>2. Owners'
  BY <1>0 DEF TypeOK, Owners, ThreadOK, StartFails, Released, AfterFailure, HoldsAdev,
     HoldsStream, Mutexes
<1>3. ASSUME NEW s \in Streams
      PROVE  StreamOK(s)'
  BY <1>0, PcmForPcms DEF TypeOK, Owners, StreamOK, ThreadOK, StartFails, Released,
     AfterFailure
<1>4. OneGroup'
  BY <1>0, MatchesBoth DEF TypeOK, OneGroup, StreamOK, ThreadOK, StartFails, Released,
     AfterFailure, Other
<1>5. Exclusive'
  BY <1>0 DEF TypeOK, Exclusive, StartFails, Released, AfterFailure
<1>6. ASSUME NEW u \in Threads
      PROVE  ThreadOK(u)'
  <2>1. ThreadOK(u)
    OBVIOUS
  <2>2. CASE u = t
    BY <1>0, <2>2 DEF TypeOK, Owners, StreamOK, ThreadOK, StartFails, Released,
       AfterFailure, HoldsAdev, HoldsStream, PcmFor
  <2>3. CASE u # t
    BY <1>0, <2>1, <2>3 DEF TypeOK, Owners, StreamOK, Exclusive, ThreadOK, StartFails,
       Released, AfterFailure, HoldsAdev, HoldsStream, PcmFor
  <2> QED
    BY <2>2, <2>3
<1> QED
  BY <1>1, <1>2, <1>3, <1>4, <1>5, <1>6

LEMMA FinishTransferKeeps ==
  ASSUME Inv, NEW t \in Threads, FinishTransfer(t)
  PROVE  Inv'
<1> USE StreamFacts, ThreadsAssumption DEF Inv, Goto, Stream, Op, streamVars, routeVars
<1>0. ThreadOK(t)
  OBVIOUS
<1>1. TypeOK'
  BY <1>0, PcmForPcms DEF TypeOK, ThreadOK, FinishTransfer, Released, Return, Labels,
     HoldsAdev, HoldsStream, NoCall
<1>2. Owners'
  BY <1>0 DEF TypeOK, Owners, ThreadOK, FinishTransfer, Released, Return, HoldsAdev,
     HoldsStream, Mutexes
<1>3. ASSUME NEW s \in Streams
      PROVE  StreamOK(s)'
  BY <1>0, PcmForPcms DEF TypeOK, Owners, StreamOK, ThreadOK, FinishTransfer, Released,
     Return
<1>4. OneGroup'
  BY <1>0, MatchesBoth DEF TypeOK, OneGroup, StreamOK, ThreadOK, FinishTransfer, Released,
     Return, Other
<1>5. Exclusive'
  BY <1>0 DEF TypeOK, Exclusive, FinishTransfer, Released, Return
<1>6. ASSUME NEW u \in Threads
      PROVE  ThreadOK(u)'
  <2>1. ThreadOK(u)
    OBVIOUS
  <2>2. CASE u = t
    BY <1>0, <2>2 DEF TypeOK, Owners, StreamOK, ThreadOK, FinishTransfer, Released,
       Return, HoldsAdev, HoldsStream, PcmFor
  <2>3. CASE u # t
    BY <1>0, <2>1, <2>3 DEF TypeOK, Owners, StreamOK, Exclusive, ThreadOK, FinishTransfer,
       Released, Return, HoldsAdev, HoldsStream, PcmFor
  <2> QED
    BY <2>2, <2>3
<1> QED
  BY <1>1, <1>2, <1>3, <1>4, <1>5, <1>6

LEMMA FreeKeeps ==
  ASSUME Inv, NEW t \in Threads, Free(t)
  PROVE  Inv'
<1> USE StreamFacts, ThreadsAssumption DEF Inv, Goto, Stream, Op, streamVars, routeVars
<1>0. ThreadOK(t)
  OBVIOUS
<1>1. TypeOK'
  BY <1>0, PcmForPcms DEF TypeOK, ThreadOK, Free, Return, Labels, HoldsAdev, HoldsStream,
     NoCall
<1>2. Owners'
  BY <1>0 DEF TypeOK, Owners, ThreadOK, Free, Return, HoldsAdev, HoldsStream, Mutexes
<1>3. ASSUME NEW s \in Streams
      PROVE  StreamOK(s)'
  BY <1>0, PcmForPcms DEF TypeOK, Owners, StreamOK, ThreadOK, Free, Return
<1>4. OneGroup'
  BY <1>0, MatchesBoth DEF TypeOK, OneGroup, StreamOK, ThreadOK, Free, Return, Other
<1>5. Exclusive'
  BY <1>0 DEF TypeOK, Exclusive, Free, Return
<1>6. ASSUME NEW u \in Threads
      PROVE  ThreadOK(u)'
  <2>1. ThreadOK(u)
    OBVIOUS
  <2>2. CASE u = t
    BY <1>0, <2>2 DEF TypeOK, Owners, StreamOK, ThreadOK, Free, Return, HoldsAdev,
       HoldsStream, PcmFor
  <2>3. CASE u # t
    BY <1>0, <2>1, <2>3 DEF TypeOK, Owners, StreamOK, Exclusive, ThreadOK, Free, Return,
       HoldsAdev, HoldsStream, PcmFor
  <2> QED
    BY <2>2, <2>3
<1> QED
  BY <1>1, <1>2, <1>3, <1>4, <1>5, <1>6

LEMMA SetDeviceKeeps ==
  ASSUME Inv, NEW t \in Threads, SetDevice(t)
  PROVE  Inv'
<1> USE StreamFacts, ThreadsAssumption DEF Inv, Goto, Stream, Op, streamVars, routeVars
<1>0. ThreadOK(t)
  OBVIOUS
<1>1. TypeOK'
  BY <1>0, PcmForPcms DEF TypeOK, ThreadOK, SetDevice, Released, Return, Labels,
     HoldsAdev, HoldsStream, NoCall
<1>2. Owners'
  BY <1>0 DEF TypeOK, Owners, ThreadOK, SetDevice, Released, Return, HoldsAdev,
     HoldsStream, Mutexes
<1>3. ASSUME NEW s \in Streams
      PROVE  StreamOK(s)'
  BY <1>0, PcmForPcms DEF TypeOK, Owners, StreamOK, ThreadOK, SetDevice, Released, Return
<1>4. OneGroup'
  BY <1>0, MatchesBoth DEF TypeOK, OneGroup, StreamOK, ThreadOK, SetDevice, Released,
     Return, Other
<1>5. Exclusive'
  BY <1>0 DEF TypeOK, Exclusive, SetDevice, Released, Return
<1>6. ASSUME NEW u \in Threads
      PROVE  ThreadOK(u)'
  <2>1. ThreadOK(u)
    OBVIOUS
  <2>2. CASE u = t
    BY <1>0, <2>2 DEF TypeOK, Owners, StreamOK, ThreadOK, SetDevice, Released, Return,
       HoldsAdev, HoldsStream, PcmFor
  <2>3. CASE u # t
    BY <1>0, <2>1, <2>3 DEF TypeOK, Owners, StreamOK, Exclusive, ThreadOK, SetDevice,
       Released, Return, HoldsAdev, HoldsStream, PcmFor
  <2> QED
    BY <2>2, <2>3
<1> QED
  BY <1>1, <1>2, <1>3, <1>4, <1>5, <1>6

LEMMA RouteIgnoredKeeps ==
  ASSUME Inv, NEW t \in Threads, RouteIgnored(t)
  PROVE  Inv'
<1> USE StreamFacts, ThreadsAssumption DEF Inv, Goto, Stream, Op, streamVars, routeVars
<1>0. ThreadOK(t)
  OBVIOUS
<1>1. TypeOK'
  BY <1>0, PcmForPcms DEF TypeOK, ThreadOK, RouteIgnored, Released, Return, Labels,
     HoldsAdev, HoldsStream, NoCall
<1>2. Owners'
  BY <1>0 DEF TypeOK, Owners, ThreadOK, RouteIgnored, Released, Return, HoldsAdev,
     HoldsStream, Mutexes
<1>3. ASSUME NEW s \in Streams
      PROVE  StreamOK(s)'
  BY <1>0, PcmForPcms DEF TypeOK, Owners, StreamOK, ThreadOK, RouteIgnored, Released, Return
<1>4. OneGroup'
  BY <1>0, MatchesBoth DEF TypeOK, OneGroup, StreamOK, ThreadOK, RouteIgnored, Released,
     Return, Other
<1>5. Exclusive'
  BY <1>0 DEF TypeOK, Exclusive, RouteIgnored, Released, Return
<1>6. ASSUME NEW u \in Threads
      PROVE  ThreadOK(u)'
  <2>1. ThreadOK(u)
    OBVIOUS
  <2>2. CASE u = t
    BY <1>0, <2>2 DEF TypeOK, Owners, StreamOK, ThreadOK, RouteIgnored, Released, Return,
       HoldsAdev, HoldsStream, PcmFor
  <2>3. CASE u # t
    BY <1>0, <2>1, <2>3 DEF TypeOK, Owners, StreamOK, Exclusive, ThreadOK, RouteIgnored,
       Released, Return, HoldsAdev, HoldsStream, PcmFor
  <2> QED
    BY <2>2, <2>3
<1> QED
  BY <1>1, <1>2, <1>3, <1>4, <1>5, <1>6

LEMMA StandbyKeeps ==
  ASSUME Inv, NEW t \in Threads, Standby(t)
  PROVE  Inv'
<1> USE StreamFacts, ThreadsAssumption DEF Inv, Goto, Stream, Op, streamVars, routeVars
<1>0. ThreadOK(t)
  OBVIOUS
<1>d. PICK me \in Streams : me = call[t].stream
  BY <1>0 DEF Standby, ThreadOK, Calls
<1>a. pc[t] = "do_standby" /\ me \in Streams /\ call[t].op \in {"standby", "close", "route"}
  BY <1>0 DEF Standby, ThreadOK, Calls
<1>b. /\ standby' = [standby EXCEPT ![me] = TRUE] /\ active' = [active EXCEPT ![me] = FALSE]
      /\ pcm' \in [Streams -> Pcms \cup {"none", "dangling"}]
      /\ \A r \in Streams \ {me} : pcm'[r] = pcm[r]
  <2>1. DoStandby(me)
    BY <1>d DEF Standby
  <2> QED
    BY <1>a, <2>1, StandbyEffect
<1>c. /\ UNCHANGED <<open, device, bit_in>>
      /\ \/ /\ call[t].op = "standby" /\ pc' = [pc EXCEPT ![t] = "idle"]
            /\ call' = [call EXCEPT ![t] = NoCall]
            /\ sco_on' = [sco_on EXCEPT ![t] = FALSE]
         \/ /\ call[t].op = "close" /\ pc' = [pc EXCEPT ![t] = "free"]
            /\ UNCHANGED <<call, sco_on>>
         \/ /\ call[t].op = "route" /\ pc' = [pc EXCEPT ![t] = "set_device"]
            /\ UNCHANGED <<call, sco_on>>
  BY <1>a DEF Standby, Return
<1>e. /\ lock' \in [Mutexes -> Threads \cup {Nobody}]
      /\ lock'["adev"] = (IF call[t].op = "route" THEN t ELSE Nobody)
      /\ lock'[me] = Nobody
      /\ \A r \in Streams \ {me} : lock'[r] = lock[r]
  <2>1. lock["adev"] = t /\ lock[me] = t
    BY <1>a, <1>d DEF Owners, HoldsAdev, HoldsStream
  <2>2. lock' = Released(t, IF call[t].op = "route" THEN {me} ELSE {me, "adev"})
    BY <1>d DEF Standby
  <2>3. CASE call[t].op = "route"
    BY <2>1, <2>2, <2>3 DEF Released, TypeOK
  <2>4. CASE call[t].op # "route"
    BY <2>1, <2>2, <2>4 DEF Released, TypeOK
  <2> QED
    BY <2>3, <2>4
<1>1. TypeOK'
  <2>1. /\ pc' \in [Threads -> Labels] /\ call' \in [Threads -> Calls \cup {NoCall}]
        /\ sco_on' \in [Threads -> BOOLEAN]
    <3>1. {"idle", "free", "set_device"} \subseteq Labels
      BY DEF Labels, HoldsAdev
    <3>2. pc \in [Threads -> Labels] /\ call \in [Threads -> Calls \cup {NoCall}]
          /\ sco_on \in [Threads -> BOOLEAN]
      BY DEF TypeOK
    <3>3. pc' \in [Threads -> Labels]
      BY <1>c, <3>1, <3>2
    <3>4. call' \in [Threads -> Calls \cup {NoCall}]
      BY <1>c, <3>2
    <3>5. sco_on' \in [Threads -> BOOLEAN]
      BY <1>c, <3>2
    <3> QED
      BY <3>3, <3>4, <3>5
  <2>2. standby' \in [Streams -> BOOLEAN] /\ active' \in [Streams -> BOOLEAN]
    BY <1>b DEF TypeOK
  <2> QED
    BY <1>b, <1>c, <1>e, <2>1, <2>2 DEF TypeOK
<1>2. Owners'
  BY <1>0, <1>a, <1>b, <1>c, <1>d, <1>e DEF TypeOK, Owners, ThreadOK, Calls, HoldsAdev,
     HoldsStream, Mutexes
<1>3. ASSUME NEW s \in Streams
      PROVE  StreamOK(s)'
  BY <1>0, <1>a, <1>b, <1>c, <1>d, <1>e, PcmForPcms DEF TypeOK, Owners, StreamOK,
     ThreadOK, Calls
<1>4. OneGroup'
  BY <1>0, <1>a, <1>b, <1>c, <1>d, <1>e, MatchesBoth DEF TypeOK, OneGroup, StreamOK,
     ThreadOK, Calls, Other
<1>5. Exclusive'
  BY <1>0, <1>a, <1>b, <1>c, <1>d, <1>e DEF TypeOK, Exclusive, Calls
<1>6. ASSUME NEW u \in Threads
      PROVE  ThreadOK(u)'
  <2>1. ThreadOK(u)
    OBVIOUS
  <2>2. CASE u = t
    BY <1>0, <1>a, <1>b, <1>c, <1>d, <1>e, <2>2 DEF TypeOK, Owners, StreamOK, ThreadOK,
       Calls, HoldsAdev, HoldsStream, PcmFor
  <2>3. CASE u # t
    BY <1>0, <1>a, <1>b, <1>c, <1>d, <1>e, <2>1, <2>3 DEF TypeOK, Owners, StreamOK,
       Exclusive, ThreadOK, Calls, HoldsAdev, HoldsStream, PcmFor
  <2> QED
    BY <2>2, <2>3
<1> QED
  BY <1>1, <1>2, <1>3, <1>4, <1>5, <1>6

LEMMA BeginKeeps ==
  ASSUME Inv, NEW t \in Threads, NEW c \in Calls, Begin(t, c)
  PROVE  Inv'
<1> USE StreamFacts, ThreadsAssumption DEF Inv, Goto, Stream, Op, streamVars, routeVars
<1>0. ThreadOK(t)
  OBVIOUS
<1>a. /\ pc[t] = "idle" /\ open[c.stream] /\ c.stream \in Streams
      /\ \A u \in Threads : pc[u] # "idle" /\ call[u].stream = c.stream
                              => call[u].op # "close" /\ c.op # "close"
      /\ call' = [call EXCEPT ![t] = c] /\ pc' = [pc EXCEPT ![t] = "lock_adev"]
      /\ UNCHANGED <<lock, open, standby, pcm, active, device, bit_in, sco_on>>
  BY DEF Begin, Calls
<1>1. TypeOK'
  BY <1>a DEF TypeOK, Labels
<1>2. Owners'
  BY <1>a DEF TypeOK, Owners, HoldsAdev, HoldsStream
<1>3. ASSUME NEW s \in Streams
      PROVE  StreamOK(s)'
  BY <1>a DEF StreamOK
<1>4. OneGroup'
  BY <1>a DEF OneGroup
<1>5. Exclusive'
  BY <1>a DEF TypeOK, Exclusive
<1>6. ASSUME NEW u \in Threads
      PROVE  ThreadOK(u)'
  <2>1. ThreadOK(u)
    OBVIOUS
  <2>2. CASE u = t
    BY <1>a, <2>2 DEF TypeOK, ThreadOK
  <2>3. CASE u # t
    BY <1>a, <2>1, <2>3 DEF TypeOK, ThreadOK, PcmFor
  <2> QED
    BY <2>2, <2>3
<1> QED
  BY <1>1, <1>2, <1>3, <1>4, <1>5, <1>6

LEMMA OpenStreamKeeps ==
  ASSUME Inv, NEW s \in Streams, NEW d \in DevicesOf(s), OpenStream(s, d)
  PROVE  Inv'
<1> USE StreamFacts, ThreadsAssumption DEF Inv, Stream, Op
<1>a. /\ ~open[s] /\ standby[s] /\ ~active[s] /\ d \in Devices
      /\ open' = [open EXCEPT ![s] = TRUE] /\ standby' = [standby EXCEPT ![s] = TRUE]
      /\ pcm' = [pcm EXCEPT ![s] = "none"] /\ device' = [device EXCEPT ![s] = d]
      /\ bit_in' = (bit_in \/ s = "in")
      /\ UNCHANGED <<pc, call, lock, active, sco_on>>
  BY DEF OpenStream, DevicesOf, Devices, StreamOK
<1>b. lock["adev"] = Nobody
  BY DEF OpenStream
<1>c. \A u \in Threads : pc[u] \notin HoldsAdev /\ (pc[u] # "idle" => call[u].stream # s)
  BY <1>a, <1>b DEF Owners, ThreadOK
<1>1. TypeOK'
  BY <1>a DEF TypeOK
<1>2. Owners'
  BY <1>a DEF Owners
<1>3. ASSUME NEW r \in Streams
      PROVE  StreamOK(r)'
  <2>1. CASE r = s
    BY <1>a, <2>1 DEF StreamOK, TypeOK
  <2>2. CASE r # s
    BY <1>a, <2>2 DEF StreamOK, TypeOK
  <2> QED
    BY <2>1, <2>2
<1>4. OneGroup'
  <2>1. CASE standby'["out"] \/ standby'["in"]
    BY <2>1 DEF OneGroup
  <2>2. CASE ~standby'["out"] /\ ~standby'["in"]
    BY <1>a, <2>2 DEF OneGroup, TypeOK, Streams
  <2> QED
    BY <2>1, <2>2
<1>5. Exclusive'
  BY <1>a DEF Exclusive
<1>6. ASSUME NEW u \in Threads
      PROVE  ThreadOK(u)'
  <2>1. ThreadOK(u) /\ pc[u] \notin HoldsAdev /\ (pc[u] # "idle" => call[u].stream # s)
    BY <1>c
  <2>2. CASE pc[u] = "idle"
    BY <1>a, <2>1, <2>2 DEF ThreadOK
  <2>3. CASE pc[u] # "idle"
    <3>1. PICK me \in Streams : me = call[u].stream /\ me # s
      BY <2>1, <2>3 DEF ThreadOK, Calls
    <3>2. /\ standby'[me] = standby[me] /\ device'[me] = device[me] /\ open'[me] = open[me]
      BY <1>a, <3>1 DEF TypeOK
    <3> QED
      BY <1>a, <2>1, <2>3, <3>1, <3>2 DEF ThreadOK, HoldsAdev
  <2> QED
    BY <2>2, <2>3
<1> QED
  BY <1>1, <1>2, <1>3, <1>4, <1>5, <1>6

-----------------------------------------------------------------------------

\* The inductive invariant: who holds which mutex, what is known of a stream out of
\* standby, and what each thread knows of the two at its place in the code.
THEOREM InvKept == Spec => []Inv
<1>1. Init => Inv
  <2> SUFFICES ASSUME Init PROVE Inv
    OBVIOUS
  <2> USE StreamFacts, ThreadsAssumption, DevicesAssumption DEF Init, Stream, Op
  <2>1. TypeOK
    BY DEF TypeOK, Labels, Devices
  <2>2. Owners
    BY DEF Owners, HoldsAdev, HoldsStream, Mutexes
  <2>3. (\A s \in Streams : StreamOK(s)) /\ OneGroup /\ Exclusive
    BY DEF StreamOK, OneGroup, Exclusive
  <2>4. \A t \in Threads : ThreadOK(t)
    BY DEF ThreadOK
  <2> QED
    BY <2>1, <2>2, <2>3, <2>4 DEF Inv
<1>2. Inv /\ [Next]_vars => Inv'
  <2> SUFFICES ASSUME Inv, [Next]_vars PROVE Inv'
    OBVIOUS
  <2>1. ASSUME NEW t \in Threads, Step(t) PROVE Inv'
    BY <2>1, LockAdevKeeps, LockStreamKeeps, LockRunningKeeps, LockOtherKeeps, StartKeeps,
       StartFailsKeeps, FinishTransferKeeps, StandbyKeeps, FreeKeeps, SetDeviceKeeps,
       RouteIgnoredKeeps DEF Step
  <2>2. ASSUME NEW t \in Threads, NEW c \in Calls, Begin(t, c) PROVE Inv'
    BY <2>2, BeginKeeps
  <2>3. ASSUME NEW s \in Streams, NEW d \in DevicesOf(s), OpenStream(s, d) PROVE Inv'
    BY <2>3, OpenStreamKeeps
  <2>4. CASE UNCHANGED vars
    BY <2>4 DEF vars, streamVars, routeVars, Inv, TypeOK, Owners, StreamOK, OneGroup,
       Exclusive, ThreadOK, Stream, Op, PcmFor
  <2> QED
    BY <2>1, <2>2, <2>3, <2>4 DEF Next
<1> QED
  BY <1>1, <1>2, PTL DEF Spec

\* Every variable keeps its type.
THEOREM TypeCorrect == Spec => []TypeOK
<1>1. Inv => TypeOK
  BY DEF Inv
<1> QED
  BY <1>1, InvKept, PTL

\* A transfer has its stream and an open PCM of the kind it believes in.
THEOREM TransfersSafe == Spec => []TransferSafe
<1>1. Inv => TransferSafe
  <2> SUFFICES ASSUME Inv, NEW t \in Threads, pc[t] = "transfer"
               PROVE  /\ lock[Stream(t)] = t
                      /\ pcm[Stream(t)] \in Pcms
                      /\ sco_on[t] <=> (pcm[Stream(t)] = "sco")
    BY DEF TransferSafe
  <2>1. ThreadOK(t) /\ Owners /\ \A s \in Streams : StreamOK(s)
    BY DEF Inv
  <2>2. Stream(t) \in Streams
    BY <2>1 DEF ThreadOK, Calls, Stream
  <2> QED
    BY <2>1, <2>2 DEF ThreadOK, Owners, StreamOK, HoldsStream
<1> QED
  BY <1>1, InvKept, PTL

\* No mutex of a freed stream is waited for, held or reached through the device.
THEOREM NoStreamFreedInUse == Spec => []NoFreedStream
<1>1. Inv => NoFreedStream
  <2> SUFFICES ASSUME Inv, NEW t \in Threads
               PROVE  /\ pc[t] # "idle" => open[Stream(t)]
                      /\ pc[t] = "lock_other" => open[Other(Stream(t))]
    BY DEF NoFreedStream
  <2>1. ThreadOK(t) /\ \A s \in Streams : StreamOK(s)
    BY DEF Inv
  <2>2. pc[t] # "idle" => Stream(t) \in Streams /\ Other(Stream(t)) \in Streams
    BY <2>1, StreamFacts DEF ThreadOK, Calls, Stream
  <2> QED
    BY <2>1, <2>2 DEF ThreadOK, StreamOK
<1> QED
  BY <1>1, InvKept, PTL

-----------------------------------------------------------------------------
(* Nobody waits in a circle.                                               *)

\* pthread_mutex_lock of m is where the thread is.
Needs(t, m) ==
  \/ pc[t] = "lock_adev" /\ m = "adev"
  \/ pc[t] = "lock_stream" /\ m = Stream(t)
  \/ pc[t] = "lock_other" /\ m = Other(Stream(t))

WaitsFor(t, u) == \E m \in Mutexes : Needs(t, m) /\ lock[m] = u

\* Who waits for the device waits for one who may wait for a stream, and that one
\* for a thread that does not wait: so no threads wait for each other, or for
\* themselves, although a start takes the streams' mutexes in either order.
ShortChains ==
  \A t, u, v, w \in Threads : ~(WaitsFor(t, u) /\ WaitsFor(u, v) /\ WaitsFor(v, w))

\* A stream's mutex is held, while its holder waits, by the holder of the device's.
LEMMA StreamsFollowAdev ==
  ASSUME Inv, NEW t \in Threads, NEW u \in Threads, WaitsFor(t, u), pc[t] # "lock_adev",
         NEW v \in Threads
  PROVE  ~WaitsFor(u, v)
<1>1. pc[t] \in {"lock_stream", "lock_other"}
  BY DEF WaitsFor, Needs
<1>2. Stream(t) \in Streams
  BY <1>1 DEF Inv, ThreadOK, Calls, Stream
<1>3. Other(Stream(t)) \in Streams /\ Other(Stream(t)) # Stream(t)
  BY <1>2, StreamFacts
<1>4. \E s \in Streams : /\ lock[s] = u
                         /\ pc[t] = "lock_stream" \/ s = Other(Stream(t))
  BY <1>1, <1>2, <1>3 DEF WaitsFor, Needs
<1>5. PICK s \in Streams : /\ lock[s] = u
                           /\ pc[t] = "lock_stream" \/ s = Other(Stream(t))
  BY <1>4
<1>6. pc[u] \in HoldsStream /\ Stream(u) = s
  BY <1>5 DEF Inv, Owners
<1>7. lock["adev"] = t
  BY <1>1 DEF Inv, Owners, HoldsAdev
<1>8. ASSUME WaitsFor(u, v) PROVE FALSE
  <2>1. pc[u] = "lock_other"
    BY <1>6, <1>8 DEF WaitsFor, Needs, HoldsStream
  <2>2. lock["adev"] = u
    BY <2>1 DEF Inv, Owners, HoldsAdev
  <2>3. t = u
    BY <1>7, <2>2
  <2> QED
    BY <2>1, <2>3, <1>3, <1>5, <1>6
<1> QED
  BY <1>8

\* Chains of waiting threads are short, whatever the threads do.
THEOREM NobodyWaitsInACircle == Spec => []ShortChains
<1>1. Inv => ShortChains
  <2> SUFFICES ASSUME Inv, NEW t \in Threads, NEW u \in Threads, NEW v \in Threads,
                      NEW w \in Threads, WaitsFor(t, u), WaitsFor(u, v), WaitsFor(v, w)
               PROVE  FALSE
    BY DEF ShortChains
  <2>1. pc[u] = "lock_adev"
    BY StreamsFollowAdev
  <2>2. pc[t] = "lock_adev"
    BY StreamsFollowAdev
  <2>3. lock["adev"] = u
    BY <2>2 DEF WaitsFor, Needs
  <2>4. pc[u] \in HoldsAdev
    BY <2>3 DEF Inv, Owners
  <2> QED
    BY <2>1, <2>4 DEF HoldsAdev
<1> QED
  BY <1>1, InvKept, PTL

-----------------------------------------------------------------------------
(* The refinement of PcmArbiter.                                           *)

LEMMA NothingUsed ==
  ASSUME UNCHANGED <<standby, pcm, device>>
  PROVE  UNCHANGED <<Using, device>>
  BY DEF Using

\* Putting a stream into standby is the arbiter's Stop.
LEMMA StandbyStops ==
  ASSUME Inv, NEW s \in Streams, DoStandby(s), UNCHANGED device
  PROVE  Arbiter!Stop(s)
<1>1. /\ standby' = [standby EXCEPT ![s] = TRUE]
      /\ \A r \in Streams \ {s} : pcm'[r] = pcm[r]
  BY StandbyEffect
<1>2. standby \in [Streams -> BOOLEAN]
  BY DEF Inv, TypeOK
<1>3. ASSUME NEW r \in Streams
      PROVE  Using'[r] = [Using EXCEPT ![s] = "none"][r]
  BY <1>1, <1>2 DEF Using
<1>4. Using' = [Using EXCEPT ![s] = "none"]
  <2>1. Using' = [r \in Streams |-> Using'[r]]
    BY DEF Using
  <2>2. [Using EXCEPT ![s] = "none"] = [r \in Streams |-> [Using EXCEPT ![s] = "none"][r]]
    BY DEF Using
  <2> QED
    BY <1>3, <2>1, <2>2
<1> QED
  BY <1>4 DEF Arbiter!Stop

LEMMA StartStarts ==
  ASSUME Inv, NEW t \in Threads, Start(t)
  PROVE  Arbiter!Next
<1> USE StreamFacts DEF Inv
<1>1. ThreadOK(t)
  OBVIOUS
<1>2. PICK s \in Streams : s = call[t].stream
  BY <1>1 DEF Start, ThreadOK, Calls, Stream
<1> DEFINE k == PcmFor(s)
           o == Other(s)
<1>3. standby[s] /\ k \in Pcms /\ ((k = "sco") <=> (device[s] = "sco"))
  BY <1>1, <1>2, PcmForPcms DEF Start, ThreadOK, Stream
<1>4. Using[s] = "none"
  BY <1>3 DEF Using
<1>5. Arbiter!Compatible(s, k)
  <2>1. ~standby[o] => Matches(Rate[s][k], Rate[o][pcm[o]])
    BY <1>1, <1>2 DEF Start, ThreadOK, StreamOK, Stream
  <2>2. \A r \in Streams \ {s} : r = o
    OBVIOUS
  <2>3. ASSUME NEW r \in Streams \ {s}, Using[r] # "none"
        PROVE  Matches(Rate[s][k], Rate[r][Using[r]])
    BY <2>1, <2>2, <2>3 DEF Using
  <2> QED
    BY <2>3 DEF Arbiter!Compatible, Matches
<1>6. Using' = [Using EXCEPT ![s] = k]
  <2>1. /\ pcm' = [pcm EXCEPT ![s] = k] /\ standby' = [standby EXCEPT ![s] = FALSE]
        /\ pcm \in [Streams -> Pcms \cup {"none", "dangling"}]
        /\ standby \in [Streams -> BOOLEAN]
    BY <1>2 DEF Start, TypeOK, Stream
  <2> HIDE DEF k
  <2> QED
    BY <2>1 DEF Using
<1>7. UNCHANGED device
  BY DEF Start, routeVars
<1> HIDE DEF k
<1>8. Arbiter!Start(s)
  BY <1>3, <1>4, <1>5, <1>6, <1>7 DEF Arbiter!Start
<1> QED
  BY <1>8 DEF Arbiter!Next

LEMMA SetDeviceReroutes ==
  ASSUME Inv, NEW t \in Threads, SetDevice(t)
  PROVE  Arbiter!Next
<1>1. ThreadOK(t)
  BY DEF Inv
<1>2. PICK s \in Streams : s = call[t].stream
  BY <1>1 DEF SetDevice, ThreadOK, Calls, Stream
<1>3. PICK d \in Devices : d = call[t].device
  BY <1>1 DEF SetDevice, ThreadOK, Op
<1>4. standby[s] \/ ((d = "sco") <=> (device[s] = "sco"))
  BY <1>1, <1>2, <1>3 DEF SetDevice, ThreadOK, Stream
<1>5. device' = [device EXCEPT ![s] = d] /\ UNCHANGED <<standby, pcm>>
  BY <1>2, <1>3 DEF SetDevice, Stream, streamVars
<1>6. Using[s] # "none" => ((d = "sco") <=> (device[s] = "sco"))
  BY <1>4 DEF Using
<1>7. UNCHANGED Using
  BY <1>5 DEF Using
<1>8. Arbiter!Reroute(s, d)
  BY <1>5, <1>6, <1>7 DEF Arbiter!Reroute
<1> QED
  BY <1>8 DEF Arbiter!Next

LEMMA OpenStreamReroutes ==
  ASSUME Inv, NEW s \in Streams, NEW d \in DevicesOf(s), OpenStream(s, d)
  PROVE  Arbiter!Next
<1>1. d \in Devices
  BY DEF DevicesOf, Devices
<1>2. standby[s] /\ standby \in [Streams -> BOOLEAN]
  BY DEF Inv, TypeOK, StreamOK, OpenStream
<1>3. /\ standby' = [standby EXCEPT ![s] = TRUE] /\ pcm' = [pcm EXCEPT ![s] = "none"]
      /\ device' = [device EXCEPT ![s] = d]
      /\ pcm \in [Streams -> Pcms \cup {"none", "dangling"}]
  BY DEF OpenStream, Inv, TypeOK
<1>4. Using[s] = "none" /\ UNCHANGED Using
  BY <1>2, <1>3 DEF Using
<1>5. Arbiter!Reroute(s, d)
  BY <1>3, <1>4 DEF Arbiter!Reroute
<1> QED
  BY <1>1, <1>5 DEF Arbiter!Next

LEMMA StepImplements ==
  ASSUME Inv, NEW t \in Threads, Step(t)
  PROVE  Arbiter!Next \/ UNCHANGED <<Using, device>>
<1>1. CASE LockAdev(t) \/ LockStream(t) \/ LockRunning(t) \/ FinishTransfer(t) \/ Free(t)
             \/ RouteIgnored(t)
  BY <1>1, NothingUsed DEF LockAdev, LockStream, LockRunning, FinishTransfer, Free,
     RouteIgnored, streamVars, routeVars
<1>2. CASE LockOther(t)
  <2>1. PICK o \in Streams : o = Other(call[t].stream)
    BY <1>2, StreamFacts DEF LockOther, Inv, ThreadOK, Calls, Stream
  <2>2. UNCHANGED device /\ (DoStandby(o) \/ UNCHANGED streamVars)
    BY <1>2, <2>1 DEF LockOther, Stream, routeVars
  <2>3. CASE DoStandby(o)
    BY <2>2, <2>3, StandbyStops DEF Arbiter!Next
  <2>4. CASE UNCHANGED streamVars
    BY <2>2, <2>4, NothingUsed DEF streamVars
  <2> QED
    BY <2>2, <2>3, <2>4
<1>3. CASE Start(t)
  BY <1>3, StartStarts
<1>4. CASE StartFails(t)
  <2>1. PICK s \in Streams : s = call[t].stream
    BY <1>4 DEF StartFails, Inv, ThreadOK, Calls, Stream
  <2>2. standby[s]
    BY <1>4, <2>1 DEF StartFails, Inv, ThreadOK, Stream
  <2>3. /\ pcm' = [pcm EXCEPT ![s] = "dangling"] /\ UNCHANGED <<standby, device>>
        /\ pcm \in [Streams -> Pcms \cup {"none", "dangling"}]
    BY <1>4, <2>1 DEF StartFails, Stream, routeVars, Inv, TypeOK
  <2>4. UNCHANGED Using
    BY <2>2, <2>3 DEF Using
  <2> QED
    BY <2>3, <2>4
<1>5. CASE Standby(t)
  <2>1. PICK s \in Streams : s = call[t].stream
    BY <1>5 DEF Standby, Inv, ThreadOK, Calls, Stream
  <2>2. DoStandby(s) /\ UNCHANGED device
    BY <1>5, <2>1 DEF Standby, Stream, routeVars
  <2> QED
    BY <2>2, StandbyStops DEF Arbiter!Next
<1>6. CASE SetDevice(t)
  BY <1>6, SetDeviceReroutes
<1> QED
  BY <1>1, <1>2, <1>3, <1>4, <1>5, <1>6 DEF Step

\* The audio HAL implements the arbiter of PCMs.
THEOREM ArbiterImplemented == Spec => ArbiterSpec
<1>1. Init => Arbiter!Init
  BY DevicesAssumption DEF Init, Arbiter!Init, Using, Devices, Streams
<1>2. Inv /\ [Next]_vars => [Arbiter!Next]_<<Using, device>>
  <2> SUFFICES ASSUME Inv, [Next]_vars
               PROVE  Arbiter!Next \/ UNCHANGED <<Using, device>>
    OBVIOUS
  <2>1. ASSUME NEW t \in Threads, Step(t)
        PROVE  Arbiter!Next \/ UNCHANGED <<Using, device>>
    BY <2>1, StepImplements
  <2>2. ASSUME NEW t \in Threads, NEW c \in Calls, Begin(t, c)
        PROVE  UNCHANGED <<Using, device>>
    BY <2>2, NothingUsed DEF Begin, streamVars, routeVars
  <2>3. ASSUME NEW s \in Streams, NEW d \in DevicesOf(s), OpenStream(s, d)
        PROVE  Arbiter!Next
    BY <2>3, OpenStreamReroutes
  <2>4. CASE UNCHANGED vars
    BY <2>4, NothingUsed DEF vars, streamVars, routeVars
  <2> QED
    BY <2>1, <2>2, <2>3, <2>4 DEF Next
<1> QED
  BY <1>1, <1>2, InvKept, PTL DEF Spec, ArbiterSpec, Arbiter!Spec

=============================================================================
