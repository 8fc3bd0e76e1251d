--------------------------- MODULE SensorsPollProofs ---------------------------
(***************************************************************************)
(* Proofs about InputEventReader and SensorsPoll, for readers of any size, *)
(* polls with room for any number of samples and any bounds.               *)
(***************************************************************************)
EXTENDS SensorsPoll, SequenceTheorems, TLAPS

ReaderTypes ==
  /\ mBuffer \in [Offsets -> Event \cup {Garbage}]
  /\ mHead \in 0 .. numEvents
  /\ mCurr \in 0 .. numEvents - 1
  /\ mFreeSpace \in 0 .. numEvents
  /\ kernel \in Seq(Event)

\* The unread events end where the head stands; only the head may stand at the end
\* of the buffer.
HeadMeets == mCurr + Available \in {mHead - numEvents, mHead, mHead + numEvents}

\* No place is read that was not written.
AllWritten == \A k \in 1 .. Available : mBuffer[Place(k)] \in Event

ReaderInv == ReaderTypes /\ HeadMeets /\ AllWritten

All == Unread \o kernel

-----------------------------------------------------------------------------

LEMMA PlaceIn ==
  ASSUME ReaderTypes, NEW k \in 1 .. numEvents
  PROVE  Place(k) \in 0 .. numEvents - 1
  BY ReaderAssumption DEF ReaderTypes, Place, Wraps, mBufferEnd

LEMMA UnreadSeq ==
  ASSUME ReaderInv
  PROVE  /\ Unread \in Seq(Event)
         /\ Len(Unread) = Available
         /\ Available \in 0 .. numEvents
         /\ \A k \in 1 .. Available : Unread[k] = mBuffer[Place(k)]
<1>1. Available \in 0 .. numEvents
  BY ReaderAssumption DEF ReaderInv, ReaderTypes, Available, mBufferEnd
<1>2. \A k \in 1 .. Available : mBuffer[Place(k)] \in Event
  BY DEF ReaderInv, AllWritten
<1> QED
  BY <1>1, <1>2 DEF Unread

\* What a fill does to the places of the reader.
LEMMA FillPlaces ==
  ASSUME ReaderInv, Fill
  PROVE  /\ ReadCount \in 1 .. numEvents - Available
         /\ ReadCount <= Len(kernel)
         /\ Available' = Available + ReadCount
         /\ mHead' \in 0 .. numEvents
         /\ mFreeSpace' \in 0 .. numEvents
         /\ HeadMeets'
         /\ \A k \in 1 .. Available : mBuffer'[Place(k)] = mBuffer[Place(k)]
         /\ \A j \in 1 .. ReadCount : mBuffer'[Place(Available + j)] = kernel[j]
<1> DEFINE n == ReadCount
<1>1. Len(kernel) \in Nat \ {0} /\ mFreeSpace \in 1 .. numEvents
  BY DEF Fill, ReaderInv, ReaderTypes
<1>2. n \in 1 .. mFreeSpace /\ n <= Len(kernel)
  BY <1>1 DEF ReadCount
<1>3. Available = numEvents - mFreeSpace /\ Available' = numEvents - mFreeSpace'
  BY DEF Available, mBufferEnd
<1>4. mFreeSpace' = mFreeSpace - n /\ mCurr' = mCurr
  BY DEF Fill
<1>5. ReadEnd = mHead + n
  BY DEF ReadEnd
<1>6. mBuffer' = ToFront(Written(n), ReadEnd)
  BY DEF Fill
<1>7. \A i \in Offsets :
        /\ i \in mHead .. mHead + n - 1 => Written(n)[i] = kernel[i - mHead + 1]
        /\ i \notin mHead .. mHead + n - 1 => Written(n)[i] = mBuffer[i]
  BY DEF Written
<1> HIDE DEF n
<1>8. /\ numEvents \in Nat \ {0} /\ mHead \in 0 .. numEvents
      /\ mCurr \in 0 .. numEvents - 1
      /\ mCurr + Available \in {mHead - numEvents, mHead, mHead + numEvents}
  BY ReaderAssumption DEF ReaderInv, ReaderTypes, HeadMeets
<1>9. \A i \in 0 .. numEvents - 1 : i \in Offsets /\ i + numEvents \in Offsets
  BY <1>8 DEF Offsets
<1>10. mHead' = IF mHead + n > numEvents THEN mHead + n - numEvents ELSE mHead + n
  <2>1. mHead' = IF ReadEnd > mBufferEnd THEN ReadEnd - mBufferEnd ELSE ReadEnd
    BY DEF Fill
  <2>2. ReadEnd \in Int /\ mBufferEnd = numEvents
    BY <1>1, <1>2, <1>5, <1>8 DEF mBufferEnd
  <2> QED
    BY <2>1, <2>2, <1>1, <1>2, <1>5, <1>8
<1>11. \A i \in Offsets :
         /\ i < mHead + n - numEvents => mBuffer'[i] = Written(n)[i + numEvents]
         /\ ~(i < mHead + n - numEvents) => mBuffer'[i] = Written(n)[i]
  <2>1. \A i \in Offsets :
          /\ i < ReadEnd - mBufferEnd => mBuffer'[i] = Written(n)[i + mBufferEnd]
          /\ ~(i < ReadEnd - mBufferEnd) => mBuffer'[i] = Written(n)[i]
    BY <1>6 DEF ToFront
  <2> QED
    BY <2>1, <1>1, <1>2, <1>5, <1>8 DEF mBufferEnd, Offsets
<1>12. ASSUME NEW k \in 1 .. Available
       PROVE  mBuffer'[Place(k)] = mBuffer[Place(k)]
  <2>1. Place(k) = IF mCurr + k - 1 >= numEvents THEN mCurr + k - 1 - numEvents
                   ELSE mCurr + k - 1
    BY DEF Place, Wraps, mBufferEnd
  <2>2. Place(k) \in 0 .. numEvents - 1
    BY <2>1, <1>8, <1>3, <1>1
  <2>3. Place(k) \notin mHead .. mHead + n - 1 /\ ~(Place(k) < mHead + n - numEvents)
    BY <2>1, <1>8, <1>3, <1>1, <1>2
  <2> QED
    BY <2>2, <2>3, <1>7, <1>9, <1>11
<1>13. ASSUME NEW j \in 1 .. n
       PROVE  mBuffer'[Place(Available + j)] = kernel[j]
  <2>1. PICK p : p = Place(Available + j)
    OBVIOUS
  <2>2. p = IF mCurr + (Available + j) - 1 >= numEvents
            THEN mCurr + (Available + j) - 1 - numEvents
            ELSE mCurr + (Available + j) - 1
    BY <2>1 DEF Place, Wraps, mBufferEnd
  <2>3. p \in 0 .. numEvents - 1
    BY <2>2, <1>8, <1>3, <1>1, <1>2
  <2>4. p \in Offsets /\ p + numEvents \in Offsets
    BY <2>3, <1>9
  <2>5. CASE p < mHead + n - numEvents
    <3>1. p + numEvents \in mHead .. mHead + n - 1 /\ p + numEvents - mHead + 1 = j
      BY <2>2, <2>3, <2>5, <1>8, <1>3, <1>1, <1>2
    <3>2. PICK q : q = p + numEvents
      OBVIOUS
    <3>3. Written(n)[q] = kernel[q - mHead + 1]
      BY <3>1, <3>2, <2>4, <1>7
    <3>4. mBuffer'[p] = Written(n)[q]
      BY <3>2, <2>4, <2>5, <1>11
    <3>5. q - mHead + 1 = j
      BY <3>1, <3>2, <2>3, <1>8
    <3>6. mBuffer'[p] = kernel[j]
      BY <3>3, <3>4, <3>5
    <3> QED
      BY <3>6, <2>1
  <2>6. CASE ~(p < mHead + n - numEvents)
    <3>1. p \in mHead .. mHead + n - 1 /\ p - mHead + 1 = j
      BY <2>2, <2>3, <2>6, <1>8, <1>3, <1>1, <1>2
    <3> QED
      BY <3>1, <2>1, <2>4, <2>6, <1>7, <1>11
  <2> QED
    BY <2>5, <2>6
<1>14. HeadMeets'
  <2>1. mCurr + Available + n \in {mHead' - numEvents, mHead', mHead' + numEvents}
    BY <1>1, <1>2, <1>3, <1>8, <1>10
  <2> QED
    BY <2>1, <1>1, <1>2, <1>3, <1>4, <1>8 DEF HeadMeets
<1>15. /\ n \in 1 .. numEvents - Available /\ Available' = Available + n
       /\ mHead' \in 0 .. numEvents /\ mFreeSpace' \in 0 .. numEvents
  BY <1>1, <1>2, <1>3, <1>4, <1>8, <1>10
<1> QED
  BY <1>2, <1>12, <1>13, <1>14, <1>15 DEF n

\* A fill leaves the queue as it is.
LEMMA FillStep ==
  ASSUME ReaderInv, Fill
  PROVE  ReaderInv' /\ All' = All
<1>1. PICK n, a : n = ReadCount /\ a = Available
  OBVIOUS
<1>2. /\ n \in 1 .. numEvents - a /\ n <= Len(kernel)
      /\ Available' = a + n
      /\ mHead' \in 0 .. numEvents /\ mFreeSpace' \in 0 .. numEvents
      /\ HeadMeets'
      /\ \A k \in 1 .. a : mBuffer'[Place(k)] = mBuffer[Place(k)]
      /\ \A j \in 1 .. n : mBuffer'[Place(a + j)] = kernel[j]
  BY <1>1, FillPlaces
<1>3. /\ a \in 0 .. numEvents /\ numEvents \in Nat
      /\ Unread \in Seq(Event) /\ Len(Unread) = a
      /\ \A k \in 1 .. a : Unread[k] = mBuffer[Place(k)]
  BY <1>1, UnreadSeq, ReaderAssumption
<1>4. kernel \in Seq(Event) /\ mBuffer \in [Offsets -> Event \cup {Garbage}]
  BY DEF ReaderInv, ReaderTypes
<1>5. mCurr' = mCurr /\ kernel' = SubSeq(kernel, n + 1, Len(kernel))
  BY <1>1 DEF Fill
<1>6. \A k : Place(k)' = Place(k)
  BY <1>5 DEF Place, Wraps, mBufferEnd
<1>7. \A k \in 1 .. a + n :
        mBuffer'[Place(k)] = IF k <= a THEN Unread[k] ELSE kernel[k - a]
  <2> SUFFICES ASSUME NEW k \in 1 .. a + n
               PROVE  mBuffer'[Place(k)] = IF k <= a THEN Unread[k] ELSE kernel[k - a]
    OBVIOUS
  <2>1. CASE k <= a
    <3>1. k \in 1 .. a
      BY <2>1, <1>2, <1>3
    <3> QED
      BY <3>1, <2>1, <1>2, <1>3
  <2>2. CASE ~(k <= a)
    <3>1. k - a \in 1 .. n /\ a + (k - a) = k
      BY <2>2, <1>2, <1>3
    <3> QED
      BY <3>1, <2>2, <1>2, <1>3
  <2> QED
    BY <2>1, <2>2
<1>8. \A k \in 1 .. a + n : mBuffer'[Place(k)] \in Event
  <2> SUFFICES ASSUME NEW k \in 1 .. a + n
               PROVE  mBuffer'[Place(k)] \in Event
    OBVIOUS
  <2>1. CASE k <= a
    <3>1. k \in 1 .. Len(Unread)
      BY <2>1, <1>2, <1>3
    <3> QED
      BY <3>1, <2>1, <1>3, <1>7
  <2>2. CASE ~(k <= a)
    <3>1. k - a \in 1 .. Len(kernel)
      BY <2>2, <1>2, <1>3, <1>4
    <3> QED
      BY <3>1, <2>2, <1>4, <1>7
  <2> QED
    BY <2>1, <2>2
<1>9. /\ kernel' \in Seq(Event) /\ Len(kernel') = Len(kernel) - n
      /\ \A k \in 1 .. Len(kernel) - n : kernel'[k] = kernel[n + k]
  <2>1. PICK m : m = Len(kernel)
    OBVIOUS
  <2>2. m \in Nat /\ \A i \in n + 1 .. m : kernel[i] \in Event
    BY <2>1, <1>2, <1>4
  <2>3. /\ SubSeq(kernel, n + 1, m) \in Seq(Event)
        /\ Len(SubSeq(kernel, n + 1, m)) = IF n + 1 <= m THEN m - (n + 1) + 1 ELSE 0
        /\ \A i \in 1 .. m - (n + 1) + 1 :
             SubSeq(kernel, n + 1, m)[i] = kernel[(n + 1) + i - 1]
    BY <2>2, <1>2, <1>3, SubSeqProperties
  <2>4. Len(SubSeq(kernel, n + 1, m)) = m - n
    BY <2>1, <2>2, <2>3, <1>2, <1>3
  <2>5. \A k \in 1 .. m - n : SubSeq(kernel, n + 1, m)[k] = kernel[n + k]
    <3> SUFFICES ASSUME NEW k \in 1 .. m - n
                 PROVE  SubSeq(kernel, n + 1, m)[k] = kernel[n + k]
      OBVIOUS
    <3>1. k \in 1 .. m - (n + 1) + 1 /\ (n + 1) + k - 1 = n + k
      BY <2>2, <1>2, <1>3
    <3> QED
      BY <3>1, <2>3
  <2> QED
    BY <2>1, <2>3, <2>4, <2>5, <1>5
<1>10. mBuffer' \in [Offsets -> Event \cup {Garbage}]
  <2>1. Written(n) \in [Offsets -> Event \cup {Garbage}]
    <3> SUFFICES ASSUME NEW i \in Offsets, i \in mHead .. mHead + n - 1
                 PROVE  kernel[i - mHead + 1] \in Event
      BY <1>4 DEF Written
    <3>1. i - mHead + 1 \in 1 .. Len(kernel)
      BY <1>2, <1>4, <1>3 DEF ReaderInv, ReaderTypes
    <3> QED
      BY <3>1, <1>4
  <2>2. mBuffer' = ToFront(Written(n), ReadEnd)
    BY <1>1 DEF Fill
  <2>3. \A i \in Offsets : i < ReadEnd - mBufferEnd => i + mBufferEnd \in Offsets
    <3> SUFFICES ASSUME NEW i \in Offsets, i < ReadEnd - mBufferEnd
                 PROVE  i + mBufferEnd \in Offsets
      OBVIOUS
    <3>1. mHead \in 0 .. numEvents
      BY DEF ReaderInv, ReaderTypes
    <3>2. ReadEnd = mHead + n /\ mBufferEnd = numEvents
      BY <1>1 DEF ReadEnd, mBufferEnd
    <3>3. i \in Nat /\ i < numEvents
      BY <3>1, <3>2, <1>2, <1>3 DEF Offsets
    <3> QED
      BY <3>2, <3>3, <1>3 DEF Offsets
  <2> QED
    BY <2>1, <2>2, <2>3 DEF ToFront
<1>11. ReaderInv'
  <2>1. ReaderTypes'
    BY <1>2, <1>5, <1>9, <1>10 DEF ReaderInv, ReaderTypes, Offsets
  <2>2. AllWritten'
    BY <1>2, <1>6, <1>8 DEF AllWritten
  <2> QED
    BY <2>1, <2>2, <1>2 DEF ReaderInv
<1>12. /\ Unread' \in Seq(Event) /\ Len(Unread') = a + n
       /\ \A k \in 1 .. a + n : Unread'[k] = mBuffer'[Place(k)]
  <2>1. Unread' = [k \in 1 .. Available' |-> mBuffer'[Place(k)']]
    BY DEF Unread
  <2>2. Unread' = [k \in 1 .. a + n |-> mBuffer'[Place(k)]]
    BY <2>1, <1>2, <1>6
  <2>3. a + n \in Nat
    BY <1>2, <1>3
  <2> QED
    BY <2>2, <2>3, <1>8
<1>13. All' = All
  <2>1. PICK m : m = Len(kernel) /\ m \in Nat
    BY <1>4
  <2>2. /\ All \in Seq(Event) /\ Len(All) = a + m
        /\ \A k \in 1 .. a + m : All[k] = IF k <= a THEN Unread[k] ELSE kernel[k - a]
    BY <2>1, <1>3, <1>4, ConcatProperties DEF All
  <2>3. /\ Unread' \o kernel' \in Seq(Event)
        /\ Len(Unread' \o kernel') = a + n + (m - n)
        /\ \A k \in 1 .. a + n + (m - n) :
             (Unread' \o kernel')[k] = IF k <= a + n THEN Unread'[k]
                                       ELSE kernel'[k - (a + n)]
    <3>1. PICK u, w : u = Unread' /\ w = kernel'
      OBVIOUS
    <3>2. /\ u \in Seq(Event) /\ Len(u) = a + n
          /\ w \in Seq(Event) /\ Len(w) = m - n
      BY <3>1, <2>1, <1>9, <1>12
    <3>3. /\ u \o w \in Seq(Event) /\ Len(u \o w) = Len(u) + Len(w)
          /\ \A k \in 1 .. Len(u) + Len(w) :
               (u \o w)[k] = IF k <= Len(u) THEN u[k] ELSE w[k - Len(u)]
      BY <3>2, ConcatProperties
    <3> QED
      BY <3>1, <3>2, <3>3
  <2>4. a + n + (m - n) = a + m
    BY <2>1, <1>2, <1>3
  <2>5. \A k \in 1 .. a + m : (Unread' \o kernel')[k] = All[k]
    <3> SUFFICES ASSUME NEW k \in 1 .. a + m
                 PROVE  (Unread' \o kernel')[k] = All[k]
      OBVIOUS
    <3>1. CASE k <= a + n
      <4>1. k \in 1 .. a + n
        BY <3>1, <1>2, <1>3
      <4> QED
        BY <3>1, <4>1, <2>2, <2>3, <2>4, <1>7, <1>12
    <3>2. CASE ~(k <= a + n)
      <4>1. /\ k - (a + n) \in 1 .. m - n /\ n + (k - (a + n)) = k - a
            /\ ~(k <= a) /\ ~(k <= a + n)
        BY <3>2, <2>1, <1>2, <1>3
      <4>2. kernel'[k - (a + n)] = kernel[k - a]
        BY <4>1, <2>1, <1>9
      <4> QED
        BY <4>1, <4>2, <2>2, <2>3, <2>4
    <3> QED
      BY <3>1, <3>2
  <2>6. Unread' \o kernel' = All
    BY <2>2, <2>3, <2>4, <2>5, SeqEqual
  <2> QED
    BY <2>6 DEF All
<1> QED
  BY <1>11, <1>13

\* Passing an event takes it from the queue.
LEMMA NextStep ==
  ASSUME ReaderInv, NextEvent, Available > 0
  PROVE  ReaderInv' /\ All # <<>> /\ All' = Tail(All)
<1>1. PICK a : a = Available
  OBVIOUS
<1>2. /\ a \in 1 .. numEvents /\ numEvents \in Nat \ {0} /\ mFreeSpace \in 0 .. numEvents
      /\ Unread \in Seq(Event) /\ Len(Unread) = a
      /\ \A k \in 1 .. a : Unread[k] = mBuffer[Place(k)]
      /\ kernel \in Seq(Event)
  BY <1>1, UnreadSeq, ReaderAssumption DEF ReaderInv, ReaderTypes
<1>3. /\ mCurr' = IF mCurr + 1 >= numEvents THEN 0 ELSE mCurr + 1
      /\ mBuffer' = mBuffer /\ mHead' = mHead /\ kernel' = kernel
  BY DEF NextEvent, Wraps, mBufferEnd
<1>4. mFreeSpace' = mFreeSpace + 1 /\ a = numEvents - mFreeSpace
  BY <1>1 DEF NextEvent, Available, mBufferEnd
<1>5. Available' = a - 1 /\ mFreeSpace' \in 0 .. numEvents
  BY <1>2, <1>4 DEF Available, mBufferEnd
<1>6. mCurr \in 0 .. numEvents - 1
  BY DEF ReaderInv, ReaderTypes
<1>7. ASSUME NEW k \in 1 .. a - 1
      PROVE  Place(k)' = Place(k + 1) /\ k + 1 \in 1 .. a
  <2>1. Place(k)' = IF mCurr' + k - 1 >= numEvents THEN mCurr' + k - 1 - numEvents
                    ELSE mCurr' + k - 1
    BY DEF Place, Wraps, mBufferEnd
  <2>2. Place(k + 1) = IF mCurr + (k + 1) - 1 >= numEvents
                       THEN mCurr + (k + 1) - 1 - numEvents
                       ELSE mCurr + (k + 1) - 1
    BY DEF Place, Wraps, mBufferEnd
  <2> QED
    BY <2>1, <2>2, <1>2, <1>3, <1>6
<1>8. ReaderInv'
  <2>1. ReaderTypes'
    BY <1>2, <1>3, <1>5, <1>6 DEF ReaderInv, ReaderTypes, Offsets
  <2>2. HeadMeets'
    <3>1. mCurr + a \in {mHead - numEvents, mHead, mHead + numEvents}
      BY <1>1 DEF ReaderInv, HeadMeets
    <3>2. mHead \in 0 .. numEvents
      BY DEF ReaderInv, ReaderTypes
    <3>3. mCurr' + (a - 1) \in {mHead - numEvents, mHead, mHead + numEvents}
      BY <3>1, <3>2, <1>2, <1>3, <1>6
    <3> QED
      BY <3>3, <1>3, <1>5 DEF HeadMeets
  <2>3. AllWritten'
    <3>1. \A k \in 1 .. a : mBuffer[Place(k)] \in Event
      BY <1>1 DEF ReaderInv, AllWritten
    <3>2. \A k \in 1 .. a - 1 : mBuffer'[Place(k)'] \in Event
      BY <3>1, <1>3, <1>7
    <3> QED
      BY <3>2, <1>5 DEF AllWritten
  <2> QED
    BY <2>1, <2>2, <2>3 DEF ReaderInv
<1>9. Unread' = [k \in 1 .. a - 1 |-> Unread[k + 1]]
  <2>1. Unread' = [k \in 1 .. Available' |-> mBuffer'[Place(k)']]
    BY DEF Unread
  <2>2. \A k \in 1 .. a - 1 : mBuffer'[Place(k)'] = Unread[k + 1]
    BY <1>2, <1>3, <1>7
  <2> QED
    BY <2>1, <2>2, <1>5
<1>10. PICK u, w : u = Unread /\ w = kernel
  OBVIOUS
<1>11. u \in Seq(Event) /\ Len(u) = a /\ w \in Seq(Event)
  BY <1>2, <1>10
<1>12. Unread' = Tail(Unread)
  <2>1. Unread' = [k \in 1 .. a - 1 |-> u[k + 1]]
    BY <1>9, <1>10
  <2>2. PICK v : v = [k \in 1 .. a - 1 |-> u[k + 1]]
    OBVIOUS
  <2>3. /\ Tail(u) \in Seq(Event) /\ Len(Tail(u)) = a - 1
        /\ \A k \in 1 .. a - 1 : Tail(u)[k] = u[k + 1]
    BY <1>2, <1>11
  <2>4. /\ v \in Seq(Event) /\ Len(v) = a - 1
        /\ \A k \in 1 .. a - 1 : v[k] = u[k + 1]
    <3>1. \A k \in 1 .. a - 1 : u[k + 1] \in Event
      BY <1>2, <1>11
    <3> QED
      BY <3>1, <2>2, <1>2
  <2>5. Tail(u) = v
    BY <2>3, <2>4, SeqEqual
  <2> QED
    BY <2>1, <2>2, <2>5, <1>10
<1>13. u \o w # <<>> /\ Tail(u \o w) = Tail(u) \o w
  BY <1>2, <1>11
<1> QED
  BY <1>3, <1>8, <1>10, <1>12, <1>13 DEF All

\* What the kernel reports is added to it.
LEMMA ArriveStep ==
  ASSUME ReaderInv, NEW es \in Seq(Event), Arrive(es)
  PROVE  ReaderInv' /\ EQ!Add
<1>1. /\ mBuffer' = mBuffer /\ mHead' = mHead /\ mCurr' = mCurr
      /\ mFreeSpace' = mFreeSpace /\ kernel' = kernel \o es
  BY DEF Arrive
<1>2. kernel \in Seq(Event) /\ kernel' \in Seq(Event)
  BY <1>1 DEF ReaderInv, ReaderTypes
<1>3. Available' = Available /\ \A k : Place(k)' = Place(k)
  BY <1>1 DEF Available, Place, Wraps
<1>4. ReaderInv'
  BY <1>1, <1>2, <1>3 DEF ReaderInv, ReaderTypes, HeadMeets, AllWritten
<1>5. Unread' = Unread
  BY <1>1, <1>3 DEF Unread
<1>6. PICK u, w : u = Unread /\ w = kernel
  OBVIOUS
<1>7. u \in Seq(Event) /\ w \in Seq(Event)
  BY <1>2, <1>6, UnreadSeq
<1>8. /\ u \o (w \o es) \in Seq(Event)
      /\ Len(u \o (w \o es)) >= Len(u \o w)
      /\ \A k \in 1 .. Len(u \o w) : (u \o (w \o es))[k] = (u \o w)[k]
  BY <1>7
<1> QED
  BY <1>1, <1>4, <1>5, <1>6, <1>8 DEF EQ!Add

LEMMA SameReader ==
  ASSUME ReaderInv, UNCHANGED readerVars
  PROVE  ReaderInv' /\ All' = All
<1>1. Available' = Available /\ \A k : Place(k)' = Place(k)
  BY DEF readerVars, Available, Place, Wraps
<1>2. Unread' = Unread
  BY <1>1 DEF readerVars, Unread
<1> QED
  BY <1>1, <1>2 DEF readerVars, All, ReaderInv, ReaderTypes, HeadMeets, AllWritten

LEMMA ReaderStarts ==
  ASSUME ReaderInit
  PROVE  ReaderInv /\ All = <<>>
<1>1. /\ mBuffer = [i \in Offsets |-> Garbage] /\ mHead = 0 /\ mCurr = 0
      /\ mFreeSpace = numEvents /\ kernel = <<>>
  BY DEF ReaderInit
<1>2. numEvents \in Nat \ {0} /\ Available = 0
  BY <1>1, ReaderAssumption DEF Available, mBufferEnd
<1>3. ReaderInv
  BY <1>1, <1>2 DEF ReaderInv, ReaderTypes, HeadMeets, AllWritten
<1>4. Unread = <<>>
  BY <1>2 DEF Unread
<1> QED
  BY <1>1, <1>3, <1>4 DEF All

-----------------------------------------------------------------------------
(* The reader as its callers use it, one of them being the polling thread. *)

LEMMA ReaderStep ==
  ASSUME ReaderInv, [ReaderNext]_readerVars
  PROVE  ReaderInv' /\ [EQ!Add \/ EQ!Take]_All
<1>1. CASE Fill
  BY <1>1, FillStep
<1>2. CASE Available > 0 /\ NextEvent
  BY <1>2, NextStep DEF EQ!Take, All
<1>3. ASSUME NEW es \in Seq(Event), Arrive(es)
      PROVE  ReaderInv' /\ EQ!Add
  BY <1>3, ArriveStep
<1>4. CASE UNCHANGED readerVars
  BY <1>4, SameReader
<1> QED
  BY <1>1, <1>2, <1>3, <1>4 DEF ReaderNext

\* In every behaviour of the reader there is an event at each place that readEvent
\* may return, and the head stands where the unread events end.
THEOREM ReaderInvKept == ReaderSpec => []ReaderInv
<1>1. ReaderInit => ReaderInv
  BY ReaderStarts
<1>2. ReaderInv /\ [ReaderNext]_readerVars => ReaderInv'
  BY ReaderStep
<1> QED
  BY <1>1, <1>2, PTL DEF ReaderSpec

\* A reader of any size and the descriptor it reads are one queue: fill() and next()
\* lose, double and reorder nothing.
THEOREM ReaderIsQueue == ReaderSpec => QueueSpec
<1>1. ReaderInit => All = <<>>
  BY ReaderStarts
<1>2. ReaderInv /\ [ReaderNext]_readerVars => [EQ!Add \/ EQ!Take]_All
  BY ReaderStep
<1> QED
  BY <1>1, <1>2, ReaderInvKept, PTL DEF ReaderSpec, QueueSpec, EQ!Spec, All

Reported == reported \in 0 .. MaxSamples

LEMMA PollStep ==
  ASSUME Reported, [Next]_vars
  PROVE  Reported' /\ [ReaderNext]_readerVars
<1>1. CASE PollThread
  <2>1. CASE FillReader
    BY <2>1 DEF FillReader, ReaderNext, Reported
  <2>2. CASE ReadRel \/ ReadSyn \/ ReadOther
    BY <2>2 DEF ReadRel, ReadSyn, ReadOther, MoreEvents, ReaderNext, Reported
  <2>3. CASE Scan \/ EventsRead \/ PollReturns \/ Return
    BY <2>3 DEF Scan, EventsRead, PollReturns, Return, Reported
  <2> QED
    BY <1>1, <2>1, <2>2, <2>3 DEF PollThread
<1>2. CASE Call \/ (\E en \in BOOLEAN : Activate(en)) \/ Wake \/ UNCHANGED vars
  BY <1>2 DEF Call, Activate, Wake, vars, Reported
<1>3. CASE Report
  <2>1. Reported' /\ reported' \in 1 .. MaxSamples
    BY <1>3, BoundsAssumption DEF Report, Reported
  <2>2. PICK types \in {<<"rel", "syn">>, <<"rel", "other", "syn">>} :
          Arrive([k \in DOMAIN types |-> [type |-> types[k], sample |-> reported']])
    BY <1>3 DEF Report
  <2>3. PICK es : es = [k \in DOMAIN types |-> [type |-> types[k], sample |-> reported']]
    OBVIOUS
  <2>4. types \in Seq(Types)
    <3>1. "rel" \in Types /\ "syn" \in Types /\ "other" \in Types
      BY DEF Types
    <3>2. <<"rel", "syn">> \in Seq(Types) /\ <<"rel", "other", "syn">> \in Seq(Types)
      BY <3>1
    <3> QED
      BY <2>2, <3>2
  <2>5. \A k \in 1 .. Len(types) : [type |-> types[k], sample |-> reported'] \in Event
    BY <2>1, <2>4, EventAssumption DEF InputEvents
  <2>6. es \in Seq(Event)
    BY <2>3, <2>4, <2>5
  <2> QED
    BY <2>1, <2>2, <2>3, <2>6 DEF ReaderNext
<1> QED
  BY <1>1, <1>2, <1>3 DEF Next

\* The polling thread calls next() for an event it has seen and fill() only where
\* the reader's own specification lets it, whatever the other thread and the kernel do.
THEOREM PollUsesReader == Spec => ReaderSpec
<1>1. Init => Reported /\ ReaderInit
  BY BoundsAssumption DEF Init, Reported
<1>2. Reported /\ [Next]_vars => Reported' /\ [ReaderNext]_readerVars
  BY PollStep
<1> QED
  BY <1>1, <1>2, PTL DEF Spec, ReaderSpec

\* From the kernel's report to the driver, input events are a queue.
THEOREM EventsQueued == Spec => QueueSpec
BY PollUsesReader, ReaderIsQueue, PTL

-----------------------------------------------------------------------------
(* The types of both threads' state.                                       *)

PollTypes ==
  /\ pc \in {"idle", "scan", "fill", "events", "poll", "return"}
  /\ count \in Nat /\ nb \in 0 .. count
  /\ data \in Seq(Samples) /\ delivered \in Seq(Samples)
  /\ pending \in 0 .. MaxSamples

OtherTypes ==
  /\ {revents, mEnabled, hw_enabled} \subseteq BOOLEAN
  /\ ctl \in {"idle", "wake"} /\ wake \in 0 .. PipeCap
  /\ reported \in 0 .. MaxSamples /\ activations \in 0 .. MaxActivations

\* Samples are counted while events are read, and nowhere else.
CountsEvents == pc = "events" \/ nb = 0

TypeInv == PollTypes /\ OtherTypes /\ CountsEvents

LEMMA EventRead ==
  ASSUME ReaderInv, Available > 0
  PROVE  ReadEvent \in InputEvents
<1>1. 1 \in 1 .. Available
  BY UnreadSeq
<1>2. Place(1) = mCurr
  BY ReaderAssumption DEF ReaderInv, ReaderTypes, Place, Wraps, mBufferEnd
<1> QED
  BY <1>1, <1>2, EventAssumption DEF ReaderInv, AllWritten, ReadEvent

LEMMA PollTypesKept ==
  ASSUME TypeInv, ReaderInv, [Next]_vars
  PROVE  PollTypes' /\ CountsEvents'
<1> USE DEF TypeInv, PollTypes, CountsEvents
<1>1. CASE Call
  BY <1>1, CountsAssumption DEF Call
<1>2. CASE Scan \/ FillReader
  BY <1>2 DEF Scan, FillReader, pollVars
<1>3. CASE ReadRel
  <2>1. ReadEvent.sample \in 1 .. MaxSamples
    BY <1>3, EventRead DEF ReadRel, MoreEvents, InputEvents
  <2> QED
    BY <1>3, <2>1 DEF ReadRel
<1>4. CASE ReadSyn
  <2>1. ReadEvent.sample \in 1 .. MaxSamples
    BY <1>4, EventRead DEF ReadSyn, MoreEvents, InputEvents
  <2>2. [time |-> ReadEvent.sample, value |-> pending] \in Samples
    BY <2>1 DEF Samples
  <2>3. data' \in Seq(Samples)
    BY <1>4, <2>2 DEF ReadSyn
  <2>4. nb' \in 0 .. count'
    BY <1>4 DEF ReadSyn, MoreEvents
  <2> QED
    BY <1>4, <2>3, <2>4 DEF ReadSyn
<1>5. CASE ReadOther
  BY <1>5 DEF ReadOther, pollVars
<1>6. CASE EventsRead
  BY <1>6 DEF EventsRead
<1>7. CASE PollReturns
  BY <1>7 DEF PollReturns, pollVars
<1>8. CASE Return
  <2>1. delivered' \in Seq(Samples) /\ data' \in Seq(Samples)
    BY <1>8 DEF Return
  <2> QED
    BY <1>8, <2>1 DEF Return
<1>9. CASE (\E en \in BOOLEAN : Activate(en)) \/ Wake \/ Report \/ UNCHANGED vars
  BY <1>9 DEF Activate, Wake, Report, vars, pollVars
<1> QED
  BY <1>1, <1>2, <1>3, <1>4, <1>5, <1>6, <1>7, <1>8, <1>9 DEF Next, PollThread

LEMMA OtherTypesKept ==
  ASSUME TypeInv, [Next]_vars
  PROVE  OtherTypes'
<1> USE DEF TypeInv, OtherTypes
<1>1. CASE PollThread
  <2>1. CASE Scan \/ FillReader \/ ReadRel \/ ReadSyn \/ ReadOther \/ Return
    BY <2>1 DEF Scan, FillReader, ReadRel, ReadSyn, ReadOther, Return, ctlVars
  <2>2. CASE EventsRead
    BY <2>2 DEF EventsRead, ctlVars
  <2>3. CASE PollReturns
    BY <2>3, BoundsAssumption DEF PollReturns, ctlVars
  <2> QED
    BY <1>1, <2>1, <2>2, <2>3 DEF PollThread
<1>2. ASSUME NEW en \in BOOLEAN, Activate(en)
      PROVE  OtherTypes'
  BY <1>2, BoundsAssumption
  DEF Activate, ActivateSame, ActivateSets, ActivateFails, EndActivate
<1>3. CASE Wake
  BY <1>3, BoundsAssumption DEF Wake
<1>4. CASE Report
  BY <1>4, BoundsAssumption DEF Report, ctlVars
<1>5. CASE Call \/ UNCHANGED vars
  BY <1>5 DEF Call, vars, ctlVars
<1> QED
  BY <1>1, <1>2, <1>3, <1>4, <1>5 DEF Next

\* Both threads' variables keep their types, of any reader.
LEMMA TypesKept == Spec => []TypeInv
<1>1. ASSUME Init
      PROVE  TypeInv
  <2>1. PollTypes /\ CountsEvents
    BY <1>1, BoundsAssumption DEF Init, PollTypes, CountsEvents
  <2>2. {revents, mEnabled, hw_enabled} \subseteq BOOLEAN
    <3>1. hw_enabled \in BOOLEAN /\ mEnabled \in {FALSE, hw_enabled} /\ revents = FALSE
      BY <1>1 DEF Init
    <3> QED
      BY <3>1
  <2>3. /\ ctl \in {"idle", "wake"} /\ wake \in 0 .. PipeCap
        /\ reported \in 0 .. MaxSamples /\ activations \in 0 .. MaxActivations
    BY <1>1, BoundsAssumption DEF Init
  <2> QED
    BY <2>1, <2>2, <2>3 DEF TypeInv, OtherTypes
<1>2. TypeInv /\ ReaderInv /\ [Next]_vars => TypeInv'
  BY PollTypesKept, OtherTypesKept DEF TypeInv
<1> QED
  BY <1>1, <1>2, PollUsesReader, ReaderInvKept, PTL DEF Spec

\* Every event that is read is an input event, not what a new buffer holds; no call
\* counts more samples than it has room for; the pipe holds no more than it can.
THEOREM TypeCorrect == Spec => []TypeOK
<1>1. TypeInv /\ ReaderInv => TypeOK
  BY DEF TypeInv, PollTypes, OtherTypes, ReaderInv, ReaderTypes, TypeOK
<1> QED
  BY <1>1, TypesKept, PollUsesReader, ReaderInvKept, PTL

-----------------------------------------------------------------------------
(* What SensorService gets.                                                *)

Got == delivered \o data

\* A sample's events are together, from "rel" to "syn", and samples follow each other.
EventsFollow(q) ==
  \A k \in 1 .. Len(q) - 1 :
    IF q[k].type = "syn" THEN q[k + 1].type = "rel" /\ q[k + 1].sample = q[k].sample + 1
    ELSE q[k + 1].type # "rel" /\ q[k + 1].sample = q[k].sample

\* The last sample in the queue is the one reported last.
EndsWith(q, n) == q[Len(q)].type = "syn" /\ q[Len(q)].sample = n

\* The next event is of the sample to be delivered next, and its values have been
\* read unless it brings them.
NextIsNext ==
  IF All = <<>> THEN reported = Len(Got)
  ELSE /\ All[1].sample = Len(Got) + 1
       /\ All[1].type # "rel" => pending = Len(Got) + 1
       /\ EndsWith(All, reported)

OrderInv ==
  /\ EventsFollow(All) /\ NextIsNext /\ DeliveredInOrder
  /\ pc = "idle" => data = <<>>

LEMMA AllEvents ==
  ASSUME ReaderInv
  PROVE  All \in Seq(InputEvents)
  BY UnreadSeq, EventAssumption DEF All, ReaderInv, ReaderTypes

LEMMA FirstIsRead ==
  ASSUME ReaderInv, Available > 0
  PROVE  /\ ReadEvent = All[1] /\ All # <<>>
         /\ All \in Seq(InputEvents) /\ Len(All) \in Nat \ {0}
<1>1. /\ Unread \in Seq(Event) /\ Len(Unread) = Available
      /\ Unread[1] = mBuffer[Place(1)] /\ Available \in Nat \ {0}
  BY UnreadSeq, ReaderAssumption
<1>2. Place(1) = mCurr
  BY ReaderAssumption DEF ReaderInv, ReaderTypes, Place, Wraps, mBufferEnd
<1>3. kernel \in Seq(Event)
  BY DEF ReaderInv, ReaderTypes
<1>4. All[1] = Unread[1] /\ Len(All) \in Nat \ {0}
  BY <1>1, <1>3 DEF All
<1> QED
  BY <1>1, <1>2, <1>4, AllEvents DEF ReadEvent

\* The tail of a queue of samples is one, and what follows its head.
LEMMA TailFollows ==
  ASSUME NEW q \in Seq(InputEvents), q # <<>>, EventsFollow(q)
  PROVE  /\ EventsFollow(Tail(q))
         /\ Tail(q) = <<>> => Len(q) = 1
         /\ Tail(q) # <<>> =>
              /\ \A n : EndsWith(q, n) => EndsWith(Tail(q), n)
              /\ IF q[1].type = "syn"
                 THEN Tail(q)[1].type = "rel" /\ Tail(q)[1].sample = q[1].sample + 1
                 ELSE Tail(q)[1].type # "rel" /\ Tail(q)[1].sample = q[1].sample
<1>1. /\ Len(q) \in Nat \ {0} /\ Tail(q) \in Seq(InputEvents) /\ Len(Tail(q)) = Len(q) - 1
      /\ \A k \in 1 .. Len(q) - 1 : Tail(q)[k] = q[k + 1]
  OBVIOUS
<1>2. Tail(q) = <<>> <=> Len(q) = 1
  BY <1>1
<1>3. EventsFollow(Tail(q))
  <2> SUFFICES ASSUME NEW k \in 1 .. Len(Tail(q)) - 1
               PROVE  IF Tail(q)[k].type = "syn"
                      THEN Tail(q)[k + 1].type = "rel" /\ Tail(q)[k + 1].sample = Tail(q)[k].sample + 1
                      ELSE Tail(q)[k + 1].type # "rel" /\ Tail(q)[k + 1].sample = Tail(q)[k].sample
    BY DEF EventsFollow
  <2>1. k + 1 \in 1 .. Len(q) - 1 /\ k \in 1 .. Len(q) - 1
    BY <1>1
  <2>2. Tail(q)[k] = q[k + 1] /\ Tail(q)[k + 1] = q[(k + 1) + 1]
    BY <1>1, <2>1
  <2> QED
    BY <2>1, <2>2 DEF EventsFollow
<1>4. ASSUME Tail(q) # <<>>
      PROVE  /\ \A n : EndsWith(q, n) => EndsWith(Tail(q), n)
             /\ IF q[1].type = "syn"
                THEN Tail(q)[1].type = "rel" /\ Tail(q)[1].sample = q[1].sample + 1
                ELSE Tail(q)[1].type # "rel" /\ Tail(q)[1].sample = q[1].sample
  <2>1. 1 \in 1 .. Len(q) - 1 /\ Len(Tail(q)) \in 1 .. Len(q) - 1
    BY <1>1, <1>2, <1>4
  <2>2. Tail(q)[1] = q[1 + 1] /\ Tail(q)[Len(Tail(q))] = q[Len(q)]
    BY <1>1, <2>1
  <2> QED
    BY <2>1, <2>2 DEF EndsWith, EventsFollow
<1> QED
  BY <1>2, <1>3, <1>4

\* The events of the next sample follow those of the ones before it.
LEMMA SampleFollows ==
  ASSUME NEW q \in Seq(InputEvents), EventsFollow(q), NEW n \in Nat,
         q # <<>> => EndsWith(q, n),
         NEW es \in Seq(InputEvents), Len(es) \in {2, 3},
         \A k \in 1 .. Len(es) : es[k].sample = n + 1,
         es[1].type = "rel", es[Len(es)].type = "syn",
         Len(es) = 3 => es[2].type = "other"
  PROVE  /\ EventsFollow(q \o es) /\ EndsWith(q \o es, n + 1)
         /\ q \o es # <<>>
         /\ (q \o es)[1] = IF q = <<>> THEN es[1] ELSE q[1]
<1> DEFINE r == q \o es
<1>1. /\ r \in Seq(InputEvents) /\ Len(r) = Len(q) + Len(es) /\ Len(q) \in Nat
      /\ \A k \in 1 .. Len(q) : r[k] = q[k]
      /\ \A k \in 1 .. Len(es) : r[Len(q) + k] = es[k]
  OBVIOUS
<1> HIDE DEF r
<1>2. EventsFollow(r)
  <2> SUFFICES ASSUME NEW k \in 1 .. Len(r) - 1
               PROVE  IF r[k].type = "syn" THEN r[k + 1].type = "rel" /\ r[k + 1].sample = r[k].sample + 1
                      ELSE r[k + 1].type # "rel" /\ r[k + 1].sample = r[k].sample
    BY DEF EventsFollow
  <2>1. CASE k < Len(q)
    <3>1. k \in 1 .. Len(q) - 1 /\ k \in 1 .. Len(q) /\ k + 1 \in 1 .. Len(q)
      <4>1. Len(r) \in Nat /\ Len(q) \in Nat
        BY <1>1
      <4>2. k \in Int /\ 1 <= k
        BY <4>1
      <4> QED
        BY <4>1, <4>2, <2>1
    <3>2. r[k] = q[k] /\ r[k + 1] = q[k + 1]
      BY <1>1, <3>1
    <3> QED
      BY <3>1, <3>2 DEF EventsFollow
  <2>2. CASE k = Len(q)
    <3>1. q # <<>> /\ r[k] = q[Len(q)]
      BY <1>1, <2>2
    <3>2. r[k + 1] = es[1] /\ es[1].sample = n + 1
      BY <1>1, <2>2
    <3> QED
      BY <3>1, <3>2 DEF EndsWith
  <2>3. CASE k > Len(q)
    <3>1. PICK j \in 1 .. Len(es) - 1 : k = Len(q) + j
      <4>1. k - Len(q) \in 1 .. Len(es) - 1 /\ k = Len(q) + (k - Len(q))
        BY <1>1, <2>3
      <4> QED
        BY <4>1
    <3>2. j \in 1 .. Len(es) /\ j + 1 \in 1 .. Len(es) /\ k + 1 = Len(q) + (j + 1)
      BY <1>1, <3>1
    <3>3. r[k] = es[j] /\ r[k + 1] = es[j + 1]
      BY <1>1, <3>1, <3>2
    <3>4. es[j].sample = n + 1 /\ es[j + 1].sample = n + 1
      BY <3>2
    <3>5. es[j].type # "syn" /\ es[j + 1].type # "rel"
      <4>1. CASE Len(es) = 2
        <5>1. j = 1 /\ es[1].type = "rel" /\ es[2].type = "syn"
          BY <3>1, <4>1
        <5> QED
          BY <5>1
      <4>2. CASE Len(es) = 3
        <5>1. es[1].type = "rel" /\ es[2].type = "other" /\ es[3].type = "syn"
          BY <4>2
        <5>2. CASE j = 1
          BY <5>1, <5>2
        <5>3. CASE j = 2
          BY <5>1, <5>3
        <5> QED
          BY <3>1, <4>2, <5>2, <5>3
      <4> QED
        BY <4>1, <4>2
    <3> QED
      BY <3>3, <3>4, <3>5
  <2> QED
    BY <1>1, <2>1, <2>2, <2>3
<1>3. EndsWith(r, n + 1)
  <2>1. Len(es) \in 1 .. Len(es)
    OBVIOUS
  <2>2. r[Len(r)] = es[Len(es)] /\ es[Len(es)].sample = n + 1
    BY <1>1, <2>1
  <2> QED
    BY <2>2 DEF EndsWith
<1>4. r # <<>>
  BY <1>1
<1>5. r[1] = IF q = <<>> THEN es[1] ELSE q[1]
  BY <1>1
<1> QED
  BY <1>2, <1>3, <1>4, <1>5 DEF r

\* Reading an event: the sample is there once its "syn" has been read.
LEMMA ReadKeepsOrder ==
  ASSUME OrderInv, ReaderInv, TypeInv, ReadRel \/ ReadSyn \/ ReadOther
  PROVE  OrderInv'
<1>1. Available > 0 /\ NextEvent /\ UNCHANGED reported /\ pc' # "idle"
  BY DEF ReadRel, ReadSyn, ReadOther, MoreEvents
<1>2. All' = Tail(All)
  BY <1>1, NextStep
<1>3. /\ ReadEvent = All[1] /\ All # <<>>
      /\ All \in Seq(InputEvents) /\ Len(All) \in Nat \ {0}
  BY <1>1, FirstIsRead
<1>4. /\ All[1].sample = Len(Got) + 1
      /\ All[1].type # "rel" => pending = Len(Got) + 1
      /\ EndsWith(All, reported) /\ EventsFollow(All)
  BY <1>3 DEF OrderInv, NextIsNext
<1>5. /\ EventsFollow(All')
      /\ All' = <<>> => Len(All) = 1
      /\ All' # <<>> =>
           /\ EndsWith(All', reported)
           /\ IF All[1].type = "syn" THEN All'[1].type = "rel" /\ All'[1].sample = All[1].sample + 1
              ELSE All'[1].type # "rel" /\ All'[1].sample = All[1].sample
  BY <1>2, <1>3, <1>4, TailFollows
<1>6. delivered \in Seq(Samples) /\ data \in Seq(Samples) /\ Got \in Seq(Samples)
  BY DEF TypeInv, PollTypes, Got
<1>7. reported' = reported
  BY <1>1
<1>8. CASE ReadSyn
  <2> DEFINE x == [time |-> Len(Got) + 1, value |-> Len(Got) + 1]
  <2>1. All[1].type = "syn" /\ delivered' = delivered /\ data' = Append(data, x)
    BY <1>3, <1>4, <1>8 DEF ReadSyn
  <2>2. x \in Samples
    <3>1. ReadEvent \in InputEvents /\ pending \in 0 .. MaxSamples
      BY <1>1, EventRead DEF TypeInv, PollTypes
    <3> QED
      BY <1>3, <1>4, <2>1, <3>1 DEF InputEvents, Samples
  <2> HIDE DEF x
  <2>3. Got' = Append(Got, x)
    <3>1. \A a, b \in Seq(Samples) : a \o Append(b, x) = Append(a \o b, x)
      BY <2>2
    <3> QED
      BY <1>6, <2>1, <3>1 DEF Got
  <2>4. /\ Len(Got') = Len(Got) + 1 /\ Len(Got) \in Nat
        /\ Got'[Len(Got) + 1] = x
        /\ \A k \in 1 .. Len(Got) : Got'[k] = Got[k]
        /\ DOMAIN Got' = 1 .. Len(Got) + 1
    BY <1>6, <2>2, <2>3
  <2>5. ASSUME NEW k \in DOMAIN Got'
        PROVE  Got'[k] = [time |-> k, value |-> k]
    <3>1. CASE k = Len(Got) + 1
      BY <2>4, <3>1 DEF x
    <3>2. CASE k # Len(Got) + 1
      <4>1. k \in 1 .. Len(Got) /\ k \in DOMAIN Got
        BY <1>6, <2>4, <3>2
      <4> QED
        BY <2>4, <4>1 DEF OrderInv, DeliveredInOrder, Got
    <3> QED
      BY <3>1, <3>2
  <2>6. DeliveredInOrder'
    BY <2>5 DEF DeliveredInOrder, Got
  <2>7. CASE All' = <<>>
    <3>1. reported = Len(Got) + 1
      BY <1>3, <1>4, <1>5, <2>7 DEF EndsWith
    <3> QED
      BY <1>1, <1>5, <1>7, <2>4, <2>6, <2>7, <3>1 DEF OrderInv, NextIsNext
  <2>8. CASE All' # <<>>
    <3>1. All'[1].sample = Len(Got') + 1 /\ All'[1].type = "rel"
      BY <1>4, <1>5, <2>1, <2>4, <2>8
    <3> QED
      BY <1>1, <1>5, <1>7, <2>6, <2>8, <3>1 DEF OrderInv, NextIsNext
  <2> QED
    BY <2>7, <2>8
<1>9. CASE ReadRel \/ ReadOther
  <2>1. /\ All[1].type # "syn"
        /\ Got' = Got
        /\ pending' = IF All[1].type = "rel" THEN All[1].sample ELSE pending
    BY <1>3, <1>9 DEF ReadRel, ReadOther, pollVars, Got
  <2>2. All' # <<>>
    BY <1>4, <1>5, <2>1 DEF EndsWith
  <2>3. DeliveredInOrder'
    BY <2>1 DEF OrderInv, DeliveredInOrder, Got
  <2>4. pending' = Len(Got) + 1
    BY <1>4, <2>1
  <2> QED
    BY <1>1, <1>4, <1>5, <1>7, <2>1, <2>2, <2>3, <2>4 DEF OrderInv, NextIsNext
<1> QED
  BY <1>8, <1>9

\* The kernel reports the sample after the last one, whole.
LEMMA ReportKeepsOrder ==
  ASSUME OrderInv, ReaderInv, TypeInv, Report
  PROVE  OrderInv'
<1>1. /\ reported' = reported + 1 /\ reported \in Nat /\ reported' \in 1 .. MaxSamples
      /\ UNCHANGED <<pending, delivered, data, pc>>
  BY BoundsAssumption DEF Report, pollVars, TypeInv, OtherTypes
<1>2. PICK types \in {<<"rel", "syn">>, <<"rel", "other", "syn">>} :
        Arrive([k \in DOMAIN types |-> [type |-> types[k], sample |-> reported']])
  BY DEF Report
<1>3. PICK es : es = [k \in DOMAIN types |-> [type |-> types[k], sample |-> reported']]
  OBVIOUS
<1>4. /\ types \in Seq(Types) /\ Len(types) \in {2, 3} /\ types[1] = "rel"
      /\ types[Len(types)] = "syn" /\ (Len(types) = 3 => types[2] = "other")
  <2>1. "rel" \in Types /\ "syn" \in Types /\ "other" \in Types
    BY DEF Types
  <2>2. CASE types = <<"rel", "syn">>
    BY <2>1, <2>2
  <2>3. CASE types = <<"rel", "other", "syn">>
    BY <2>1, <2>3
  <2> QED
    BY <1>2, <2>2, <2>3
<1>5. /\ es \in Seq(InputEvents) /\ Len(es) = Len(types)
      /\ \A k \in 1 .. Len(es) : es[k].type = types[k] /\ es[k].sample = reported + 1
  <2>1. DOMAIN types = 1 .. Len(types) /\ \A k \in 1 .. Len(types) : types[k] \in Types
    BY <1>4
  <2>2. \A k \in 1 .. Len(types) : [type |-> types[k], sample |-> reported'] \in InputEvents
    BY <1>1, <2>1 DEF InputEvents
  <2>3. es = [k \in 1 .. Len(types) |-> [type |-> types[k], sample |-> reported']]
    BY <1>3, <2>1
  <2> QED
    BY <1>1, <1>4, <2>2, <2>3
<1>6. All \in Seq(InputEvents) /\ Unread \in Seq(InputEvents) /\ kernel \in Seq(InputEvents)
  BY AllEvents, UnreadSeq, EventAssumption DEF ReaderInv, ReaderTypes
<1>7. All' = All \o es
  <2>1. /\ mBuffer' = mBuffer /\ mCurr' = mCurr /\ mFreeSpace' = mFreeSpace
        /\ kernel' = kernel \o es
    BY <1>2, <1>3 DEF Arrive
  <2>2. Available' = Available /\ \A k : Place(k)' = Place(k)
    BY <2>1 DEF Available, Place, Wraps
  <2>3. Unread' = Unread
    BY <2>1, <2>2 DEF Unread
  <2>4. \A u, w, e \in Seq(InputEvents) : u \o (w \o e) = (u \o w) \o e
    OBVIOUS
  <2> QED
    BY <1>5, <1>6, <2>1, <2>3, <2>4 DEF All
<1>8. EventsFollow(All) /\ (All # <<>> => EndsWith(All, reported))
  BY DEF OrderInv, NextIsNext
<1>9. /\ 1 \in 1 .. Len(es) /\ Len(es) \in 1 .. Len(es) /\ Len(es) \in {2, 3}
      /\ es[1].type = "rel" /\ es[Len(es)].type = "syn"
      /\ Len(es) = 3 => es[2].type = "other"
  <2>1. Len(es) \in {2, 3}
    BY <1>4, <1>5
  <2>2. 1 \in 1 .. Len(es) /\ 2 \in 1 .. Len(es) /\ Len(es) \in 1 .. Len(es)
    BY <2>1
  <2> QED
    BY <1>4, <1>5, <2>1, <2>2
<1>10. /\ EventsFollow(All') /\ EndsWith(All', reported + 1) /\ All' # <<>>
       /\ All'[1] = IF All = <<>> THEN es[1] ELSE All[1]
  BY <1>1, <1>5, <1>6, <1>7, <1>8, <1>9, SampleFollows
<1>11. Got' = Got /\ DeliveredInOrder' /\ (pc' = "idle" => data' = <<>>)
  BY <1>1 DEF Got, OrderInv, DeliveredInOrder
<1>12. All'[1].sample = Len(Got) + 1 /\ (All'[1].type # "rel" => pending = Len(Got) + 1)
  <2>1. CASE All = <<>>
    BY <1>5, <1>9, <1>10, <2>1 DEF OrderInv, NextIsNext
  <2>2. CASE All # <<>>
    BY <1>10, <2>2 DEF OrderInv, NextIsNext
  <2> QED
    BY <2>1, <2>2
<1> QED
  BY <1>1, <1>10, <1>11, <1>12 DEF OrderInv, NextIsNext

LEMMA OthersKeepOrder ==
  ASSUME OrderInv, ReaderInv, TypeInv, [Next]_vars, ~ReadRel, ~ReadSyn, ~ReadOther, ~Report
  PROVE  OrderInv'
<1>1. /\ UNCHANGED <<pending, reported>>
      /\ UNCHANGED <<delivered, data>> \/ Return \/ Call
      /\ pc' = "idle" => (pc = "idle" /\ UNCHANGED data) \/ Return
      /\ UNCHANGED readerVars \/ Fill
  BY DEF Next, PollThread, Call, Scan, FillReader, EventsRead, PollReturns, Return, Activate,
         Wake, vars, pollVars
<1>2. All' = All
  BY <1>1, FillStep, SameReader
<1>3. delivered \in Seq(Samples) /\ data \in Seq(Samples)
  BY DEF TypeInv, PollTypes
<1>4. Got' = Got
  <2>1. CASE UNCHANGED <<delivered, data>>
    BY <2>1 DEF Got
  <2>2. CASE Return
    <3>1. delivered' = delivered \o data /\ data' = <<>>
      BY <2>2 DEF Return
    <3>2. \A d \in Seq(Samples) : d \o <<>> = d
      OBVIOUS
    <3>3. delivered \o data \in Seq(Samples)
      BY <1>3
    <3> QED
      BY <3>1, <3>2, <3>3 DEF Got
  <2>3. CASE Call
    BY <2>3 DEF Call, Got, OrderInv
  <2> QED
    BY <1>1, <2>1, <2>2, <2>3
<1>5. pc' = "idle" => data' = <<>>
  BY <1>1 DEF OrderInv, Return
<1> QED
  BY <1>1, <1>2, <1>4, <1>5 DEF OrderInv, NextIsNext, DeliveredInOrder, Got

\* SensorService gets the samples in order, each once and each with its own values,
\* for readers of any size, calls with room for any number of samples, and whatever
\* the threads and the kernel do between two steps of the polling thread.
THEOREM SamplesInOrder == Spec => []DeliveredInOrder
<1>1. Init => OrderInv
  <2> SUFFICES ASSUME Init PROVE OrderInv
    OBVIOUS
  <2>1. All = <<>> /\ delivered = <<>> /\ data = <<>> /\ reported = 0
    BY ReaderStarts DEF Init
  <2>2. Got = <<>>
    BY <2>1 DEF Got
  <2>3. Len(<<>>) = 0 /\ DOMAIN <<>> = {}
    OBVIOUS
  <2>4. EventsFollow(All)
    BY <2>1 DEF EventsFollow
  <2>5. DeliveredInOrder
    BY <2>2, <2>3 DEF DeliveredInOrder, Got
  <2> QED
    BY <2>1, <2>2, <2>3, <2>4, <2>5 DEF OrderInv, NextIsNext
<1>2. OrderInv /\ ReaderInv /\ TypeInv /\ [Next]_vars => OrderInv'
  BY ReadKeepsOrder, ReportKeepsOrder, OthersKeepOrder
<1>3. OrderInv => DeliveredInOrder
  BY DEF OrderInv
<1> QED
  BY <1>1, <1>2, <1>3, TypesKept, PollUsesReader, ReaderInvKept, PTL DEF Spec

-----------------------------------------------------------------------------
(* When the polling thread waits.                                          *)

\* Outside of readEvents the reader is empty, and revents is set only while the
\* descriptor has events.  Only a call that uses up its room leaves either behind.
AllRead ==
  pc # "events" =>
    /\ Available = 0
    /\ revents => kernel # <<>>
    /\ pc = "fill" => revents

LEMMA AllReadKept ==
  ASSUME AllRead, TypeInv, ReaderInv, RoomLeft', [Next]_vars
  PROVE  AllRead'
<1> USE DEF AllRead
<1>1. CASE Call \/ Return
  BY <1>1 DEF Call, Return, readerVars, Available
<1>2. CASE Scan
  BY <1>2 DEF Scan, readerVars, Available
<1>3. CASE FillReader
  BY <1>3 DEF FillReader
<1>4. CASE ReadRel \/ ReadSyn \/ ReadOther
  <2>1. pc = "events" /\ pc' = "events"
    BY <1>4 DEF ReadRel, ReadSyn, ReadOther
  <2> QED
    BY <2>1
<1>5. CASE EventsRead
  <2>1. nb # count
    BY <1>5 DEF EventsRead, RoomLeft, TypeInv, PollTypes
  <2>2. Available = 0
    BY <1>5, <2>1, ReaderAssumption
    DEF EventsRead, MoreEvents, TypeInv, PollTypes, ReaderInv, ReaderTypes, Available, mBufferEnd
  <2>3. Available' = Available /\ revents' = FALSE /\ pc' \in {"poll", "return"}
    BY <1>5, <2>1 DEF EventsRead, readerVars, Available
  <2> QED
    BY <2>2, <2>3
<1>6. CASE PollReturns
  BY <1>6 DEF PollReturns, Ready, readerVars, Available
<1>7. CASE (\E en \in BOOLEAN : Activate(en)) \/ Wake \/ UNCHANGED vars
  BY <1>7 DEF Activate, Wake, vars, readerVars, Available
<1>8. CASE Report
  <2>1. pc' = pc /\ revents' = revents /\ Available' = Available
    BY <1>8 DEF Report, Arrive, Available
  <2>2. PICK types \in {<<"rel", "syn">>, <<"rel", "other", "syn">>} :
          Arrive([k \in DOMAIN types |-> [type |-> types[k], sample |-> reported']])
    BY <1>8 DEF Report
  <2>3. PICK es : es = [k \in DOMAIN types |-> [type |-> types[k], sample |-> reported']]
    OBVIOUS
  <2>4. es \in Seq({es[k] : k \in DOMAIN es}) /\ Len(es) \in {2, 3}
    <3>1. CASE types = <<"rel", "syn">>
      BY <2>3, <3>1
    <3>2. CASE types = <<"rel", "other", "syn">>
      BY <2>3, <3>2
    <3> QED
      BY <2>2, <3>1, <3>2
  <2>5. Len(kernel \o es) = Len(kernel) + Len(es)
    BY <2>4 DEF ReaderInv, ReaderTypes
  <2>6. kernel' = kernel \o es /\ Len(kernel) \in Nat
    BY <2>2, <2>3 DEF Arrive, ReaderInv, ReaderTypes
  <2>7. kernel # <<>> => kernel' # <<>>
    BY <2>4, <2>5, <2>6
  <2> QED
    BY <2>1, <2>7
<1> QED
  BY <1>1, <1>2, <1>3, <1>4, <1>5, <1>6, <1>7, <1>8 DEF Next, PollThread

\* "or just wait if we don't have anything to return": as long as no call uses up its
\* room, the thread never waits with a sample in the caller's buffer or in the reader.
THEOREM NeverWaitsWithSamples == Spec => WaitsEmptyHanded
<1>1. Init => AllRead
  BY ReaderAssumption DEF Init, ReaderInit, AllRead, Available, mBufferEnd
<1>2. AllRead /\ TypeInv /\ ReaderInv /\ RoomLeft' /\ [Next]_vars => AllRead'
  BY AllReadKept
<1>3. AllRead /\ TypeInv => WaitsWithNothing
  BY DEF AllRead, TypeInv, PollTypes, CountsEvents, WaitsWithNothing, Waiting, Waits, nbEvents
<1> QED
  BY <1>1, <1>2, <1>3, TypesKept, PollUsesReader, ReaderInvKept, PTL DEF Spec, WaitsEmptyHanded

=============================================================================
