--------------------------- MODULE InputEventReader ---------------------------
(***************************************************************************)
(* InputEventCircularReader (libsensors/InputEventReader.cpp): a buffer    *)
(* for twice as many events as it is to hold.  A read goes to one place    *)
(* and may run over the end; what does is copied to the front.  Pointers   *)
(* are offsets from mBuffer.                                               *)
(***************************************************************************)
EXTENDS Integers, Sequences

CONSTANTS
  Event,       \* struct input_event
  Garbage,     \* what a new buffer holds
  numEvents    \* the constructor's parameter

ASSUME ReaderAssumption == Garbage \notin Event /\ numEvents \in Nat \ {0}

VARIABLES
  mBuffer, mHead, mCurr, mFreeSpace,
  kernel    \* the events that can be read from the descriptor

readerVars == <<mBuffer, mHead, mCurr, mFreeSpace, kernel>>

mBufferEnd == numEvents
Offsets == 0 .. 2 * numEvents - 1

ReaderInit ==
  /\ mBuffer = [i \in Offsets |-> Garbage]
  /\ mHead = 0 /\ mCurr = 0
  /\ mFreeSpace = numEvents
  /\ kernel = <<>>

\* How many events read() returns: all there are, if there is space.
ReadCount == IF Len(kernel) < mFreeSpace THEN Len(kernel) ELSE mFreeSpace
ReadEnd == mHead + ReadCount

\* What it leaves in the buffer.
Written(n) ==
  [i \in Offsets |-> IF i \in mHead .. mHead + n - 1 THEN kernel[i - mHead + 1]
                     ELSE mBuffer[i]]

\* What stands behind the end, if anything does, is copied to the front.
MutToFront(b, h) == b
ToFront(b, h) == [i \in Offsets |-> IF i < h - mBufferEnd THEN b[i + mBufferEnd] ELSE b[i]]

\* fill(), when there is free space: read() waits until there is an event.
Fill ==
  /\ mFreeSpace > 0 /\ kernel # <<>>
  /\ mBuffer' = ToFront(Written(ReadCount), ReadEnd)
  /\ mHead' = IF ReadEnd > mBufferEnd THEN ReadEnd - mBufferEnd ELSE ReadEnd
  /\ mFreeSpace' = mFreeSpace - ReadCount
  /\ kernel' = SubSeq(kernel, ReadCount + 1, Len(kernel))
  /\ UNCHANGED mCurr

\* readEvent(): whether there is an event, and which.
Available == mBufferEnd - mFreeSpace
ReadEvent == mBuffer[mCurr]

MutWraps(i) == i > mBufferEnd    \* off by one
Wraps(i) == i >= mBufferEnd

\* next().
NextEvent ==
  /\ mCurr' = IF Wraps(mCurr + 1) THEN 0 ELSE mCurr + 1
  /\ mFreeSpace' = mFreeSpace + 1
  /\ UNCHANGED <<mBuffer, mHead, kernel>>

\* The kernel has more events.
Arrive(es) ==
  /\ kernel' = kernel \o es
  /\ UNCHANGED <<mBuffer, mHead, mCurr, mFreeSpace>>

\* Its callers call next() only for an event they have seen.
ReaderNext == Fill \/ (Available > 0 /\ NextEvent) \/ \E es \in Seq(Event) : Arrive(es)

ReaderSpec == ReaderInit /\ [][ReaderNext]_readerVars

-----------------------------------------------------------------------------

\* The k-th event that has been filled in and not been passed.
Place(k) == IF Wraps(mCurr + k - 1) THEN mCurr + k - 1 - mBufferEnd ELSE mCurr + k - 1
Unread == [k \in 1 .. Available |-> mBuffer[Place(k)]]

EQ == INSTANCE EventQueue WITH queue <- Unread \o kernel

\* The reader and the descriptor are one queue: filling loses, doubles and reorders
\* nothing and nothing is read before it is written, wherever head and reading
\* position stand.
QueueSpec == EQ!Spec

=============================================================================
