--------------------------- MODULE HdmiAudioProofs ---------------------------
(***************************************************************************)
(* Theorems of HdmiAudio: who holds the PCM, which channel a speaker gets   *)
(* and which layouts are offered, for any number of streams, any TVs and    *)
(* any channel maps.                                                        *)
(***************************************************************************)
EXTENDS HdmiAudio, FiniteSetTheorems, SequenceTheorems, WellFoundedInduction, TLAPS

-----------------------------------------------------------------------------
(* Induction over an interval, for sets.                                    *)

\* A set of naturals that is not empty has a least element.
LEMMA LeastNatural ==
  ASSUME NEW T, T \subseteq Nat, T # {}
  PROVE  \E n \in T : \A m \in T : n <= m
<1> DEFINE R == OpToRel(<, Nat)
<1>1. IsWellFoundedOn(R, Nat)
  BY NatLessThanWellFounded
<1>2. \A a, b \in Nat : a < b => <<a, b>> \in R
  BY DEF OpToRel
<1> HIDE DEF R
<1>3. PICK n \in T : \A m \in T : ~ (<<m, n>> \in R)
  BY <1>1, WFMin
<1>4. \A m \in T : ~(m < n)
  BY <1>2, <1>3
<1>5. \A m \in T : m \in Nat /\ n \in Nat
  OBVIOUS
<1> QED
  BY <1>4, <1>5

\* What holds at 0 and from each number to the next one holds up to n.
LEMMA UpTo ==
  ASSUME NEW n \in Nat, NEW T, 0 \in T, \A k \in 1 .. n : k - 1 \in T => k \in T
  PROVE  \A k \in 0 .. n : k \in T
<1> DEFINE Bad == (0 .. n) \ T
<1>1. SUFFICES ASSUME Bad # {} PROVE FALSE
  OBVIOUS
<1>2. PICK m \in Bad : \A c \in Bad : m <= c
  <2>1. Bad \subseteq Nat
    OBVIOUS
  <2> HIDE DEF Bad
  <2> QED
    BY <1>1, <2>1, LeastNatural
<1>3. m \in 1 .. n /\ m \notin T /\ m - 1 \in 0 .. n
  OBVIOUS
<1>4. m - 1 \in T
  BY <1>2, <1>3
<1> QED
  BY <1>3, <1>4

-----------------------------------------------------------------------------
(* The PCM.                                                                 *)

\* Streams are records; what else they hold does not matter here.
Fields ==
  /\ DOMAIN out = Streams
  /\ \A s \in Streams : {"pc", "up", "pcm", "channels", "steady", "buffcpy"} = DOMAIN out[s]

Flags == \A s \in Streams :
  /\ out[s].up \in BOOLEAN /\ out[s].pcm = out[s].up
  /\ out[s].pc = "closed" => out[s].up = FALSE

Held == holder = {s \in Streams : out[s].up}

Alone == \A s, t \in Streams : out[s].up /\ out[t].up => s = t

PcmInv == Fields /\ Flags /\ Held /\ Alone

\* The ways in which a step concerns the PCM: not at all, ...
Unmoved ==
  /\ UNCHANGED holder
  /\ \A s \in Streams :
       /\ out'[s].up = out[s].up /\ out'[s].pcm = out[s].pcm
       /\ out'[s].pc = "closed" => out[s].pc = "closed"

\* ... a stream gives it up, or had none, ...
GaveUp(s) ==
  /\ holder' = holder \ {s}
  /\ out'[s].up = FALSE /\ out'[s].pcm = FALSE
  /\ \A t \in Streams \ {s} : out'[t] = out[t]

\* ... or a stream takes it while nobody has it.
Took(s) ==
  /\ holder = {} /\ holder' = {s}
  /\ out'[s].up = TRUE /\ out'[s].pcm = TRUE /\ out'[s].pc # "closed"
  /\ \A t \in Streams \ {s} : out'[t] = out[t]

-----------------------------------------------------------------------------
LEMMA UnmovedKeeps == ASSUME PcmInv, Fields', Unmoved PROVE PcmInv'
BY DEF PcmInv, Unmoved, Flags, Held, Alone

LEMMA GaveUpKeeps ==
  ASSUME PcmInv, Fields', NEW s \in Streams, GaveUp(s) PROVE PcmInv'
<1>1. \A t \in Streams : t # s => out'[t] = out[t]  BY DEF GaveUp
<1>2. out'[s].up = FALSE /\ out'[s].pcm = FALSE  BY DEF GaveUp
<1>3. Flags'  BY <1>1, <1>2 DEF PcmInv, Flags
<1>4. Held'  BY <1>1, <1>2 DEF PcmInv, Held, GaveUp
<1>5. Alone'  BY <1>1, <1>2 DEF PcmInv, Alone
<1> QED  BY <1>3, <1>4, <1>5 DEF PcmInv

LEMMA TookKeeps ==
  ASSUME PcmInv, Fields', NEW s \in Streams, Took(s) PROVE PcmInv'
<1>1. \A t \in Streams : t # s => out'[t] = out[t]  BY DEF Took
<1>2. out'[s].up = TRUE /\ out'[s].pcm = TRUE /\ out'[s].pc # "closed"  BY DEF Took
<1>3. \A t \in Streams : ~out[t].up  BY DEF PcmInv, Held, Took
<1>4. Flags'  BY <1>1, <1>2 DEF PcmInv, Flags
<1>5. Held'  BY <1>1, <1>2, <1>3 DEF Held, Took
<1>6. Alone'  BY <1>1, <1>2, <1>3 DEF Alone
<1> QED  BY <1>4, <1>5, <1>6 DEF PcmInv

\* What standby leaves, of a stream whose flags agree.
LEMMA DownIsDown ==
  ASSUME NEW o, DOMAIN o = {"pc", "up", "pcm", "channels", "steady", "buffcpy"},
         o.up \in BOOLEAN, o.pcm = o.up
  PROVE  /\ DOMAIN Down(o) = DOMAIN o
         /\ Down(o).up = FALSE /\ Down(o).pcm = FALSE
<1>1. CASE o.up  BY <1>1 DEF Down
<1>2. CASE ~o.up  BY <1>2 DEF Down
<1> QED  BY <1>1, <1>2

LEMMA ReleasedIs ==
  ASSUME PcmInv, NEW s \in Streams PROVE Released(s) = holder \ {s}
<1>1. CASE out[s].up  BY <1>1 DEF Released, PcmInv, Flags
<1>2. CASE ~out[s].up  BY <1>2 DEF Released, PcmInv, Held
<1> QED  BY <1>1, <1>2

LEMMA NextKeepsPcm == ASSUME PcmInv, [Next]_vars PROVE PcmInv'
<1>1. CASE UNCHANGED vars
  BY <1>1 DEF vars, PcmInv, Fields, Flags, Held, Alone
<1>2. ASSUME NEW m \in Maps, SetParameters(m) PROVE PcmInv'
  <2>1. Fields'  BY <1>2 DEF SetParameters, PcmInv, Fields
  <2>2. Unmoved  BY <1>2 DEF SetParameters, PcmInv, Fields, Unmoved
  <2> QED  BY <2>1, <2>2, UnmovedKeeps
<1>3. CASE StoreCEAMap
  BY <1>3 DEF StoreCEAMap, PcmInv, Fields, Flags, Held, Alone
<1>4. ASSUME NEW s \in Streams, NEW mask, OpenStream(s, mask) PROVE PcmInv'
  <2>1. out' = [out EXCEPT ![s] = [Closed EXCEPT !.pc = "idle", !.channels = Channels(mask),
                                                 !.buffcpy = Old]]
    BY <1>4 DEF OpenStream
  <2>2. Fields'  BY <2>1 DEF Closed, PcmInv, Fields
  <2>3. out'[s].up = FALSE /\ out'[s].pcm = FALSE /\ \A t \in Streams \ {s} : out'[t] = out[t]
    BY <2>1 DEF Closed, PcmInv, Fields
  <2>4. holder' = holder \ {s}  BY <1>4 DEF OpenStream, PcmInv, Flags, Held
  <2> QED  BY <2>2, <2>3, <2>4, GaveUpKeeps DEF GaveUp
<1>5. ASSUME NEW s \in Streams, Standby(s) PROVE PcmInv'
  <2>1. DOMAIN Down(out[s]) = DOMAIN out[s] /\ Down(out[s]).up = FALSE /\ Down(out[s]).pcm = FALSE
    BY DownIsDown DEF PcmInv, Fields, Flags
  <2>2. out' = [out EXCEPT ![s] = Down(out[s])]  BY <1>5 DEF Standby
  <2>3. Fields'  BY <2>1, <2>2 DEF PcmInv, Fields
  <2>4. holder' = holder \ {s}  BY <1>5, ReleasedIs DEF Standby
  <2>5. GaveUp(s)  BY <2>1, <2>2, <2>4 DEF PcmInv, Fields, GaveUp
  <2> QED  BY <2>3, <2>5, GaveUpKeeps
<1>6. ASSUME NEW s \in Streams, CloseStream(s) PROVE PcmInv'
  <2>1. out' = [out EXCEPT ![s] = Closed]  BY <1>6 DEF CloseStream
  <2>2. Fields'  BY <2>1 DEF Closed, PcmInv, Fields
  <2>3. holder' = holder \ {s}  BY <1>6, ReleasedIs DEF CloseStream
  <2>4. GaveUp(s)  BY <2>1, <2>3 DEF Closed, PcmInv, Fields, GaveUp
  <2> QED  BY <2>2, <2>4, GaveUpKeeps
<1>7. ASSUME NEW s \in Streams, Write(s) PROVE PcmInv'
  <2>1. CASE out[s].up
    <3>1. out' = [out EXCEPT ![s].pc = "remap"] /\ UNCHANGED holder
      BY <1>7, <2>1 DEF Write
    <3>2. Fields' /\ Unmoved  BY <3>1 DEF PcmInv, Fields, Unmoved
    <3> QED  BY <3>2, UnmovedKeeps
  <2>2. CASE ~out[s].up
    <3>1. CASE /\ holder = {} /\ holder' = {s}
               /\ out' = [out EXCEPT ![s].up = TRUE, ![s].pcm = TRUE, ![s].pc = "remap"]
      <4>1. Fields'  BY <3>1 DEF PcmInv, Fields
      <4>2. Took(s)  BY <3>1 DEF PcmInv, Fields, Took
      <4> QED  BY <4>1, <4>2, TookKeeps
    <3>2. CASE UNCHANGED holder /\ out' = [out EXCEPT ![s].up = FALSE, ![s].pcm = FALSE]
      <4>1. Fields'  BY <3>2 DEF PcmInv, Fields
      <4>2. out[s].up = FALSE /\ out[s].pcm = FALSE  BY <2>2 DEF PcmInv, Flags
      <4>3. Unmoved  BY <3>2, <4>2 DEF PcmInv, Fields, Unmoved
      <4> QED  BY <4>1, <4>3, UnmovedKeeps
    <3> QED  BY <1>7, <2>2, <3>1, <3>2 DEF Write, PcmOpens
  <2> QED  BY <2>1, <2>2
<1>8. ASSUME NEW s \in Streams, ReadCEAMap(s) PROVE PcmInv'
  <2>1. Fields'  BY <1>8 DEF ReadCEAMap, PcmInv, Fields
  <2>2. Unmoved  BY <1>8 DEF ReadCEAMap, PcmInv, Fields, Unmoved
  <2> QED  BY <2>1, <2>2, UnmovedKeeps
<1>9. ASSUME NEW s \in Streams, Remap(s) PROVE PcmInv'
  <2>1. PICK copy : out' = [out EXCEPT ![s].pc = "sendcopy", ![s].buffcpy = copy]
    BY <1>9 DEF Remap
  <2>2. UNCHANGED holder  BY <1>9 DEF Remap
  <2>3. Fields'  BY <2>1 DEF PcmInv, Fields
  <2>4. Unmoved  BY <2>1, <2>2 DEF PcmInv, Fields, Unmoved
  <2> QED  BY <2>3, <2>4, UnmovedKeeps
<1>10. ASSUME NEW s \in Streams, PcmWrite(s) PROVE PcmInv'
  <2>1. CASE out' = [out EXCEPT ![s].pc = "idle", ![s].buffcpy = Old] /\ UNCHANGED holder
    <3>1. Fields' /\ Unmoved  BY <2>1 DEF PcmInv, Fields, Unmoved
    <3> QED  BY <3>1, UnmovedKeeps
  <2>2. CASE /\ out' = [out EXCEPT ![s] = [Down(out[s]) EXCEPT !.pc = "idle", !.buffcpy = Old]]
             /\ holder' = Released(s)
    <3>1. DOMAIN Down(out[s]) = DOMAIN out[s] /\ Down(out[s]).up = FALSE /\ Down(out[s]).pcm = FALSE
      BY DownIsDown DEF PcmInv, Fields, Flags
    <3>2. Fields'  BY <2>2, <3>1 DEF PcmInv, Fields
    <3>3. holder' = holder \ {s}  BY <2>2, ReleasedIs
    <3>4. GaveUp(s)  BY <2>2, <3>1, <3>3 DEF PcmInv, Fields, GaveUp
    <3> QED  BY <3>2, <3>4, GaveUpKeeps
  <2> QED  BY <1>10, <2>1, <2>2 DEF PcmWrite
<1>11. ASSUME NEW s \in Streams, GetParameters(s) PROVE PcmInv'
  BY <1>11 DEF GetParameters, PcmInv, Fields, Flags, Held, Alone
<1> QED
  BY <1>1, <1>2, <1>3, <1>4, <1>5, <1>6, <1>7, <1>8, <1>9, <1>10, <1>11 DEF Next

LEMMA InitPcm == Init => PcmInv
<1> SUFFICES ASSUME Init PROVE PcmInv  OBVIOUS
<1>1. DOMAIN out = Streams /\ \A s \in Streams : out[s] = Closed  BY DEF Init
<1>2. DOMAIN Closed = {"pc", "up", "pcm", "channels", "steady", "buffcpy"}
  BY DEF Closed
<1>3. Closed.up = FALSE /\ Closed.pcm = FALSE  BY DEF Closed
<1>4. Fields  BY <1>1, <1>2 DEF Fields
<1>5. Flags  BY <1>1, <1>3 DEF Flags
<1>6. Alone  BY <1>1, <1>3 DEF Alone
<1>7. Held  BY <1>1 DEF Init, Closed, Held
<1> QED  BY <1>4, <1>5, <1>6, <1>7 DEF PcmInv

\* The PCM is open for the stream that is up and for no other, for any number of
\* streams: each way out of a write, a standby or a close gives it back and lowers
\* both flags in one, and it is opened only by a stream without it.
THEOREM PcmHeldByOne == Spec => []PcmHeld
<1>1. PcmInv /\ [Next]_vars => PcmInv'  BY NextKeepsPcm
<1>2. PcmInv => PcmHeld
  <2> SUFFICES ASSUME PcmInv PROVE PcmHeld  OBVIOUS
  <2>1. CASE holder = {}
    BY <2>1, FS_EmptySet DEF PcmInv, Held, PcmHeld
  <2>2. CASE holder # {}
    <3>1. PICK s \in Streams : holder = {s}  BY <2>2 DEF PcmInv, Held, Alone
    <3>2. Cardinality(holder) = 1  BY <3>1, FS_Singleton
    <3> QED  BY <3>2 DEF PcmInv, Held, PcmHeld
  <2> QED  BY <2>1, <2>2
<1> QED  BY <1>1, <1>2, InitPcm, PTL DEF Spec

-----------------------------------------------------------------------------
(* The channels.                                                            *)

\* What a map is stored as, and whether it is taken for CEA's own.
Stored(m) == [x \in 1 .. HDMI_MAX_CHANNELS |-> Nibble(Read(Decimal(m)), x)]
TakenForCEA(f) == IsCEA(Cardinality({x \in DOMAIN f : f[x] = cea_channel_map[x]}))

\* Between two calls of set_parameters the map stored is the one asked for, and the
\* flag is about it; while the flag is missing no stream has looked at it.
MapInv ==
  /\ setter.pc \in {"out", "mapped"}
  /\ setter.pc = "mapped" =>
       /\ setter.asked \in Maps /\ map = Stored(setter.asked) /\ asked = <<>>
       /\ \A s \in Streams : ~out[s].steady
  /\ asked # <<>> => asked \in Maps /\ map = Stored(asked) /\ CEAMap = TakenForCEA(map)

\* A stream's write is where that flag says, with every channel in its copy that the
\* map has, if no map was set since it looked.
TurnedRight(s) ==
  /\ out[s].pc = "turn" => ~CEAMap
  /\ out[s].pc = "send" /\ out[s].channels > 2 => CEAMap
  /\ out[s].pc = "sendcopy" =>
       /\ ~CEAMap
       /\ \A y \in 1 .. out[s].channels :
            From(y, out[s].channels) # {} => out[s].buffcpy[y] \in From(y, out[s].channels)

SteadyInv ==
  \A s \in Streams : out[s].steady /\ setter.pc = "out" /\ asked # <<>> => TurnedRight(s)

\* The types of the streams that matter to it.
StreamTypes ==
  \A s \in Streams :
    /\ out[s].channels \in {0, 2, 4, 6, 8}
    /\ out[s].pc # "closed" => DOMAIN out[s].buffcpy = 1 .. HDMI_MAX_CHANNELS

ChannelInv == StreamTypes /\ MapInv /\ SteadyInv /\ ChannelsRight

\* A player of 5.1 names six channels.  A number with eight of them has more digits
\* than set_parameters reads.
SixNamed == \A m \in Maps : Reorders(m, 6) => m[7] = 0 /\ m[8] = 0

\* A number of six digits up to 6, four bits each, is below Room, and each is found.
LEMMA SixNibbles ==
  ASSUME NEW m, \A x \in 1 .. 6 : m[x] \in 0 .. 6, m[7] = 0, m[8] = 0,
         NEW n, n = Decimal(m)
  PROVE  /\ n \in Nat /\ n < Room
         /\ \A x \in 1 .. 8 : Nibble(n, x) = m[x]
<1> DEFINE a == m[1]
           b == m[2]
           c == m[3]
           d == m[4]
           e == m[5]
           f == m[6]
<1>a. /\ a \in 0 .. 6 /\ b \in 0 .. 6 /\ c \in 0 .. 6
      /\ d \in 0 .. 6 /\ e \in 0 .. 6 /\ f \in 0 .. 6
  OBVIOUS
<1>b. n = a + 16 * (b + 16 * (c + 16 * (d + 16 * (e + 16 * f))))
  BY <1>a DEF Decimal
<1>c. m[1] = a /\ m[2] = b /\ m[3] = c /\ m[4] = d /\ m[5] = e /\ m[6] = f
  OBVIOUS
<1> HIDE DEF a, b, c, d, e, f
<1> DEFINE n5 == e + 16 * f
           n4 == d + 16 * n5
           n3 == c + 16 * n4
           n2 == b + 16 * n3
<1>1. n5 \in Nat /\ n4 \in Nat /\ n3 \in Nat /\ n2 \in Nat
  BY <1>a, SMT
<1>2. n = a + 16 * n2 /\ n \in Nat /\ n < 10000000
  BY <1>a, <1>b, SMT
<1>3. n5 = e + 16 * f /\ n4 = d + 16 * n5 /\ n3 = c + 16 * n4 /\ n2 = b + 16 * n3
  OBVIOUS
<1> HIDE DEF n5, n4, n3, n2
<1>4. n \div 1 = n /\ n \div 16 = n2
  BY <1>a, <1>1, <1>2, SMT
<1>5. n \div 256 = n3 /\ n \div 4096 = n4
  BY <1>a, <1>1, <1>2, <1>3, SMT
<1>6. n \div 65536 = n5 /\ n \div 1048576 = f
  BY <1>a, <1>1, <1>2, <1>3, SMT
<1>7. n \div 16777216 = 0 /\ n \div 268435456 = 0
  BY <1>2, SMT
<1>8. /\ n % 16 = a /\ n2 % 16 = b /\ n3 % 16 = c
      /\ n4 % 16 = d /\ n5 % 16 = e /\ f % 16 = f /\ 0 % 16 = 0
  BY <1>a, <1>1, <1>2, <1>3, SMT
<1>9. /\ Nibble(n, 1) = (n \div 1) % 16 /\ Nibble(n, 2) = (n \div 16) % 16
      /\ Nibble(n, 3) = (n \div 256) % 16 /\ Nibble(n, 4) = (n \div 4096) % 16
      /\ Nibble(n, 5) = (n \div 65536) % 16 /\ Nibble(n, 6) = (n \div 1048576) % 16
      /\ Nibble(n, 7) = (n \div 16777216) % 16 /\ Nibble(n, 8) = (n \div 268435456) % 16
  BY SMT DEF Nibble, Power16
<1>10. n < Room
  BY <1>2, SMT DEF Room
<1> QED
  <2>1. /\ Nibble(n, 1) = m[1] /\ Nibble(n, 2) = m[2] /\ Nibble(n, 3) = m[3]
        /\ Nibble(n, 4) = m[4] /\ Nibble(n, 5) = m[5] /\ Nibble(n, 6) = m[6]
        /\ Nibble(n, 7) = m[7] /\ Nibble(n, 8) = m[8]
    BY <1>c, <1>4, <1>5, <1>6, <1>7, <1>8, <1>9, SMT
  <2>2. \A x \in 1 .. 8 : x \in {1, 2, 3, 4, 5, 6, 7, 8}
    OBVIOUS
  <2> QED
    BY <1>2, <1>10, <2>1, <2>2

\* A number of six channels has seven digits at most, so it is read whole, and each
\* channel is where it was put.
LEMMA SixStored ==
  ASSUME NEW m \in Seq(Channel), Len(m) = 8, Reorders(m, 6), m[7] = 0, m[8] = 0
  PROVE  \A x \in 1 .. 8 : Stored(m)[x] = m[x]
<1> DEFINE n == Decimal(m)
<1>1. \A x \in 1 .. 6 : m[x] \in 0 .. 6
  <2>1. \A x \in 1 .. 6 : m[x] \in {cea_channel_map[y] : y \in 1 .. 6}
    BY DEF Reorders
  <2>2. \A y \in 1 .. 6 : cea_channel_map[y] \in 0 .. 6
    BY DEF cea_channel_map
  <2> QED
    BY <2>1, <2>2
<1>2. n = Decimal(m)
  OBVIOUS
<1> HIDE DEF n
<1>3. n \in Nat /\ n < Room /\ \A x \in 1 .. 8 : Nibble(n, x) = m[x]
  BY <1>1, <1>2, SixNibbles
<1>4. Read(n) = n
  <2> DEFINE S == {k \in {n, n \div 10, n \div 100, n \div 1000} : k < Room}
  <2>1. /\ n \div 10 \in Int /\ n \div 100 \in Int /\ n \div 1000 \in Int
        /\ n \div 10 <= n /\ n \div 100 <= n /\ n \div 1000 <= n
    BY <1>3, SMT
  <2>2. S \subseteq Int /\ n \in S /\ \A k \in S : k <= n
    BY <1>3, <2>1, SMT
  <2>3. \A k \in S : (\A j \in S : k >= j) => k = n
    BY <2>2
  <2> HIDE DEF S
  <2>4. Max(S) = n
    BY <2>2, <2>3 DEF Max
  <2> QED
    BY <2>4 DEF Read, S
<1>5. \A x \in 1 .. 8 : Stored(m)[x] = Nibble(n, x)
  BY <1>2, <1>4 DEF Stored, HDMI_MAX_CHANNELS
<1> QED
  BY <1>3, <1>5

\* Five channels of six in their places leave one place for the sixth.
LEMMA FiveOfSix ==
  ASSUME NEW f, DOMAIN f = 1 .. 8, Reorders(f, 6), f[7] = 0, f[8] = 0, TakenForCEA(f)
  PROVE  \A y \in 1 .. 6 : f[y] = cea_channel_map[y]
<1> SUFFICES ASSUME NEW y \in 1 .. 6, f[y] # cea_channel_map[y]
             PROVE  FALSE
  OBVIOUS
<1> DEFINE S == {x \in DOMAIN f : f[x] = cea_channel_map[x]}
<1>1. PICK x \in 1 .. 6 : f[x] = cea_channel_map[y]
  BY DEF Reorders
<1>2. x # y
  BY <1>1
<1>3. \A a, b \in 1 .. 6 : cea_channel_map[a] = cea_channel_map[b] => a = b
  BY DEF cea_channel_map
<1>4. f[x] # cea_channel_map[x]
  BY <1>1, <1>2, <1>3
<1>5. cea_channel_map[7] # 0 /\ cea_channel_map[8] # 0
  BY DEF cea_channel_map
<1>6. S \subseteq ((1 .. 6) \ {x}) \ {y}
  BY <1>4, <1>5
<1> DEFINE Six == 1 .. 6
<1>7. IsFiniteSet(Six) /\ Cardinality(Six) = 6
  <2>1. \A i, k \in Int :
          IsFiniteSet(i .. k) /\ Cardinality(i .. k) = IF i > k THEN 0 ELSE k - i + 1
    BY FS_Interval
  <2>2. 1 \in Int /\ 6 \in Int
    OBVIOUS
  <2>3. IsFiniteSet(Six) /\ Cardinality(Six) = IF 1 > 6 THEN 0 ELSE 6 - 1 + 1
    BY <2>1, <2>2, Zenon
  <2> HIDE DEF Six
  <2> QED
    BY <2>3
<1>8. x \in Six /\ y \in Six \ {x} /\ S \subseteq (Six \ {x}) \ {y}
  BY <1>2, <1>6
<1> HIDE DEF Six
<1>9. IsFiniteSet(Six \ {x}) /\ Cardinality(Six \ {x}) = 5
  BY <1>7, <1>8, FS_RemoveElement
<1>10. IsFiniteSet((Six \ {x}) \ {y}) /\ Cardinality((Six \ {x}) \ {y}) = 4
  BY <1>8, <1>9, FS_RemoveElement
<1> DEFINE Rest == (Six \ {x}) \ {y}
<1> HIDE DEF S
<1>11. IsFiniteSet(S) /\ Cardinality(S) <= 4
  <2>1. S \in SUBSET Rest /\ IsFiniteSet(Rest) /\ Cardinality(Rest) = 4
    BY <1>8, <1>10
  <2> HIDE DEF Rest
  <2>2. IsFiniteSet(S) /\ Cardinality(S) <= Cardinality(Rest)
    BY <2>1, FS_Subset, Zenon
  <2> QED
    BY <2>1, <2>2
<1>12. Cardinality(S) \in Nat
  BY <1>11, FS_CardinalityType
<1>13. Cardinality(S) >= 5
  BY DEF TakenForCEA, IsCEA, S
<1> QED
  BY <1>11, <1>12, <1>13

\* The first place with a channel is one of its places.
LEMMA MinIsIn ==
  ASSUME NEW n \in Nat, NEW S \in SUBSET (1 .. n), S # {}
  PROVE  Min(S) \in S
<1>1. S \subseteq Nat
  OBVIOUS
<1>2. \E x \in S : \A y \in S : x <= y
  BY <1>1, LeastNatural
<1> QED
  BY <1>2 DEF Min

-----------------------------------------------------------------------------
\* A step of a stream s, which is about no other.
Others(s) == \A t \in Streams \ {s} : out'[t] = out[t]

LEMMA StreamSteps ==
  ASSUME Fields, NEW s \in Streams,
         \/ \E mask \in DOMAIN Layouts \cup {"stereo"} : OpenStream(s, mask)
         \/ Standby(s) \/ CloseStream(s) \/ Write(s) \/ ReadCEAMap(s) \/ Remap(s)
         \/ PcmWrite(s) \/ GetParameters(s)
  PROVE  Others(s) /\ UNCHANGED device
<1>1. CASE \E mask \in DOMAIN Layouts \cup {"stereo"} : OpenStream(s, mask)
  BY <1>1 DEF OpenStream, Fields, Others
<1>2. CASE Standby(s) \/ CloseStream(s) \/ ReadCEAMap(s) \/ Remap(s) \/ GetParameters(s)
  BY <1>2 DEF Standby, CloseStream, ReadCEAMap, Remap, GetParameters, Fields, Others
<1>3. CASE Write(s)
  BY <1>3 DEF Write, PcmOpens, Fields, Others
<1>4. CASE PcmWrite(s)
  BY <1>4 DEF PcmWrite, Fields, Others
<1> QED
  BY <1>1, <1>2, <1>3, <1>4

\* What a step of its own may make of a stream: nothing of these, ...
Kept(s) ==
  /\ out'[s].channels = out[s].channels /\ out'[s].steady = out[s].steady
  /\ DOMAIN out'[s].buffcpy = DOMAIN out[s].buffcpy
  /\ out[s].pc # "closed" /\ out'[s].pc \in {"idle", "remap"}

\* ... a stream that was just opened or closed, ...
Fresh(s) ==
  /\ out'[s].channels \in {0, 2, 4, 6, 8} /\ out'[s].steady = FALSE
  /\ \/ out'[s].pc = "closed"
     \/ out'[s].pc = "idle" /\ DOMAIN out'[s].buffcpy = 1 .. HDMI_MAX_CHANNELS

\* ... one that looked at the flag, ...
Looked(s) ==
  /\ out[s].pc = "remap" /\ out'[s].pc \in {"turn", "send"}
  /\ out'[s].pc = "turn" => ~CEAMap
  /\ out'[s].pc = "send" /\ out[s].channels > 2 => CEAMap
  /\ out'[s].channels = out[s].channels /\ out'[s].buffcpy = out[s].buffcpy
  /\ out'[s].steady = (setter.pc = "out")

\* ... or one with its channels turned around.
Turned(s) ==
  /\ out[s].pc = "turn" /\ out'[s].pc = "sendcopy"
  /\ out'[s].channels = out[s].channels /\ out'[s].steady = out[s].steady
  /\ DOMAIN out'[s].buffcpy = DOMAIN out[s].buffcpy
  /\ \A y \in 1 .. out[s].channels :
       From(y, out[s].channels) # {} => out'[s].buffcpy[y] \in From(y, out[s].channels)

LEMMA Outcomes ==
  ASSUME Fields, StreamTypes, NEW s \in Streams,
         \/ \E mask \in DOMAIN Layouts \cup {"stereo"} : OpenStream(s, mask)
         \/ Standby(s) \/ CloseStream(s) \/ Write(s) \/ ReadCEAMap(s) \/ Remap(s)
         \/ PcmWrite(s) \/ GetParameters(s)
  PROVE  Kept(s) \/ Fresh(s) \/ Looked(s) \/ Turned(s)
<1> DEFINE o == out[s]
<1>1. /\ DOMAIN out = Streams
      /\ DOMAIN o = {"pc", "up", "pcm", "channels", "steady", "buffcpy"}
      /\ o.channels \in {0, 2, 4, 6, 8}
      /\ o.pc # "closed" => DOMAIN o.buffcpy = 1 .. HDMI_MAX_CHANNELS
  BY DEF Fields, StreamTypes
<1>2. ASSUME NEW mask \in DOMAIN Layouts \cup {"stereo"}, OpenStream(s, mask)
      PROVE  Fresh(s)
  <2>1. Channels(mask) \in {0, 2, 4, 6, 8}
    BY DEF Channels
  <2>2. out'[s] = [Closed EXCEPT !.pc = "idle", !.channels = Channels(mask), !.buffcpy = Old]
    BY <1>1, <1>2 DEF OpenStream
  <2>3. /\ out'[s].pc = "idle" /\ out'[s].channels = Channels(mask)
        /\ out'[s].steady = FALSE /\ out'[s].buffcpy = Old
    BY <2>2 DEF Closed
  <2> QED
    BY <2>1, <2>3 DEF Fresh, Old
<1>3. /\ Down(o).pc = o.pc /\ Down(o).channels = o.channels /\ Down(o).steady = o.steady
      /\ Down(o).buffcpy = o.buffcpy
      /\ DOMAIN Down(o) = {"pc", "up", "pcm", "channels", "steady", "buffcpy"}
  BY <1>1 DEF Down
<1>4. CASE Standby(s)
  <2>1. out'[s] = Down(o) /\ o.pc = "idle"
    BY <1>1, <1>4 DEF Standby
  <2> QED
    BY <1>3, <2>1 DEF Kept
<1>5. CASE CloseStream(s)
  <2>1. out'[s] = Closed
    BY <1>1, <1>5 DEF CloseStream
  <2> QED
    BY <2>1 DEF Fresh, Closed
<1>6. CASE Write(s)
  BY <1>1, <1>6 DEF Write, PcmOpens, Kept
<1>7. CASE ReadCEAMap(s)
  <2>1. out'[s] = [o EXCEPT !.pc = IF o.channels > 2 /\ ~CEAMap THEN "turn" ELSE "send",
                            !.steady = (setter.pc = "out")]
    BY <1>1, <1>7 DEF ReadCEAMap
  <2> QED
    BY <1>1, <1>7, <2>1 DEF ReadCEAMap, Looked
<1>8. CASE Remap(s)
  <2> DEFINE n == o.channels
             copy == [y \in DOMAIN o.buffcpy |->
                        IF y > n \/ From(y, n) = {} THEN o.buffcpy[y] ELSE Min(From(y, n))]
  <2>1. o.pc = "turn" /\ out'[s] = [o EXCEPT !.pc = "sendcopy", !.buffcpy = copy]
    BY <1>1, <1>8 DEF Remap
  <2>2. ASSUME NEW y \in 1 .. n, From(y, n) # {}
        PROVE  copy[y] \in From(y, n)
    <3>1. y \in DOMAIN o.buffcpy /\ n \in Nat /\ ~(y > n)
      BY <1>1, <2>1 DEF HDMI_MAX_CHANNELS
    <3>2. From(y, n) \in SUBSET (1 .. n)
      BY DEF From
    <3>3. Min(From(y, n)) \in From(y, n)
      BY <2>2, <3>1, <3>2, MinIsIn
    <3> QED
      BY <2>2, <3>1, <3>3
  <2> HIDE DEF copy
  <2>3. DOMAIN copy = DOMAIN o.buffcpy
    BY DEF copy
  <2>4. /\ out'[s].pc = "sendcopy" /\ out'[s].buffcpy = copy
        /\ out'[s].channels = n /\ out'[s].steady = o.steady
    BY <1>1, <2>1
  <2> QED
    BY <2>1, <2>2, <2>3, <2>4 DEF Turned
<1>9. CASE PcmWrite(s)
  <2>1. o.pc \in {"send", "sendcopy"}
    BY <1>9 DEF PcmWrite
  <2>2. \/ out'[s] = [o EXCEPT !.pc = "idle", !.buffcpy = Old]
        \/ out'[s] = [Down(o) EXCEPT !.pc = "idle", !.buffcpy = Old]
    BY <1>1, <1>9 DEF PcmWrite
  <2>3. /\ out'[s].pc = "idle" /\ out'[s].buffcpy = Old
        /\ out'[s].channels = o.channels /\ out'[s].steady = o.steady
    BY <1>1, <1>3, <2>2
  <2> QED
    BY <1>1, <2>1, <2>3 DEF Kept, Old
<1>10. CASE GetParameters(s)
  BY <1>1, <1>10 DEF GetParameters, Kept
<1> QED
  BY <1>2, <1>4, <1>5, <1>6, <1>7, <1>8, <1>9, <1>10

\* A frame that is played is one that is right.
LEMMA PlayedRight ==
  ASSUME SixNamed, Fields, ChannelInv, NEW s \in Streams, PcmWrite(s)
  PROVE  ChannelsRight'
<1>1. CASE UNCHANGED played
  BY <1>1 DEF ChannelInv, ChannelsRight
<1>2. CASE played' = [channels |-> out[s].channels, steady |-> out[s].steady, asked |-> asked,
                      slots |-> IF out[s].pc = "send" THEN [y \in 1 .. out[s].channels |-> y]
                                ELSE SubSeq(out[s].buffcpy, 1, out[s].channels)]
  <2> SUFFICES ASSUME out[s].steady, asked # <<>>, out[s].channels = 6, Reorders(asked, 6),
                      NEW y \in 1 .. 6
               PROVE  \E x \in 1 .. 6 : played'.slots[y] = x /\ asked[x] = cea_channel_map[y]
    BY <1>2 DEF ChannelsRight
  <2>1. setter.pc = "out" /\ asked \in Maps /\ map = Stored(asked) /\ CEAMap = TakenForCEA(map)
    BY DEF ChannelInv, MapInv
  <2>2. /\ DOMAIN map = 1 .. 8 /\ \A x \in 1 .. 8 : map[x] = asked[x]
        /\ map[7] = 0 /\ map[8] = 0
    <3>1. asked \in Seq(Channel) /\ Len(asked) = 8 /\ asked[7] = 0 /\ asked[8] = 0
      BY <2>1, MapsAssumption DEF SixNamed
    <3>2. DOMAIN Stored(asked) = 1 .. 8
      BY DEF Stored, HDMI_MAX_CHANNELS
    <3> QED
      BY <2>1, <3>1, <3>2, SixStored
  <2>3. Reorders(map, 6)
    <3>1. {map[x] : x \in 1 .. 6} = {asked[x] : x \in 1 .. 6}
      <4>1. \A x \in 1 .. 6 : map[x] = asked[x]
        BY <2>2
      <4>2. /\ \A x \in 1 .. 6 : map[x] \in {asked[z] : z \in 1 .. 6}
            /\ \A x \in 1 .. 6 : asked[x] \in {map[z] : z \in 1 .. 6}
        BY <4>1
      <4> QED
        BY <4>2
    <3> QED
      BY <3>1 DEF Reorders
  <2>4. TurnedRight(s)
    BY <2>1 DEF ChannelInv, SteadyInv
  <2>5. CASE out[s].pc = "send"
    <3>1. CEAMap
      BY <2>4, <2>5 DEF TurnedRight
    <3>2. map[y] = cea_channel_map[y]
      BY <2>1, <2>2, <2>3, <3>1, FiveOfSix
    <3>3. played'.slots[y] = y
      BY <1>2, <2>5
    <3> QED
      BY <2>2, <3>2, <3>3
  <2>6. CASE out[s].pc = "sendcopy"
    <3>1. From(y, 6) # {}
      <4>1. cea_channel_map[y] \in {map[x] : x \in 1 .. 6}
        BY <2>3 DEF Reorders
      <4> QED
        BY <4>1 DEF From
    <3>2. out[s].buffcpy[y] \in From(y, 6)
      BY <2>4, <2>6, <3>1 DEF TurnedRight
    <3>3. played'.slots = SubSeq(out[s].buffcpy, 1, 6)
      BY <1>2, <2>6
    <3>4. SubSeq(out[s].buffcpy, 1, 6)[y] = out[s].buffcpy[y]
      <4> DEFINE b == out[s].buffcpy
      <4>1. \A i \in 1 .. 6 : b[i] \in {b[j] : j \in 1 .. 6}
        OBVIOUS
      <4> HIDE DEF b
      <4>2. SubSeq(b, 1, 6)[y] = b[1 + y - 1]
        BY <4>1, SubSeqProperties
      <4>3. 1 + y - 1 = y
        OBVIOUS
      <4> QED
        BY <4>2, <4>3 DEF b
    <3> QED
      BY <2>2, <3>2, <3>3, <3>4 DEF From
  <2> QED
    BY <2>5, <2>6 DEF PcmWrite
<1> QED
  BY <1>1, <1>2 DEF PcmWrite

LEMMA StreamStepKeeps ==
  ASSUME SixNamed, Fields, ChannelInv, NEW s \in Streams,
         \/ \E mask \in DOMAIN Layouts \cup {"stereo"} : OpenStream(s, mask)
         \/ Standby(s) \/ CloseStream(s) \/ Write(s) \/ ReadCEAMap(s) \/ Remap(s)
         \/ PcmWrite(s) \/ GetParameters(s)
  PROVE  ChannelInv'
<1>1. Others(s) /\ UNCHANGED <<map, CEAMap, setter, asked>>
  BY StreamSteps DEF device
<1>2. Kept(s) \/ Fresh(s) \/ Looked(s) \/ Turned(s)
  BY Outcomes DEF ChannelInv
<1>3. StreamTypes'
  BY <1>1, <1>2 DEF ChannelInv, StreamTypes, Others, Kept, Fresh, Looked, Turned
<1>4. MapInv'
  <2>1. \A t \in Streams : out'[t].steady => out[t].steady \/ setter.pc = "out"
    BY <1>1, <1>2 DEF Others, Kept, Fresh, Looked, Turned
  <2> QED
    BY <1>1, <2>1 DEF ChannelInv, MapInv
<1>5. SteadyInv'
  <2> SUFFICES ASSUME NEW t \in Streams, out'[t].steady, setter.pc = "out", asked # <<>>
               PROVE  TurnedRight(t)'
    BY <1>1 DEF SteadyInv
  <2>1. \A y, n : From(y, n)' = From(y, n)
    BY <1>1 DEF From
  <2>2. CASE t # s
    BY <1>1, <2>1, <2>2 DEF ChannelInv, SteadyInv, TurnedRight, Others
  <2>3. CASE t = s /\ Turned(s)
    BY <1>1, <2>1, <2>3 DEF ChannelInv, SteadyInv, TurnedRight, Turned
  <2>4. CASE t = s /\ (Kept(s) \/ Fresh(s) \/ Looked(s))
    BY <1>1, <2>4 DEF TurnedRight, Kept, Fresh, Looked
  <2> QED
    BY <1>2, <2>2, <2>3, <2>4
<1>6. ChannelsRight'
  <2>1. CASE PcmWrite(s)
    BY <2>1, PlayedRight
  <2>2. CASE Write(s)
    <3>1. played'.asked = <<>>
      BY <2>2 DEF Write, NoFrame
    <3> QED
      BY <3>1 DEF ChannelsRight
  <2>3. CASE ~PcmWrite(s) /\ ~Write(s)
    <3>1. played' = played
      BY <2>3 DEF OpenStream, Standby, CloseStream, ReadCEAMap, Remap, GetParameters
    <3> QED
      BY <3>1 DEF ChannelInv, ChannelsRight
  <2> QED
    BY <2>1, <2>2, <2>3
<1> QED
  BY <1>3, <1>4, <1>5, <1>6 DEF ChannelInv

LEMMA NextChannels ==
  ASSUME SixNamed, Fields, ChannelInv, [Next]_vars
  PROVE  ChannelInv'
<1>1. CASE UNCHANGED vars
  BY <1>1 DEF vars, device, ChannelInv, StreamTypes, MapInv, SteadyInv, TurnedRight, From,
              ChannelsRight
<1>2. ASSUME NEW m \in Maps, SetParameters(m)
      PROVE  ChannelInv'
  <2>1. /\ setter.pc = "out" /\ setter'.pc = "mapped" /\ setter'.asked = m
        /\ map' = Stored(m) /\ asked' = <<>> /\ played' = played
        /\ out' = [s \in Streams |-> [out[s] EXCEPT !.steady = FALSE]]
    BY <1>2 DEF SetParameters, Stored
  <2>2. \A s \in Streams :
          /\ out'[s].steady = FALSE /\ out'[s].pc = out[s].pc
          /\ out'[s].channels = out[s].channels /\ out'[s].buffcpy = out[s].buffcpy
    BY <2>1 DEF Fields
  <2>3. StreamTypes'
    BY <2>2 DEF ChannelInv, StreamTypes
  <2>4. MapInv'
    BY <2>1, <2>2 DEF MapInv
  <2>5. SteadyInv'
    BY <2>2 DEF SteadyInv
  <2>6. ChannelsRight'
    BY <2>1 DEF ChannelInv, ChannelsRight
  <2> QED
    BY <2>3, <2>4, <2>5, <2>6 DEF ChannelInv
<1>3. CASE StoreCEAMap
  <2>1. /\ setter.pc = "mapped" /\ setter' = [setter EXCEPT !.pc = "out"]
        /\ CEAMap' = TakenForCEA(map)
        /\ asked' = setter.asked /\ UNCHANGED <<map, out, played>>
    BY <1>3 DEF StoreCEAMap, TakenForCEA
  <2>2. /\ setter.asked \in Maps /\ map = Stored(setter.asked)
        /\ \A s \in Streams : ~out[s].steady
    BY <2>1 DEF ChannelInv, MapInv
  <2>3. setter'.pc \in {"out"} \cup {setter.pc}
    BY <2>1
  <2>4. MapInv'
    BY <2>1, <2>2, <2>3 DEF MapInv, TakenForCEA
  <2>5. StreamTypes' /\ SteadyInv' /\ ChannelsRight'
    BY <2>1, <2>2 DEF ChannelInv, StreamTypes, SteadyInv, ChannelsRight
  <2> QED
    BY <2>4, <2>5 DEF ChannelInv
<1> QED
  BY <1>1, <1>2, <1>3, StreamStepKeeps DEF Next

\* Each speaker gets its channel, for any number of streams and any maps that name
\* six channels of 5.1 in any order: frames are turned around by the map that was set
\* last, or left alone when five of its channels, and so all six, are in their places.
THEOREM ChannelsPlayedRight ==
  ASSUME SixNamed
  PROVE  Spec => []ChannelsRight
<1>1. Init => PcmInv /\ ChannelInv
  <2> SUFFICES ASSUME Init
               PROVE  ChannelInv
    BY InitPcm
  <2>1. \A s \in Streams : out[s] = Closed
    BY DEF Init
  <2>2. Closed.pc = "closed" /\ Closed.channels = 0 /\ Closed.steady = FALSE
    BY DEF Closed
  <2>3. StreamTypes /\ SteadyInv
    BY <2>1, <2>2 DEF StreamTypes, SteadyInv
  <2>4. MapInv
    BY DEF Init, MapInv
  <2>5. ChannelsRight
    BY DEF Init, NoFrame, ChannelsRight
  <2> QED
    BY <2>3, <2>4, <2>5 DEF ChannelInv
<1>2. PcmInv /\ ChannelInv /\ [Next]_vars => PcmInv' /\ ChannelInv'
  BY NextKeepsPcm, NextChannels DEF PcmInv
<1>3. ChannelInv => ChannelsRight
  BY DEF ChannelInv
<1> QED
  BY <1>1, <1>2, <1>3, PTL DEF Spec

-----------------------------------------------------------------------------
(* Concatenations, which FlattenSeq defines by recursion.                   *)

\* A function defined by recursion exists: v at 0, then g of a number and what the
\* function is before it.
Recursive(n, v, g, f) == f[0] = v /\ \A k \in 1 .. n : f[k] = g[k][f[k - 1]]

\* There is a function for each such recursion: what CHOOSE finds is one.
LEMMA Recursion ==
  ASSUME NEW n \in Nat, NEW V, NEW v \in V, NEW g \in [1 .. n -> [V -> V]]
  PROVE  \E f \in [0 .. n -> V] : Recursive(n, v, g, f)
<1> DEFINE T == {m \in 0 .. n : \E f \in [0 .. m -> V] : Recursive(m, v, g, f)}
<1>1. 0 \in T
  <2> DEFINE f == [k \in 0 .. 0 |-> v]
  <2>1. f \in [0 .. 0 -> V] /\ f[0] = v
    OBVIOUS
  <2>2. Recursive(0, v, g, f)
    BY <2>1 DEF Recursive
  <2> QED
    BY <2>1, <2>2
<1>2. ASSUME NEW m \in 1 .. n, m - 1 \in T
      PROVE  m \in T
  <2>1. PICK s \in [0 .. m - 1 -> V] : Recursive(m - 1, v, g, s)
    BY <1>2
  <2> DEFINE f == [k \in 0 .. m |-> IF k = m THEN g[m][s[m - 1]] ELSE s[k]]
  <2>2. m \in Nat /\ m - 1 \in 0 .. m - 1 /\ \A k \in 0 .. m : k # m => k \in 0 .. m - 1
    BY <1>2
  <2>3. g[m][s[m - 1]] \in V
    BY <2>1, <2>2
  <2>4. f \in [0 .. m -> V]
    BY <2>1, <2>2, <2>3
  <2>5. f[0] = v
    BY <2>1, <2>2 DEF Recursive
  <2>6. ASSUME NEW k \in 1 .. m
        PROVE  f[k] = g[k][f[k - 1]]
    <3>1. k - 1 \in 0 .. m /\ k \in 0 .. m /\ k - 1 # m
      BY <1>2
    <3>2. f[k - 1] = s[k - 1]
      BY <3>1
    <3>3. CASE k = m
      BY <3>1, <3>2, <3>3
    <3>4. CASE k # m
      <4>1. k \in 1 .. m - 1
        BY <1>2, <3>4
      <4> QED
        BY <2>1, <3>1, <3>2, <3>4, <4>1 DEF Recursive
    <3> QED
      BY <3>3, <3>4
  <2> HIDE DEF f
  <2> QED
    <3>1. Recursive(m, v, g, f)
      BY <2>5, <2>6 DEF Recursive
    <3> QED
      BY <2>2, <2>4, <3>1
<1> HIDE DEF T
<1>3. n \in T
  <2>1. \A k \in 0 .. n : k \in T
    BY <1>1, <1>2, UpTo
  <2> QED
    BY <2>1
<1> QED
  BY <1>3 DEF T

\* Where a concatenation has the elements of the sequences it is made of.
Laid(f, seqs, n, off) ==
  /\ off[0] = 0 /\ Len(f) = off[n]
  /\ \A i \in 1 .. n : off[i] = off[i - 1] + Len(seqs[i])
  /\ \A i \in 1 .. n : \A k \in 1 .. Len(seqs[i]) :
       off[i - 1] + k \in 1 .. Len(f) /\ f[off[i - 1] + k] = seqs[i][k]
  /\ \A j \in 1 .. Len(f) : \E i \in 1 .. n : \E k \in 1 .. Len(seqs[i]) : j = off[i - 1] + k

\* Appending the next sequence lays it out behind those before it.
LEMMA LaidMore ==
  ASSUME NEW S, NEW n \in Nat, NEW m \in 1 .. n, NEW seqs \in [1 .. n -> Seq(S)],
         NEW f \in Seq(S), NEW off \in [0 .. n -> Nat], Laid(f, seqs, m - 1, off),
         off[m] = Len(f \o seqs[m])
  PROVE  Laid(f \o seqs[m], seqs, m, off)
<1> DEFINE t == seqs[m]
           g == f \o t
<1>1. m - 1 \in 0 .. n /\ m \in 0 .. n /\ m \in 1 .. n
  OBVIOUS
<1>2. t \in Seq(S)
  OBVIOUS
<1>3. /\ g \in Seq(S) /\ Len(g) = Len(f) + Len(t) /\ Len(f) \in Nat /\ Len(t) \in Nat
      /\ \A j \in 1 .. Len(f) : g[j] = f[j]
      /\ \A k \in 1 .. Len(t) : g[Len(f) + k] = t[k]
  BY <1>2
<1> HIDE DEF g
<1>4. off[0] = 0 /\ off[m - 1] = Len(f) /\ off[m] = Len(g)
  BY DEF Laid, g
<1>5. ASSUME NEW i \in 1 .. m
      PROVE  /\ off[i] = off[i - 1] + Len(seqs[i])
             /\ \A k \in 1 .. Len(seqs[i]) : off[i - 1] + k \in 1 .. Len(g) /\ g[off[i - 1] + k] = seqs[i][k]
  <2>1. CASE i = m
    <3>1. off[i] = off[i - 1] + Len(seqs[i])
      BY <1>3, <1>4, <2>1
    <3>2. ASSUME NEW k \in 1 .. Len(t)
          PROVE  Len(f) + k \in 1 .. Len(g) /\ g[Len(f) + k] = t[k]
      BY <1>3
    <3> QED
      BY <1>4, <2>1, <3>1, <3>2
  <2>2. CASE i \in 1 .. m - 1
    <3>1. off[i] = off[i - 1] + Len(seqs[i])
      BY <2>2 DEF Laid
    <3>2. \A k \in 1 .. Len(seqs[i]) : off[i - 1] + k \in 1 .. Len(f) /\ f[off[i - 1] + k] = seqs[i][k]
      BY <2>2 DEF Laid
    <3>3. \A j \in 1 .. Len(f) : j \in 1 .. Len(g) /\ g[j] = f[j]
      BY <1>3
    <3> QED
      BY <3>1, <3>2, <3>3
  <2> QED
    BY <2>1, <2>2
<1>6. ASSUME NEW j \in 1 .. Len(g)
      PROVE  \E i \in 1 .. m : \E k \in 1 .. Len(seqs[i]) : j = off[i - 1] + k
  <2>1. CASE j \in 1 .. Len(f)
    <3>1. PICK i \in 1 .. m - 1 : \E k \in 1 .. Len(seqs[i]) : j = off[i - 1] + k
      BY <2>1 DEF Laid
    <3>2. i \in 1 .. m
      OBVIOUS
    <3> QED
      BY <3>1, <3>2
  <2>2. CASE j \notin 1 .. Len(f)
    <3> DEFINE k == j - Len(f)
    <3>1. k \in 1 .. Len(seqs[m]) /\ j = off[m - 1] + k
      BY <1>3, <1>4, <2>2
    <3>2. m \in 1 .. m
      OBVIOUS
    <3> QED
      BY <3>1, <3>2
  <2> QED
    BY <2>1, <2>2
<1> QED
  BY <1>4, <1>5, <1>6 DEF Laid, g

\* FlattenSeq lays the sequences out one after the other.
LEMMA Flattened ==
  ASSUME NEW S, NEW n \in Nat, NEW seqs \in [1 .. n -> Seq(S)]
  PROVE  /\ FlattenSeq(seqs) \in Seq(S)
         /\ \E off \in [0 .. n -> Nat] : Laid(FlattenSeq(seqs), seqs, n, off)
<1> DEFINE V == Seq(S)
           g == [i \in 1 .. n |-> [f \in V |-> f \o seqs[i]]]
           F(p) == [i \in 1 .. Len(seqs) |-> IF i = 1 THEN seqs[i] ELSE p[i - 1] \o seqs[i]]
           flatten == CHOOSE p : p = F(p)
<1>1. Len(seqs) = n
  OBVIOUS
<1>2. PICK p \in [0 .. n -> V] : Recursive(n, <<>>, g, p)
  <2>1. g \in [1 .. n -> [V -> V]] /\ <<>> \in V
    OBVIOUS
  <2> HIDE DEF g, V
  <2> QED
    BY <2>1, Recursion
<1>3. p[0] = <<>> /\ \A i \in 1 .. n : p[i] = p[i - 1] \o seqs[i]
  <2>1. \A i \in 1 .. n : p[i] = g[i][p[i - 1]] /\ p[i - 1] \in V
    <3> HIDE DEF g, V
    <3>1. \A i \in 1 .. n : p[i] = g[i][p[i - 1]]
      BY <1>2 DEF Recursive
    <3>2. \A i \in 1 .. n : i - 1 \in 0 .. n
      OBVIOUS
    <3> QED
      BY <1>2, <3>1, <3>2
  <2>2. p[0] = <<>>
    BY <1>2 DEF Recursive
  <2> QED
    BY <2>1, <2>2
<1> DEFINE off == [i \in 0 .. n |-> Len(p[i])]
<1>4. off \in [0 .. n -> Nat]
  OBVIOUS
<1> DEFINE T == {i \in 0 .. n : Laid(p[i], seqs, i, off)}
<1>5. 0 \in T
  BY <1>3 DEF Laid
<1>6. ASSUME NEW i \in 1 .. n, i - 1 \in T
      PROVE  i \in T
  <2>1. i \in 0 .. n /\ i - 1 \in 0 .. n
    OBVIOUS
  <2>2. p[i - 1] \in Seq(S) /\ p[i] = p[i - 1] \o seqs[i]
    BY <1>3, <2>1
  <2>3. off[i] = Len(p[i - 1] \o seqs[i])
    BY <2>1, <2>2
  <2>4. Laid(p[i - 1], seqs, i - 1, off)
    BY <1>6
  <2> HIDE DEF off
  <2>5. Laid(p[i], seqs, i, off)
    BY <1>4, <2>2, <2>3, <2>4, LaidMore
  <2> QED
    BY <2>1, <2>5
<1>7. Laid(p[n], seqs, n, off)
  <2>1. \A i \in 0 .. n : i \in T
    <3> HIDE DEF T
    <3> QED
      BY <1>5, <1>6, UpTo
  <2>2. n \in T
    <3> HIDE DEF T
    <3> QED
      BY <2>1
  <2> HIDE DEF off, V
  <2> QED
    BY <2>2
<1>8. FlattenSeq(seqs) = p[n]
  <2>1. CASE n = 0
    <3>1. FlattenSeq(seqs) = seqs
      BY <1>1, <2>1 DEF FlattenSeq
    <3>2. seqs = <<>>
      BY <2>1
    <3> QED
      BY <1>3, <2>1, <3>1, <3>2
  <2>2. CASE n # 0
    <3>1. FlattenSeq(seqs) = flatten[n]
      BY <1>1, <2>2 DEF FlattenSeq
    <3> DEFINE q == [i \in 1 .. n |-> p[i]]
    <3>2. q = F(q)
      <4>1. ASSUME NEW i \in 1 .. n
            PROVE  q[i] = IF i = 1 THEN seqs[i] ELSE q[i - 1] \o seqs[i]
        <5>1. CASE i = 1
          <6>1. p[1] = <<>> \o seqs[1] /\ seqs[1] \in Seq(S)
            <7>1. 1 \in 1 .. n /\ 1 - 1 = 0
              BY <5>1
            <7>2. p[1] = p[0] \o seqs[1]
              BY <1>3, <7>1
            <7> QED
              BY <1>3, <7>1, <7>2
          <6> QED
            BY <5>1, <6>1
        <5>2. CASE i # 1
          <6>1. i - 1 \in 1 .. n
            BY <5>2
          <6> QED
            BY <1>3, <5>2, <6>1
        <5> QED
          BY <5>1, <5>2
      <4> QED
        BY <1>1, <4>1
    <3>3. flatten = F(flatten)
      <4> HIDE DEF F
      <4> QED
        BY <3>2
    <3> HIDE DEF flatten
    <3>4. \A i \in 1 .. n : flatten[i] = IF i = 1 THEN seqs[i] ELSE flatten[i - 1] \o seqs[i]
      BY <1>1, <3>3
    <3> DEFINE U == {i \in 0 .. n : i > 0 => flatten[i] = p[i]}
    <3>5. 0 \in U
      OBVIOUS
    <3>6. ASSUME NEW i \in 1 .. n, i - 1 \in U
          PROVE  i \in U
      <4>1. CASE i = 1
        <5>1. p[1] = <<>> \o seqs[1] /\ seqs[1] \in Seq(S)
          <6>1. 1 \in 1 .. n /\ 1 - 1 = 0
            BY <4>1
          <6>2. p[1] = p[0] \o seqs[1]
            BY <1>3, <6>1
          <6> QED
            BY <1>3, <6>1, <6>2
        <5> QED
          BY <3>4, <4>1, <5>1
      <4>2. CASE i # 1
        <5>1. i - 1 > 0 /\ flatten[i - 1] = p[i - 1]
          BY <3>6, <4>2
        <5>2. flatten[i] = flatten[i - 1] \o seqs[i]
          BY <3>4, <4>2
        <5>3. p[i] = p[i - 1] \o seqs[i]
          BY <1>3
        <5>4. flatten[i] = p[i]
          BY ONLY <5>1, <5>2, <5>3
        <5> QED
          BY <5>4
      <4> QED
        BY <4>1, <4>2
    <3>7. \A i \in 0 .. n : i \in U
      <4> HIDE DEF U
      <4> QED
        BY <3>5, <3>6, UpTo
    <3> QED
      BY <2>2, <3>1, <3>7
  <2> QED
    BY <2>1, <2>2
<1> HIDE DEF off
<1>9. p[n] \in Seq(S)
  OBVIOUS
<1> QED
  BY <1>4, <1>7, <1>8, <1>9

-----------------------------------------------------------------------------
(* The walk over the data blocks of a CEA block.                            *)

\* What a data block is in an EDID.
Part(block) == <<Header(block)>> \o block.payload
GoodBlock(b) == b \in DataBlock /\ Len(b.payload) < 32 /\ (b.tag = SpeakersTag => b.payload # <<>>)

Load(b) == Len(b.payload)

LEMMA SeqFacts ==
  ASSUME NEW S \in SUBSET Int, NEW q \in Seq(S)
  PROVE  q \in Seq(Int) /\ Len(q) \in Nat /\ (q # <<>> => Len(q) >= 1)
<1>1. Len(q) \in Nat /\ q \in [1 .. Len(q) -> S]
  OBVIOUS
<1>2. q \in [1 .. Len(q) -> Int]
  BY <1>1
<1>3. q \in Seq(Int)
  BY <1>1, <1>2, SeqDef
<1>4. q # <<>> => Len(q) # 0
  BY EmptySeq
<1> QED
  BY <1>1, <1>3, <1>4

LEMMA PartRight ==
  ASSUME NEW b, GoodBlock(b)
  PROVE  /\ Part(b) \in Seq(Int) /\ Len(Part(b)) = 1 + Load(b) /\ Load(b) \in 0 .. 31
         /\ Tag(Part(b)[1]) = b.tag /\ Size(Part(b)[1]) = Load(b)
         /\ b.tag = SpeakersTag => Len(Part(b)) >= 2 /\ Part(b)[2] = b.payload[1]
<1> DEFINE q == b.payload
           t == b.tag
           n == Load(b)
           h == Header(b)
<1>1. t \in 0 .. 7 /\ q \in Seq(0 .. 255) /\ n < 32 /\ (t = SpeakersTag => q # <<>>)
  BY DEF GoodBlock, DataBlock, Load
<1>2. n = Len(q) /\ h = t * 32 + n
  BY DEF Load, Header
<1>3. Part(b) = <<h>> \o q
  BY DEF Part
<1> HIDE DEF q, t, n, h
<1>4. q \in Seq(Int) /\ Len(q) \in Nat /\ (t = SpeakersTag => Len(q) >= 1)
  <2> DEFINE S == 0 .. 255
  <2>1. S \in SUBSET Int /\ q \in Seq(S)
    BY <1>1
  <2> HIDE DEF S
  <2>2. q \in Seq(Int) /\ Len(q) \in Nat /\ (q # <<>> => Len(q) >= 1)
    BY <2>1, SeqFacts
  <2> QED
    BY <1>1, <2>2
<1>5. n \in 0 .. 31 /\ h \in Int /\ Tag(h) = t /\ Size(h) = n
  <2>1. t \in 0 .. 7 /\ n < 32 /\ n \in Nat
    BY <1>1, <1>2, <1>4
  <2>2. h \in Int /\ h \div 32 = t /\ h % 32 = n
    BY <1>2, <2>1
  <2> QED
    BY <2>1, <2>2 DEF Tag, Size
<1>6. /\ <<h>> \o q \in Seq(Int) /\ Len(<<h>> \o q) = 1 + n /\ (<<h>> \o q)[1] = h
      /\ \A j \in 1 .. n : (<<h>> \o q)[1 + j] = q[j]
  <2>1. <<h>> \in Seq(Int) /\ Len(<<h>>) = 1 /\ <<h>>[1] = h
    BY <1>5
  <2> QED
    BY <1>2, <1>4, <2>1
<1>7. t = SpeakersTag => 1 + n >= 2 /\ (<<h>> \o q)[2] = q[1]
  <2>1. t = SpeakersTag => n >= 1
    BY <1>2, <1>4
  <2>2. n >= 1 => (<<h>> \o q)[2] = q[1]
    <3>1. n >= 1 => 1 \in 1 .. n
      BY <1>5
    <3>2. 1 + 1 = 2
      OBVIOUS
    <3>3. n >= 1 => (<<h>> \o q)[1 + 1] = q[1]
      BY <1>6, <3>1
    <3> HIDE DEF q, h, n
    <3> QED
      BY <3>2, <3>3
  <2>3. n >= 1 => 1 + n >= 2
    BY <1>5
  <2> QED
    BY <2>1, <2>2, <2>3
<1> QED
  BY <1>3, <1>5, <1>6, <1>7 DEF n, t, q

\* The last speaker allocation among the first m data blocks, 0 if there is none.
SpeakerBlocks(blocks, m) == {i \in 1 .. m : blocks[i].tag = SpeakersTag}
LastAlloc(blocks, m) ==
  IF SpeakerBlocks(blocks, m) = {} THEN 0 ELSE blocks[Max(SpeakerBlocks(blocks, m))].payload[1]

LEMMA NextAlloc ==
  ASSUME NEW blocks, NEW m \in Nat, m > 0
  PROVE  LastAlloc(blocks, m) = IF blocks[m].tag = SpeakersTag THEN blocks[m].payload[1]
                                ELSE LastAlloc(blocks, m - 1)
<1> DEFINE S == SpeakerBlocks(blocks, m)
           T == SpeakerBlocks(blocks, m - 1)
<1>1. \A i : i \in 1 .. m <=> i \in 1 .. m - 1 \/ i = m
  OBVIOUS
<1>2. CASE blocks[m].tag = SpeakersTag
  <2>1. m \in S /\ \A i \in S : i \in 1 .. m
    BY <1>1, <1>2 DEF SpeakerBlocks
  <2>2. Max(S) = m
    <3> HIDE DEF S
    <3>1. \A i \in S : m >= i
      BY <2>1
    <3>2. \A i \in S : (\A y \in S : i >= y) => i = m
      BY <2>1
    <3>3. Max(S) \in S /\ \A y \in S : Max(S) >= y
      BY <2>1, <3>1 DEF Max
    <3> QED
      BY <3>2, <3>3
  <2> QED
    BY <1>2, <2>1, <2>2 DEF LastAlloc
<1>3. CASE blocks[m].tag # SpeakersTag
  <2>1. S = T
    BY <1>1, <1>3 DEF SpeakerBlocks
  <2> QED
    BY <1>3, <2>1 DEF LastAlloc
<1> QED
  BY <1>2, <1>3

\* A step of the walk: at n, with the allocation found so far.
WalkStep(edid, index, w) ==
  LET byte == edid[index + w.n]
  IN  IF w.n >= edid[index + 2] THEN w
      ELSE [n |-> w.n + 1 + Size(byte),
            alloc |-> IF Tag(byte) = SpeakersTag THEN edid[index + w.n + 1] ELSE w.alloc]

DataOf(m, blocks) == FlattenSeq([i \in 1 .. m |-> Part(blocks[i])])

\* The walk ends with the last speaker allocation, however many data blocks there are.
LEMMA WalkRight ==
  ASSUME NEW edid, NEW index \in Nat, NEW m \in Nat, NEW blocks \in [1 .. m -> DataBlock],
         \A i \in 1 .. m : GoodBlock(blocks[i]), NEW data,
         data = DataOf(m, blocks),
         edid[index + 2] = 4 + Len(data),
         \A j \in 1 .. Len(data) : edid[index + 3 + j] = data[j]
  PROVE  SpeakerAlloc(edid, index) = LastAlloc(blocks, m)
<1> DEFINE parts == [i \in 1 .. m |-> Part(blocks[i])]
           end == 4 + Len(data)
<1>1. parts \in [1 .. m -> Seq(Int)]
  BY PartRight
<1>2. PICK off \in [0 .. m -> Nat] : Laid(data, parts, m, off)
  <2> HIDE DEF parts
  <2>1. FlattenSeq(parts) \in Seq(Int) /\ \E off \in [0 .. m -> Nat] : Laid(FlattenSeq(parts), parts, m, off)
    BY <1>1, Flattened
  <2> QED
    BY <2>1 DEF parts, DataOf
<1>3. data \in Seq(Int)
  <2>1. FlattenSeq(parts) \in Seq(Int)
    <3> HIDE DEF parts
    <3> QED
      BY <1>1, Flattened
  <2> QED
    BY <2>1 DEF DataOf
<1>4. off[0] = 0 /\ Len(data) = off[m] /\ Len(data) \in Nat
  BY <1>2, <1>3 DEF Laid
<1>5. ASSUME NEW k \in 1 .. m
      PROVE  /\ off[k - 1] \in Nat /\ off[k - 1] < Len(data)
             /\ off[k] = off[k - 1] + 1 + Load(blocks[k]) /\ Load(blocks[k]) \in Nat
             /\ Tag(edid[index + 4 + off[k - 1]]) = blocks[k].tag
             /\ Size(edid[index + 4 + off[k - 1]]) = Load(blocks[k])
             /\ blocks[k].tag = SpeakersTag => edid[index + 4 + off[k - 1] + 1] = blocks[k].payload[1]
  <2>1. parts[k] = Part(blocks[k]) /\ GoodBlock(blocks[k]) /\ k - 1 \in 0 .. m /\ k \in 0 .. m
    OBVIOUS
  <2> DEFINE s == parts[k]
             h == off[k - 1]
  <2>2. /\ Len(s) = 1 + Load(blocks[k]) /\ Load(blocks[k]) \in 0 .. 31
        /\ Tag(s[1]) = blocks[k].tag /\ Size(s[1]) = Load(blocks[k])
        /\ blocks[k].tag = SpeakersTag => Len(s) >= 2 /\ s[2] = blocks[k].payload[1]
    BY <2>1, PartRight
  <2>3. \A j \in 1 .. Len(s) : h + j \in 1 .. Len(data) /\ data[h + j] = s[j]
    BY <1>2 DEF Laid
  <2>4. h \in Nat /\ off[k] = h + Len(s)
    BY <1>2, <2>1 DEF Laid
  <2> DEFINE n == Load(blocks[k])
             len == Len(data)
  <2>10. Len(s) = 1 + n /\ n \in 0 .. 31 /\ len \in Nat
    BY <1>4, <2>2
  <2> HIDE DEF s, h, parts, n
  <2>5. h + 1 \in 1 .. len /\ data[h + 1] = s[1]
    <3>1. 1 \in 1 .. Len(s)
      BY <2>10
    <3> QED
      BY <2>3, <3>1
  <2>6. blocks[k].tag = SpeakersTag => h + 2 \in 1 .. len /\ data[h + 2] = s[2]
    <3>1. Len(s) >= 2 => 2 \in 1 .. Len(s)
      BY <2>10
    <3> QED
      BY <2>2, <2>3, <3>1
  <2>7. edid[index + 4 + h] = s[1]
    <3>1. index + 3 + (h + 1) = index + 4 + h
      BY <2>4
    <3>2. edid[index + 3 + (h + 1)] = data[h + 1]
      BY <2>5
    <3> QED
      BY <2>5, <3>1, <3>2
  <2>8. blocks[k].tag = SpeakersTag => edid[index + 4 + h + 1] = s[2]
    <3>1. index + 3 + (h + 2) = index + 4 + h + 1
      BY <2>4
    <3>2. blocks[k].tag = SpeakersTag => edid[index + 3 + (h + 2)] = data[h + 2]
      BY <2>6
    <3> QED
      BY <2>6, <3>1, <3>2
  <2>9. h < len /\ off[k] = h + 1 + n /\ n \in Nat
    <3> HIDE DEF len
    <3>1. h + 1 \in 1 .. len
      BY <2>5
    <3> QED
      BY <2>4, <2>10, <3>1
  <2> QED
    BY <2>2, <2>4, <2>7, <2>8, <2>9 DEF h, n
<1> HIDE DEF parts
<1>6. m <= Len(data)
  <2> DEFINE T == {k \in 0 .. m : off[k] >= k}
  <2>1. 0 \in T
    BY <1>4
  <2>2. ASSUME NEW k \in 1 .. m, k - 1 \in T
        PROVE  k \in T
    BY <1>5, <2>2
  <2>3. \A k \in 0 .. m : k \in T
    <3> HIDE DEF T
    <3> QED
      BY <2>1, <2>2, UpTo
  <2>4. m \in T
    <3> HIDE DEF T
    <3> QED
      BY <2>3
  <2> QED
    BY <1>4, <2>4
<1> DEFINE First == [n |-> 4, alloc |-> 0]
           F(w) == [k \in Nat |-> IF k = 0 THEN First ELSE WalkStep(edid, index, w[k - 1])]
           At(k) == [n |-> 4 + off[k], alloc |-> LastAlloc(blocks, k)]
           sol == [k \in Nat |-> IF k <= m THEN At(k) ELSE At(m)]
           walk == CHOOSE w : w = F(w)
<1>7. At(0) = First
  <2>1. SpeakerBlocks(blocks, 0) = {}
    BY DEF SpeakerBlocks
  <2> QED
    BY <1>4, <2>1 DEF LastAlloc
<1>8. ASSUME NEW k \in 1 .. m
      PROVE  WalkStep(edid, index, At(k - 1)) = At(k)
  <2> DEFINE w == At(k - 1)
             o == off[k - 1]
             n == w.n
             len == Len(data)
             load == Load(blocks[k])
  <2>1. n = 4 + o /\ w.alloc = LastAlloc(blocks, k - 1)
    OBVIOUS
  <2>8. o \in Nat /\ len \in Nat /\ o < len /\ load \in Nat /\ off[k] = o + 1 + load
    BY <1>4, <1>5
  <2>9. /\ Tag(edid[index + 4 + o]) = blocks[k].tag /\ Size(edid[index + 4 + o]) = load
        /\ blocks[k].tag = SpeakersTag => edid[index + 4 + o + 1] = blocks[k].payload[1]
    BY <1>5
  <2>10. edid[index + 2] = 4 + len
    OBVIOUS
  <2> HIDE DEF w, o, n, len, load
  <2>2. ~(n >= edid[index + 2])
    BY <2>1, <2>8, <2>10
  <2>3. index + n = index + 4 + o /\ index + n + 1 = index + 4 + o + 1
    BY <2>1, <2>8
  <2>4. WalkStep(edid, index, w) =
          [n |-> w.n + 1 + Size(edid[index + w.n]),
           alloc |-> IF Tag(edid[index + w.n]) = SpeakersTag THEN edid[index + w.n + 1] ELSE w.alloc]
    BY <2>2 DEF WalkStep, n
  <2>5. n + 1 + Size(edid[index + n]) = 4 + off[k]
    BY <2>1, <2>3, <2>8, <2>9
  <2>6. (IF Tag(edid[index + w.n]) = SpeakersTag THEN edid[index + w.n + 1] ELSE w.alloc) = LastAlloc(blocks, k)
    <3>1. LastAlloc(blocks, k) = IF blocks[k].tag = SpeakersTag THEN blocks[k].payload[1]
                                 ELSE LastAlloc(blocks, k - 1)
      <4>1. k \in Nat /\ k > 0
        OBVIOUS
      <4> QED
        BY <4>1, NextAlloc
    <3> QED
      BY <2>1, <2>3, <2>9, <3>1 DEF n
  <2>7. WalkStep(edid, index, w) = At(k)
    BY <2>4, <2>5, <2>6 DEF n
  <2> QED
    BY <2>7 DEF w
<1>9. WalkStep(edid, index, At(m)) = At(m)
  <2> DEFINE w == At(m)
  <2>1. w.n = 4 + Len(data)
    BY <1>4
  <2> HIDE DEF w
  <2>2. w.n >= edid[index + 2]
    BY <1>4, <2>1
  <2>3. WalkStep(edid, index, w) = w
    BY <2>2 DEF WalkStep
  <2> QED
    BY <2>3 DEF w
<1> HIDE DEF At, First
<1>10. sol = F(sol)
  <2>1. ASSUME NEW k \in Nat
        PROVE  sol[k] = IF k = 0 THEN First ELSE WalkStep(edid, index, sol[k - 1])
    <3>1. CASE k = 0
      BY <1>7, <3>1
    <3>2. CASE k \in 1 .. m
      <4>1. sol[k] = At(k) /\ sol[k - 1] = At(k - 1) /\ k # 0
        BY <3>2
      <4> QED
        BY <1>8, <3>2, <4>1
    <3>3. CASE k > m
      <4>1. sol[k] = At(m) /\ k # 0
        BY <3>3
      <4>2. sol[k - 1] = At(m)
        <5>1. k - 1 \in Nat /\ (k - 1 <= m => k - 1 = m)
          BY <3>3
        <5> QED
          BY <5>1
      <4> QED
        BY <1>9, <4>1, <4>2
    <3> QED
      BY <3>1, <3>2, <3>3
  <2> QED
    BY <2>1
<1>11. walk = F(walk)
  <2> HIDE DEF F, sol
  <2> QED
    BY <1>10
<1> HIDE DEF walk, sol
<1>12. \A k \in 0 .. end : walk[k] = sol[k]
  <2> DEFINE T == {k \in 0 .. end : walk[k] = sol[k]}
  <2>1. \A k \in Nat : /\ walk[k] = IF k = 0 THEN First ELSE WalkStep(edid, index, walk[k - 1])
                       /\ sol[k] = IF k = 0 THEN First ELSE WalkStep(edid, index, sol[k - 1])
    BY <1>10, <1>11
  <2> HIDE DEF F
  <2>2. end \in Nat /\ \A k \in 0 .. end : k \in Nat
    BY <1>4
  <2>3. 0 \in T
    BY <2>1, <2>2
  <2>4. ASSUME NEW k \in 1 .. end, k - 1 \in T
        PROVE  k \in T
    <3>1. k \in Nat /\ k # 0 /\ k \in 0 .. end
      BY <2>2
    <3>2. walk[k - 1] = sol[k - 1]
      BY <2>4
    <3>3. walk[k] = sol[k]
      BY <2>1, <3>1, <3>2
    <3> QED
      BY <3>1, <3>3
  <2>5. \A k \in 0 .. end : k \in T
    <3> HIDE DEF T, end
    <3> QED
      BY <2>2, <2>3, <2>4, UpTo
  <2> QED
    BY <2>5
<1>13. sol[end].alloc = LastAlloc(blocks, m)
  <2>1. end \in Nat /\ (end <= m => end = m)
    BY <1>4, <1>6
  <2> HIDE DEF end
  <2>2. sol[end] = At(m)
    BY <2>1 DEF sol
  <2> QED
    BY <2>2 DEF At
<1>14. SpeakerAlloc(edid, index) = walk[end].alloc
  BY DEF SpeakerAlloc, walk, F, First, WalkStep
<1>15. walk[end] = sol[end]
  <2>1. end \in 0 .. end
    BY <1>4
  <2> QED
    BY <1>12, <2>1
<1> QED
  BY <1>13, <1>14, <1>15

-----------------------------------------------------------------------------
(* The EDID a TV sends, and what the HAL reads of it.                       *)

\* Block k of an EDID has its bytes from k * BlockSize on.
LEMMA InBlock ==
  ASSUME NEW b \in Nat, b > 0, NEW k \in Nat, NEW r \in 0 .. b - 1
  PROVE  (k * b + r) \div b = k /\ (k * b + r) % b = r
<1> DEFINE o == k * b + r
           q == o \div b
           m == o % b
<1>1. o \in Nat /\ q \in Int /\ m \in 0 .. b - 1 /\ o = q * b + m
  OBVIOUS
<1>2. (k - q) * b = m - r
  BY <1>1
<1>3. k - q >= 1 => (k - q) * b >= b
  BY <1>1
<1>4. k - q <= -1 => (k - q) * b <= -b
  BY <1>1
<1> QED
  BY <1>1, <1>2, <1>3, <1>4

\* What an extension block has in it.
LEMMA BytesRight ==
  ASSUME NEW ext \in Extension, \A i \in DOMAIN ext.blocks : GoodBlock(ext.blocks[i])
  PROVE  /\ Bytes(ext) \in Seq(Int) /\ Data(ext) \in Seq(Int) /\ Len(Data(ext)) \in Nat
         /\ ext.map => Len(Bytes(ext)) = 1 /\ Bytes(ext)[1] = BlockMapId
         /\ ~ext.map =>
              /\ Len(Bytes(ext)) = 4 + Len(Data(ext))
              /\ Bytes(ext)[1] = CeaId /\ Bytes(ext)[2] = CeaRev3 /\ Bytes(ext)[3] = 4 + Len(Data(ext))
              /\ Bytes(ext)[4] = IF ext.audio THEN 64 ELSE 0
              /\ \A j \in 1 .. Len(Data(ext)) : Bytes(ext)[4 + j] = Data(ext)[j]
<1> DEFINE m == Len(ext.blocks)
           parts == [i \in 1 .. m |-> Part(ext.blocks[i])]
           data == Data(ext)
           head == <<CeaId, CeaRev3, 4 + Len(data), IF ext.audio THEN 64 ELSE 0>>
<1>1. m \in Nat /\ DOMAIN ext.blocks = 1 .. m
  <2>1. ext.blocks \in Seq(DataBlock)
    BY DEF Extension
  <2> QED
    BY <2>1
<1>2. data = FlattenSeq(parts)
  BY <1>1 DEF Data, Part
<1>3. parts \in [1 .. m -> Seq(Int)]
  BY <1>1, PartRight
<1>4. data \in Seq(Int) /\ Len(data) \in Nat
  <2> HIDE DEF parts, m, data
  <2>1. FlattenSeq(parts) \in Seq(Int)
    BY <1>1, <1>3, Flattened
  <2> QED
    BY <1>2, <2>1
<1>5. Bytes(ext) = IF ext.map THEN <<BlockMapId>> ELSE head \o data
  BY DEF Bytes
<1> HIDE DEF data
<1>6. /\ head \in Seq(Int) /\ Len(head) = 4 /\ head[1] = CeaId /\ head[2] = CeaRev3
      /\ head[3] = 4 + Len(data) /\ head[4] = IF ext.audio THEN 64 ELSE 0
  BY <1>4 DEF CeaId, CeaRev3
<1>7. /\ head \o data \in Seq(Int) /\ Len(head \o data) = 4 + Len(data)
      /\ \A j \in 1 .. 4 : (head \o data)[j] = head[j]
      /\ \A j \in 1 .. Len(data) : (head \o data)[4 + j] = data[j]
  <2> HIDE DEF head
  <2>1. ASSUME NEW f \in Seq(Int), NEW g \in Seq(Int)
        PROVE  /\ f \o g \in Seq(Int) /\ Len(f \o g) = Len(f) + Len(g)
               /\ \A j \in 1 .. Len(f) : (f \o g)[j] = f[j]
               /\ \A j \in 1 .. Len(g) : (f \o g)[Len(f) + j] = g[j]
    OBVIOUS
  <2>2. head \in Seq(Int) /\ data \in Seq(Int) /\ Len(head) = 4
    BY <1>4, <1>6
  <2>3. /\ head \o data \in Seq(Int) /\ Len(head \o data) = Len(head) + Len(data)
        /\ \A j \in 1 .. Len(head) : (head \o data)[j] = head[j]
        /\ \A j \in 1 .. Len(data) : (head \o data)[Len(head) + j] = data[j]
    BY <2>1, <2>2
  <2> QED
    BY <2>2, <2>3
<1> HIDE DEF head
<1>8. 1 \in 1 .. 4 /\ 2 \in 1 .. 4 /\ 3 \in 1 .. 4 /\ 4 \in 1 .. 4
  OBVIOUS
<1>9. <<BlockMapId>> \in Seq(Int) /\ Len(<<BlockMapId>>) = 1 /\ <<BlockMapId>>[1] = BlockMapId
  BY DEF BlockMapId
<1>10. CASE ext.map
  BY <1>4, <1>5, <1>9, <1>10 DEF data
<1>11. CASE ~ext.map
  <2> DEFINE s == head \o data
  <2>1. Bytes(ext) = s
    BY <1>5, <1>11
  <2>2. s[1] = head[1] /\ s[2] = head[2] /\ s[3] = head[3] /\ s[4] = head[4]
    BY <1>7, <1>8
  <2>3. s \in Seq(Int) /\ Len(s) = 4 + Len(data) /\ \A j \in 1 .. Len(data) : s[4 + j] = data[j]
    BY <1>7
  <2> HIDE DEF s
  <2>4. /\ Bytes(ext)[1] = CeaId /\ Bytes(ext)[2] = CeaRev3 /\ Bytes(ext)[3] = 4 + Len(data)
        /\ Bytes(ext)[4] = IF ext.audio THEN 64 ELSE 0
    BY <1>6, <2>1, <2>2
  <2> QED
    BY <1>4, <1>11, <2>1, <2>3, <2>4 DEF data
<1> QED
  BY <1>10, <1>11

\* What a TV is, block by block.
LEMMA TvRight ==
  ASSUME NEW tv, IsTv(tv)
  PROVE  /\ tv \in Seq(Extension) /\ Len(tv) \in Nat /\ Len(tv) < MaxBlocks /\ DOMAIN tv = 1 .. Len(tv)
         /\ \A k \in 1 .. Len(tv) :
              /\ tv[k] \in Extension /\ Len(Bytes(tv[k])) <= BlockSize
              /\ \A i \in DOMAIN tv[k].blocks : GoodBlock(tv[k].blocks[i])
<1>1. tv \in Seq(Extension) /\ Len(tv) < MaxBlocks
  BY DEF IsTv
<1>2. Len(tv) \in Nat /\ DOMAIN tv = 1 .. Len(tv) /\ \A k \in 1 .. Len(tv) : tv[k] \in Extension
  BY <1>1
<1>3. ASSUME NEW k \in 1 .. Len(tv)
      PROVE  /\ Len(Bytes(tv[k])) <= BlockSize
             /\ \A i \in DOMAIN tv[k].blocks : GoodBlock(tv[k].blocks[i])
  <2>1. tv[k].blocks \in Seq(DataBlock)
    BY <1>2 DEF Extension
  <2>2. \A i \in DOMAIN tv[k].blocks : tv[k].blocks[i] \in DataBlock
    BY <2>1
  <2> QED
    BY <1>2, <2>2 DEF IsTv, GoodBlock
<1> QED
  BY <1>1, <1>2, <1>3

\* The bytes of an EDID: those of each block in its place, zeros behind the last
\* one, and the count of the blocks in the first one.
LEMMA EdidRight ==
  ASSUME NEW tv, IsTv(tv)
  PROVE  /\ Edid(tv)[BlockSize - 2] = Len(tv)
         /\ \A k \in 1 .. Len(tv) : \A j \in 1 .. Len(Bytes(tv[k])) :
              Edid(tv)[k * BlockSize + (j - 1)] = Bytes(tv[k])[j]
         /\ \A k \in 1 .. MaxBlocks - 1 : k > Len(tv) => Edid(tv)[k * BlockSize] = 0
<1>1. BlockSize \in Nat /\ BlockSize > 5 /\ MaxBlocks \in Nat /\ MaxBlocks >= 1
  BY EdidAssumption
<1>2. Len(tv) \in Nat /\ Len(tv) < MaxBlocks /\ DOMAIN tv = 1 .. Len(tv)
  BY TvRight
<1>3. ASSUME NEW k \in 0 .. MaxBlocks - 1, NEW r \in 0 .. BlockSize - 1
      PROVE  /\ k * BlockSize + r \in Offsets
             /\ (k * BlockSize + r) \div BlockSize = k /\ (k * BlockSize + r) % BlockSize = r
             /\ k > 0 => k * BlockSize + r # BlockSize - 2
  <2>1. k \in Nat /\ BlockSize > 0
    BY <1>1
  <2>2. k * BlockSize \in Nat /\ (k > 0 => k * BlockSize >= BlockSize)
    BY <1>1, <2>1
  <2>3. k * BlockSize <= (MaxBlocks - 1) * BlockSize
    BY <1>1, <2>1
  <2>4. (MaxBlocks - 1) * BlockSize = MaxEdid - BlockSize /\ MaxEdid \in Nat
    BY <1>1 DEF MaxEdid
  <2>5. k * BlockSize + r \in Offsets /\ (k > 0 => k * BlockSize + r # BlockSize - 2)
    <3> DEFINE kb == k * BlockSize
    <3> HIDE DEF kb
    <3> QED
      BY <1>1, <2>2, <2>3, <2>4 DEF Offsets, kb
  <2> QED
    BY <1>1, <2>1, <2>5, InBlock
<1>4. Edid(tv)[BlockSize - 2] = Len(tv)
  <2>1. BlockSize - 2 \in Offsets
    <3>1. /\ 0 \in 0 .. MaxBlocks - 1 /\ BlockSize - 2 \in 0 .. BlockSize - 1
          /\ 0 * BlockSize + (BlockSize - 2) = BlockSize - 2
      BY <1>1
    <3> QED
      BY <1>3, <3>1
  <2> QED
    BY <2>1 DEF Edid
<1>5. ASSUME NEW k \in 1 .. Len(tv), NEW j \in 1 .. Len(Bytes(tv[k]))
      PROVE  Edid(tv)[k * BlockSize + (j - 1)] = Bytes(tv[k])[j]
  <2> DEFINE len == Len(Bytes(tv[k]))
             r == j - 1
             o == k * BlockSize + r
  <2>1. len \in Nat /\ len <= BlockSize
    BY TvRight, BytesRight
  <2>2. k \in 0 .. MaxBlocks - 1 /\ k > 0 /\ r \in 0 .. BlockSize - 1 /\ r < len /\ r + 1 = j
    <3>1. j \in 1 .. len
      OBVIOUS
    <3> HIDE DEF len
    <3> QED
      BY <1>1, <1>2, <2>1, <3>1
  <2>3. o \in Offsets /\ o \div BlockSize = k /\ o % BlockSize = r /\ o # BlockSize - 2
    BY <1>3, <2>2
  <2>4. k \in DOMAIN tv
    BY <1>2
  <2> HIDE DEF o, r
  <2>5. Edid(tv)[o] = Bytes(tv[k])[r + 1]
    BY <2>2, <2>3, <2>4 DEF Edid
  <2> QED
    BY <2>2, <2>5 DEF o, r
<1>6. ASSUME NEW k \in 1 .. MaxBlocks - 1, k > Len(tv)
      PROVE  Edid(tv)[k * BlockSize] = 0
  <2> DEFINE o == k * BlockSize + 0
  <2>1. k \in 0 .. MaxBlocks - 1 /\ 0 \in 0 .. BlockSize - 1 /\ k \notin 1 .. Len(tv) /\ k > 0
    BY <1>1, <1>2, <1>6
  <2>2. o \in Offsets /\ o \div BlockSize = k /\ o % BlockSize = 0 /\ o # BlockSize - 2
    BY <1>3, <2>1
  <2>3. o = k * BlockSize
    BY <1>1, <2>1
  <2> HIDE DEF o
  <2>4. Edid(tv)[o] = 0
    <3>1. Len(<<>>) = 0 /\ ~(0 < 0)
      OBVIOUS
    <3> QED
      BY <1>2, <2>1, <2>2, <3>1 DEF Edid
  <2> QED
    BY <2>3, <2>4
<1> QED
  BY <1>4, <1>5, <1>6

\* The walk over the first CEA block of a TV finds its last speaker allocation.
LEMMA AllocRight ==
  ASSUME NEW tv, IsTv(tv), NEW k \in 1 .. Len(tv), ~tv[k].map
  PROVE  SpeakerAlloc(Edid(tv), k * BlockSize) = LastAlloc(tv[k].blocks, Len(tv[k].blocks))
<1> DEFINE e == Edid(tv)
           x == k * BlockSize
           ext == tv[k]
           blocks == ext.blocks
           m == Len(blocks)
           data == Data(ext)
<1>1. k \in Nat /\ BlockSize \in Nat /\ x \in Nat
  BY TvRight, EdidAssumption
<1>2. ext \in Extension /\ \A i \in DOMAIN blocks : GoodBlock(blocks[i])
  BY TvRight
<1>3. m \in Nat /\ DOMAIN blocks = 1 .. m /\ blocks \in [1 .. m -> DataBlock]
  <2>1. blocks \in Seq(DataBlock)
    BY <1>2 DEF Extension
  <2> HIDE DEF blocks
  <2> QED
    BY <2>1
<1>4. data = DataOf(m, blocks)
  BY <1>3 DEF Data, DataOf, Part
<1>5. /\ Len(data) \in Nat /\ Len(Bytes(ext)) = 4 + Len(data) /\ Bytes(ext)[3] = 4 + Len(data)
      /\ \A j \in 1 .. Len(data) : Bytes(ext)[4 + j] = data[j]
  BY <1>2, BytesRight
<1>6. \A j \in 1 .. Len(Bytes(ext)) : e[x + (j - 1)] = Bytes(ext)[j]
  BY EdidRight
<1> HIDE DEF e, x, ext, data
<1>7. e[x + 2] = 4 + Len(data)
  <2>1. 3 \in 1 .. Len(Bytes(ext)) /\ x + (3 - 1) = x + 2
    BY <1>1, <1>5
  <2> QED
    BY <1>5, <1>6, <2>1
<1>8. ASSUME NEW j \in 1 .. Len(data)
      PROVE  e[x + 3 + j] = data[j]
  <2>1. 4 + j \in 1 .. Len(Bytes(ext)) /\ x + (4 + j - 1) = x + 3 + j
    BY <1>1, <1>5
  <2>2. e[x + (4 + j - 1)] = Bytes(ext)[4 + j]
    BY <1>6, <2>1
  <2> QED
    BY <1>5, <2>1, <2>2
<1> HIDE DEF blocks, m
<1>9. \A i \in 1 .. m : GoodBlock(blocks[i])
  BY <1>2, <1>3
<1>10. SpeakerAlloc(e, x) = LastAlloc(blocks, m)
  BY <1>1, <1>3, <1>4, <1>7, <1>8, <1>9, WalkRight
<1> QED
  BY <1>10 DEF e, x, blocks, m, ext

\* Where the HAL looks for CEA blocks, and which blocks are.
FoundAt(edid) ==
  {i \in {k * BlockSize : k \in 1 .. MaxBlocks - 1} :
     i < EdidSize(edid) /\ edid[i] = CeaId /\ edid[i + 1] = CeaRev3}
CeaBlocks(tv) == {k \in 1 .. Len(tv) : ~tv[k].map}

LEMMA FoundRight ==
  ASSUME NEW tv, IsTv(tv)
  PROVE  FoundAt(Edid(tv)) = {k * BlockSize : k \in CeaBlocks(tv)}
<1> DEFINE e == Edid(tv)
           n == Len(tv)
           B == BlockSize
<1>1. B \in Nat /\ B > 5 /\ MaxBlocks \in Nat /\ n \in Nat /\ n < MaxBlocks
  BY TvRight, EdidAssumption
<1>2. e[B - 2] = n
  BY EdidRight
<1>3. EdidSize(e) \in Nat /\ \A k \in 1 .. n : k * B < EdidSize(e)
  <2> DEFINE more == IF e[B] = BlockMapId THEN 1 ELSE 0
             size == B * (n + more + 1)
  <2>1. EdidSize(e) = IF size > MaxEdid THEN MaxEdid ELSE size
    BY <1>2 DEF EdidSize
  <2>2. more \in {0, 1}
    OBVIOUS
  <2> HIDE DEF more
  <2>3. size \in Nat /\ size >= B * (n + 1) /\ MaxEdid \in Nat /\ MaxEdid >= B * (n + 1)
    <3>1. n + more + 1 >= n + 1 /\ MaxBlocks >= n + 1 /\ n + more + 1 \in Nat
      BY <1>1, <2>2
    <3>2. ASSUME NEW a \in Nat, NEW b \in Nat, a >= b
          PROVE  B * a >= B * b /\ B * a \in Nat
      BY <1>1, <3>2
    <3>3. n + 1 \in Nat
      BY <1>1
    <3> QED
      BY <1>1, <3>1, <3>2, <3>3 DEF MaxEdid
  <2>4. ASSUME NEW k \in 1 .. n
        PROVE  k * B < B * (n + 1)
    BY <1>1
  <2> HIDE DEF size, B
  <2>5. B * (n + 1) \in Nat /\ \A k \in 1 .. n : k * B \in Nat
    BY <1>1
  <2> DEFINE low == B * (n + 1)
  <2>6. low \in Nat /\ size >= low /\ MaxEdid >= low /\ \A k \in 1 .. n : k * B < low
    BY <2>3, <2>4, <2>5
  <2> HIDE DEF low
  <2>7. EdidSize(e) \in Nat /\ EdidSize(e) >= low
    BY <2>1, <2>3, <2>6
  <2>8. ASSUME NEW k \in 1 .. n
        PROVE  k * B < EdidSize(e)
    <3> DEFINE kb == k * B
    <3>1. kb \in Nat /\ kb < low
      BY <2>5, <2>6
    <3> HIDE DEF kb
    <3>2. kb < EdidSize(e)
      BY <2>6, <2>7, <3>1
    <3> QED
      BY <3>2 DEF kb
  <2> QED
    BY <2>7, <2>8
<1>4. ASSUME NEW k \in 1 .. n
      PROVE  (e[k * B] = CeaId /\ e[k * B + 1] = CeaRev3) <=> ~tv[k].map
  <2> DEFINE b == Bytes(tv[k])
  <2>1. tv[k] \in Extension /\ \A i \in DOMAIN tv[k].blocks : GoodBlock(tv[k].blocks[i])
    BY TvRight
  <2>2. /\ tv[k].map => Len(b) = 1 /\ b[1] = BlockMapId
        /\ ~tv[k].map => Len(b) >= 4 /\ Len(b) \in Nat /\ b[1] = CeaId /\ b[2] = CeaRev3
    BY <2>1, BytesRight
  <2>3. \A j \in 1 .. Len(b) : e[k * B + (j - 1)] = b[j]
    BY EdidRight
  <2> DEFINE kb == k * B
  <2>4. kb \in Nat
    BY <1>1
  <2> HIDE DEF kb, b, e
  <2>5. kb + (1 - 1) = kb /\ kb + (2 - 1) = kb + 1
    BY <2>4
  <2>6. CASE tv[k].map
    <3>1. 1 \in 1 .. Len(b)
      BY <2>2, <2>6
    <3>2. e[kb] = BlockMapId
      BY <2>2, <2>3, <2>5, <2>6, <3>1 DEF kb
    <3> QED
      BY <2>6, <3>2 DEF kb, BlockMapId, CeaId
  <2>7. CASE ~tv[k].map
    <3>1. 1 \in 1 .. Len(b) /\ 2 \in 1 .. Len(b)
      BY <2>2, <2>7
    <3>2. e[kb + (1 - 1)] = b[1] /\ e[kb + (2 - 1)] = b[2]
      BY <2>3, <3>1 DEF kb
    <3> QED
      BY <2>2, <2>5, <2>7, <3>2 DEF kb
  <2> QED
    BY <2>6, <2>7
<1>5. \A k \in 1 .. MaxBlocks - 1 : k > n => e[k * B] # CeaId
  BY EdidRight DEF CeaId
<1>6. \A k : k \in 1 .. MaxBlocks - 1 <=> k \in 1 .. n \/ (k \in 1 .. MaxBlocks - 1 /\ k > n)
  BY <1>1
<1> HIDE DEF e, n, B
<1>7. FoundAt(e) = {i \in {k * B : k \in 1 .. MaxBlocks - 1} :
                      i < EdidSize(e) /\ e[i] = CeaId /\ e[i + 1] = CeaRev3}
  BY DEF FoundAt, B
<1>8. ASSUME NEW i \in FoundAt(e)
      PROVE  \E k \in CeaBlocks(tv) : i = k * B
  <2>1. PICK k \in 1 .. MaxBlocks - 1 : i = k * B
    BY <1>7
  <2>2. e[k * B] = CeaId /\ e[k * B + 1] = CeaRev3
    BY <1>7, <2>1
  <2>3. k \in 1 .. n
    BY <1>5, <1>6, <2>2
  <2> QED
    BY <1>4, <2>1, <2>2, <2>3 DEF CeaBlocks, n
<1>9. ASSUME NEW k \in CeaBlocks(tv)
      PROVE  k * B \in FoundAt(e)
  <2>1. k \in 1 .. n /\ ~tv[k].map
    BY DEF CeaBlocks, n
  <2> QED
    BY <1>3, <1>4, <1>6, <1>7, <2>1
<1> QED
  BY <1>8, <1>9 DEF e, B

\* What QueryCaps makes of an EDID, by the first CEA block, if there is one.
CapsAt(edid, first) ==
  IF ~HasAudioBit(edid[first + 3]) THEN [has_audio |-> FALSE, speakers |-> {}]
  ELSE [has_audio |-> TRUE, speakers |-> SpeakersOf(SpeakerAlloc(edid, first))]
PlaysBy(ext) ==
  LET alloc == {i \in DOMAIN ext.blocks : ext.blocks[i].tag = SpeakersTag} IN
  IF ~ext.audio \/ alloc = {} THEN {}
  ELSE {l \in DOMAIN Layouts : Layouts[l] \subseteq SpeakersOf(ext.blocks[Max(alloc)].payload[1])}

LEMMA CapsParts ==
  ASSUME NEW edid
  PROVE  QueryCaps(edid) = IF FoundAt(edid) = {} THEN [has_audio |-> FALSE, speakers |-> {}]
                           ELSE CapsAt(edid, Min(FoundAt(edid)))
BY DEF QueryCaps, FoundAt, CapsAt

LEMMA PlaysParts ==
  ASSUME NEW tv, IsTv(tv)
  PROVE  Plays(tv) = IF CeaBlocks(tv) = {} THEN {} ELSE PlaysBy(tv[Min(CeaBlocks(tv))])
<1>1. DOMAIN tv = 1 .. Len(tv)
  BY TvRight
<1> QED
  BY <1>1 DEF Plays, CeaBlocks, PlaysBy

\* Without a speaker nothing is offered.
LEMMA NoLayout == {l \in DOMAIN Layouts : Layouts[l] \subseteq {}} = {}
BY DEF Layouts

LEMMA NoSpeaker == SpeakersOf(0) = {}
<1>1. \A j \in DOMAIN Speakers : Bit[j] \in {1, 2, 4, 8, 16, 32, 64}
  BY DEF Speakers, Bit
<1>2. \A b \in {1, 2, 4, 8, 16, 32, 64} : (0 \div b) % 2 # 1
  OBVIOUS
<1> QED
  BY <1>1, <1>2 DEF SpeakersOf

\* By the CEA block that is first the HAL offers what it says.
LEMMA BlockRight ==
  ASSUME NEW tv, IsTv(tv), NEW k \in 1 .. Len(tv), ~tv[k].map
  PROVE  Offered(CapsAt(Edid(tv), k * BlockSize)) = PlaysBy(tv[k])
<1> DEFINE e == Edid(tv)
           x == k * BlockSize
           ext == tv[k]
           blocks == ext.blocks
           alloc == {i \in DOMAIN blocks : blocks[i].tag = SpeakersTag}
<1>1. ext \in Extension /\ ext.audio \in BOOLEAN /\ \A i \in DOMAIN ext.blocks : GoodBlock(ext.blocks[i])
  BY TvRight DEF Extension
<1>2. e[x + 3] = IF ext.audio THEN 64 ELSE 0
  <2>1. /\ Len(Bytes(ext)) = 4 + Len(Data(ext)) /\ Len(Data(ext)) \in Nat
        /\ Bytes(ext)[4] = IF ext.audio THEN 64 ELSE 0
    BY <1>1, BytesRight
  <2>2. 4 \in 1 .. Len(Bytes(ext)) /\ 4 - 1 = 3
    BY <2>1
  <2>3. e[x + (4 - 1)] = Bytes(ext)[4]
    BY <2>2, EdidRight
  <2> QED
    BY <2>1, <2>2, <2>3
<1>3. HasAudioBit(64) /\ ~HasAudioBit(0)
  BY DEF HasAudioBit
<1>4. SpeakerAlloc(e, x) = IF alloc = {} THEN 0 ELSE blocks[Max(alloc)].payload[1]
  <2>1. SpeakerAlloc(e, x) = LastAlloc(blocks, Len(blocks))
    BY AllocRight
  <2>2. DOMAIN blocks = 1 .. Len(blocks)
    <3>1. blocks \in Seq(DataBlock)
      BY <1>1 DEF Extension
    <3> QED
      BY <3>1
  <2>3. alloc = SpeakerBlocks(blocks, Len(blocks))
    BY <2>2 DEF SpeakerBlocks
  <2> HIDE DEF alloc, blocks
  <2> QED
    BY <2>1, <2>3 DEF LastAlloc
<1>5. PlaysBy(ext) = IF ~ext.audio \/ alloc = {} THEN {}
                     ELSE {l \in DOMAIN Layouts : Layouts[l] \subseteq SpeakersOf(blocks[Max(alloc)].payload[1])}
  BY DEF PlaysBy
<1> HIDE DEF alloc, blocks, e, x
<1>6. CASE ~ext.audio
  <2>1. CapsAt(e, x).speakers = {}
    BY <1>2, <1>3, <1>6 DEF CapsAt
  <2>2. Offered(CapsAt(e, x)) = {l \in DOMAIN Layouts : Layouts[l] \subseteq {}}
    BY <2>1 DEF Offered
  <2> QED
    BY <1>5, <1>6, <2>2, NoLayout DEF e, x
<1>7. CASE ext.audio
  <2>1. CapsAt(e, x).speakers = SpeakersOf(SpeakerAlloc(e, x))
    BY <1>2, <1>3, <1>7 DEF CapsAt
  <2>2. Offered(CapsAt(e, x)) = {l \in DOMAIN Layouts : Layouts[l] \subseteq SpeakersOf(SpeakerAlloc(e, x))}
    BY <2>1 DEF Offered
  <2>3. CASE alloc = {}
    <3>1. SpeakersOf(SpeakerAlloc(e, x)) = {}
      BY <1>4, <2>3, NoSpeaker
    <3> QED
      BY <1>5, <2>2, <2>3, <3>1, NoLayout DEF e, x
  <2>4. CASE alloc # {}
    <3>1. SpeakerAlloc(e, x) = blocks[Max(alloc)].payload[1]
      BY <1>4, <2>4
    <3> QED
      BY <1>5, <1>7, <2>2, <2>4, <3>1 DEF e, x
  <2> QED
    BY <2>3, <2>4
<1> QED
  BY <1>6, <1>7

\* The first place where a CEA block is found is the place of the first CEA block.
LEMMA FirstRight ==
  ASSUME NEW n \in Nat, NEW S \in SUBSET (1 .. n), S # {}, NEW b \in Nat, b > 0
  PROVE  Min(S) \in S /\ Min({k * b : k \in S}) = Min(S) * b
<1> DEFINE T == {k * b : k \in S}
<1>1. S \subseteq Nat
  OBVIOUS
<1>2. PICK m \in S : \A k \in S : m <= k
  BY <1>1, LeastNatural
<1>3. Min(S) = m
  <2>1. \A x \in S : (\A y \in S : x <= y) => x = m
    BY <1>1, <1>2
  <2> QED
    BY <1>2, <2>1 DEF Min
<1>4. Min(T) = m * b
  <2>1. ASSUME NEW k \in S
        PROVE  m * b <= k * b /\ m * b \in Nat /\ k * b \in Nat
    BY <1>1, <1>2
  <2>2. m * b \in T /\ \A y \in T : m * b <= y /\ y \in Nat /\ m * b \in Nat
    BY <1>2, <2>1
  <2> DEFINE mb == m * b
  <2>3. mb \in T /\ \A y \in T : mb <= y /\ y \in Nat /\ mb \in Nat
    BY <2>2
  <2> HIDE DEF mb, T
  <2>4. \A x \in T : (\A y \in T : x <= y) => x = mb
    BY <2>3
  <2>5. Min(T) = mb
    BY <2>3, <2>4 DEF Min
  <2> QED
    BY <2>5 DEF mb
<1> QED
  BY <1>2, <1>3, <1>4

\* The HAL offers the layouts of each TV, wherever the EDID says what they are.
LEMMA OffersLayouts ==
  ASSUME NEW tv, IsTv(tv)
  PROVE  Offered(QueryCaps(Edid(tv))) = Plays(tv)
<1> DEFINE e == Edid(tv)
           C == CeaBlocks(tv)
           F == FoundAt(e)
<1>1. F = {k * BlockSize : k \in C}
  BY FoundRight
<1>2. Len(tv) \in Nat /\ BlockSize \in Nat /\ BlockSize > 0
  BY TvRight, EdidAssumption
<1>3. C \in SUBSET (1 .. Len(tv)) /\ \A k \in C : ~tv[k].map
  BY DEF CeaBlocks
<1>4. /\ QueryCaps(e) = IF F = {} THEN [has_audio |-> FALSE, speakers |-> {}] ELSE CapsAt(e, Min(F))
      /\ Plays(tv) = IF C = {} THEN {} ELSE PlaysBy(tv[Min(C)])
  BY CapsParts, PlaysParts
<1> HIDE DEF e, C, F
<1>5. CASE C = {}
  <2>1. F = {}
    BY <1>1, <1>5
  <2>2. QueryCaps(e).speakers = {}
    BY <1>4, <2>1
  <2>3. Offered(QueryCaps(e)) = {l \in DOMAIN Layouts : Layouts[l] \subseteq {}}
    BY <2>2 DEF Offered
  <2> QED
    BY <1>4, <1>5, <2>3, NoLayout DEF e
<1>6. CASE C # {}
  <2>1. Min(C) \in C /\ Min(F) = Min(C) * BlockSize
    BY <1>1, <1>2, <1>3, <1>6, FirstRight
  <2>2. F # {}
    BY <1>1, <1>6
  <2>3. QueryCaps(e) = CapsAt(e, Min(C) * BlockSize)
    BY <1>4, <2>1, <2>2
  <2>4. Min(C) \in 1 .. Len(tv) /\ ~tv[Min(C)].map
    BY <1>3, <2>1
  <2>5. Offered(CapsAt(e, Min(C) * BlockSize)) = PlaysBy(tv[Min(C)])
    BY <2>4, BlockRight DEF e
  <2>6. Offered(QueryCaps(e)) = Plays(tv)
    BY <1>4, <1>6, <2>3, <2>5
  <2> QED
    BY <2>6 DEF e
<1> QED
  BY <1>5, <1>6

\* Every answer of get_parameters is what the TV that was attached then can play: for
\* any TVs whose EDID the HAL has room for, blocks of any size and any data blocks.
THEOREM OffersAreRight == Spec => []OfferRight
<1>1. Init => OfferRight
  BY DEF Init, NoReply, OfferRight
<1>2. ASSUME OfferRight, [Next]_vars
      PROVE  OfferRight'
  <2>1. CASE UNCHANGED reply
    BY <1>2, <2>1 DEF OfferRight
  <2>2. ASSUME NEW s \in Streams, GetParameters(s)
        PROVE  OfferRight'
    <3>1. CASE reply' = NoReply
      BY <3>1 DEF OfferRight, NoReply
    <3>2. ASSUME NEW tv \in Tvs, reply' = [tv |-> tv, offered |-> Offered(QueryCaps(Edid(tv)))]
          PROVE  OfferRight'
      <4>1. reply'.tv = tv /\ reply'.offered = Offered(QueryCaps(Edid(tv)))
        BY <3>2
      <4>2. IsTv(tv)
        BY TvsAssumption
      <4>3. Offered(QueryCaps(Edid(tv))) = Plays(tv)
        BY <4>2, OffersLayouts
      <4> QED
        BY <4>1, <4>3 DEF OfferRight
    <3> QED
      BY <2>2, <3>1, <3>2 DEF GetParameters
  <2>3. UNCHANGED reply \/ \E s \in Streams : GetParameters(s)
    BY <1>2 DEF Next, vars, SetParameters, StoreCEAMap, OpenStream, Standby, CloseStream, Write,
                ReadCEAMap, Remap, PcmWrite
  <2> QED
    BY <2>1, <2>2, <2>3
<1> QED
  BY <1>1, <1>2, PTL DEF Spec

=============================================================================
