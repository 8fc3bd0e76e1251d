------------------------------- MODULE HdmiCaps -------------------------------
(***************************************************************************)
(* What a TV can play: hdmi_query_audio_caps (audio/hdmi_audio_utils.c)     *)
(* reads it from the TV's EDID, and get_parameters (hdmi_audio_hw.c) offers *)
(* the layouts of speakers to AudioFlinger.                                 *)
(*                                                                         *)
(* An EDID is a function of offsets, in blocks of BlockSize bytes.          *)
(***************************************************************************)
EXTENDS Integers, Sequences, FiniteSets, SequencesExt

CONSTANTS
  BlockSize,   \* EDID_BLOCK_SIZE
  MaxBlocks    \* HDMI_MAX_EDID / EDID_BLOCK_SIZE

ASSUME EdidAssumption == BlockSize \in Nat /\ BlockSize > 5 /\ MaxBlocks \in Nat \ {0}

MaxEdid == BlockSize * MaxBlocks
Offsets == 0 .. MaxEdid - 1
BlockMapId == 240
CeaId == 2
CeaRev3 == 3

\* The upper three bits of a data block's header, and the others.
Tag(byte) == byte \div 32
Size(byte) == byte % 32
AudioTag == 1
SpeakersTag == 4
HasAudioBit(byte) == (byte \div 64) % 2 = 1

Speakers == <<"FLFR", "LFE", "FC", "RLRR", "RC", "FLCFRC", "RLCRRC">>
Bit == <<1, 2, 4, 8, 16, 32, 64>>

\* The speakers of a speaker allocation byte.
SpeakersOf(byte) == {Speakers[i] : i \in {j \in DOMAIN Speakers : (byte \div Bit[j]) % 2 = 1}}

\* The size of the EDID that is looked at: 0x7E of the first block counts the
\* others.  A block map comes on top.
MutEdidSize(edid) == BlockSize * edid[BlockSize - 2]

EdidSize(edid) ==
  LET nblocks == edid[BlockSize - 2] + (IF edid[BlockSize] = BlockMapId THEN 1 ELSE 0)
      size == BlockSize * (nblocks + 1)
  IN  IF size > MaxEdid THEN MaxEdid ELSE size

\* The speaker allocation of the block at index: n runs from data block to data
\* block up to the offset the header gives.
SpeakerAlloc(edid, index) ==
  LET end == edid[index + 2]
      Walk[k \in Nat] ==
        IF k = 0 THEN [n |-> 4, alloc |-> 0]
        ELSE LET w == Walk[k - 1]
                 byte == edid[index + w.n]
             IN  IF w.n >= end THEN w
                 ELSE [n |-> w.n + 1 + Size(byte),
                       alloc |-> IF Tag(byte) = SpeakersTag THEN edid[index + w.n + 1] ELSE w.alloc]
  IN  Walk[end].alloc

\* Only the first CEA block is parsed, and only when it has the audio bit.
QueryCaps(edid) ==
  LET cea == {i \in {k * BlockSize : k \in 1 .. MaxBlocks - 1} :
                i < EdidSize(edid) /\ edid[i] = CeaId /\ edid[i + 1] = CeaRev3}
      first == Min(cea)
  IN  IF cea = {} THEN [has_audio |-> FALSE, speakers |-> {}]
      ELSE IF ~HasAudioBit(edid[first + 3]) THEN [has_audio |-> FALSE, speakers |-> {}]
      ELSE [has_audio |-> TRUE, speakers |-> SpeakersOf(SpeakerAlloc(edid, first))]

\* The layouts get_parameters may offer, and the speakers each needs.
Layouts == [quad     |-> {"FLFR", "RLRR"},
            surround |-> {"FLFR", "FC", "RC"},
            five1    |-> {"FLFR", "FC", "LFE", "RLRR"},
            seven1   |-> {"FLFR", "FC", "LFE", "RLRR", "RLCRRC"}]

Offered(caps) == {l \in DOMAIN Layouts : Layouts[l] \subseteq caps.speakers}

-----------------------------------------------------------------------------
(* A TV (outside of src/), and the EDID it sends by the specifications that *)
(* hdmi_audio_utils.c names.  A data block has a header and a payload.      *)

DataBlock == [tag : 0 .. 7, payload : Seq(0 .. 255)]
Header(block) == block.tag * 32 + Len(block.payload)

\* An extension block: a block map, or a CEA block with data blocks.
Extension == [map : BOOLEAN, audio : BOOLEAN, blocks : Seq(DataBlock)]
Data(ext) == FlattenSeq([i \in DOMAIN ext.blocks |-> <<Header(ext.blocks[i])>> \o ext.blocks[i].payload])
Bytes(ext) ==
  IF ext.map THEN <<BlockMapId>>
  ELSE <<CeaId, CeaRev3, 4 + Len(Data(ext)), IF ext.audio THEN 64 ELSE 0>> \o Data(ext)

\* A TV whose EDID the HAL has room for, with blocks as long as they say.
IsTv(tv) ==
  /\ tv \in Seq(Extension) /\ Len(tv) < MaxBlocks
  /\ \A k \in DOMAIN tv :
       /\ Len(Bytes(tv[k])) <= BlockSize
       /\ \A i \in DOMAIN tv[k].blocks :
            LET b == tv[k].blocks[i]
            IN  Len(b.payload) < 32 /\ (b.tag = SpeakersTag => b.payload # <<>>)

\* The base block says how many follow.
Edid(tv) ==
  [o \in Offsets |->
     LET k == o \div BlockSize
         bytes == IF k \in DOMAIN tv THEN Bytes(tv[k]) ELSE <<>>
     IN  IF o = BlockSize - 2 THEN Len(tv)
         ELSE IF k > 0 /\ o % BlockSize < Len(bytes) THEN bytes[(o % BlockSize) + 1] ELSE 0]

\* The layouts a TV has speakers for: its last speaker allocation says which.
Plays(tv) ==
  LET cea == {k \in DOMAIN tv : ~tv[k].map}
      ext == tv[Min(cea)]
      alloc == {i \in DOMAIN ext.blocks : ext.blocks[i].tag = SpeakersTag}
  IN  IF cea = {} THEN {}
      ELSE IF ~ext.audio \/ alloc = {} THEN {}
      ELSE {l \in DOMAIN Layouts : Layouts[l] \subseteq SpeakersOf(ext.blocks[Max(alloc)].payload[1])}

=============================================================================
