----------------------------- MODULE MCHdmiAudio -----------------------------
(* Instances of HdmiAudio for TLC: a few channel maps and TVs. *)
EXTENDS HdmiAudio

\* 5.1 in the order of CEA, of OMX, of files that end with LFE, and with only
\* the centre and LFE exchanged; one with a channel named twice.
MCMaps == {<<1, 2, 6, 3, 4, 5, 0, 0>>, <<1, 2, 3, 4, 5, 6, 0, 0>>, <<3, 1, 2, 4, 5, 6, 0, 0>>,
           <<1, 2, 3, 6, 4, 5, 0, 0>>, <<1, 2, 6, 6, 4, 5, 0, 0>>}

Audio == [tag |-> AudioTag, payload |-> <<9, 7, 7>>]
Video == [tag |-> 2, payload |-> <<132>>]
Spkrs(byte) == [tag |-> SpeakersTag, payload |-> <<byte, 0, 0>>]
Cea(audio, blocks) == [map |-> FALSE, audio |-> audio, blocks |-> blocks]
BlockMap == [map |-> TRUE, audio |-> FALSE, blocks |-> <<>>]

MCTvs == {<<Cea(TRUE, <<Spkrs(21), Audio, Spkrs(15)>>)>>,
          <<BlockMap, Cea(TRUE, <<Video, Spkrs(79), Audio>>)>>,
          <<BlockMap, Cea(TRUE, <<Video, Audio, Spkrs(21)>>), Cea(TRUE, <<Spkrs(15)>>)>>,
          <<Cea(FALSE, <<Spkrs(15)>>), Cea(TRUE, <<Spkrs(15)>>)>>,
          <<Cea(TRUE, <<Audio>>)>>}

=============================================================================
