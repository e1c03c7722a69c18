-------------------------------- MODULE Tlvs --------------------------------
(***************************************************************************)
(* The list of type-length-value items of a message on channel 1, as it    *)
(* comes from a client: whole, cut short, or with lengths that lie.        *)
(* parseTLVs reads it, ensureMsgFeaturesTLV completes it for the recipient,*)
(* extractMessageText takes the text out of it for the offline store.      *)
(*                                                                         *)
(* Lengths count cells: a header is two, for the type and the length, and  *)
(* the character set of a text with its subset is one. The data grow cell  *)
(* by cell, so that TLC sees all of them.                                  *)
(***************************************************************************)
EXTENDS Naturals, Sequences, SequencesExt

CONSTANTS MaxCells,  \* bound: cells of a message
          Cells      \* what a cell may hold: a type, a length, or text

Message == 2    \* 0x0002, the block of a message
Features == 0   \* 0x0501, inside it
Text == 1       \* 0x0101, inside it: a character set and the characters

ASSUME TlvsAssumption == Cells \subseteq Nat /\ MaxCells \in Nat

VARIABLE tlvs

TlvInit == tlvs = <<>>

Receive(cell) == Len(tlvs) < MaxCells /\ tlvs' = Append(tlvs, cell)

TlvNext == (\E cell \in Cells : Receive(cell)) \/ (Len(tlvs) = MaxCells /\ UNCHANGED tlvs)

TlvSpec == TlvInit /\ [][TlvNext]_tlvs

----------------------------------------------------------------------------
(* Reading. The offset that the code moves through its data is the front of *)
(* what is left of them here.                                              *)

Lists == Seq(Nat)

\* No header, or a value that does not fit: the loops stop.
Cut(d) == Len(d) < 2 \/ Len(d) < 2 + d[2]
Value(d) == SubSeq(d, 3, 2 + d[2])
Behind(d) == SubSeq(d, 3 + d[2], Len(d))

Types == {Message, Features, Text}
Missing == <<>>

\* The last item of a type is the one that stays in the map.
parseTLVs[d \in Lists] ==
  IF Cut(d) THEN [type \in Types |-> Missing]
  ELSE LET later == parseTLVs[Behind(d)]
       IN  [type \in Types |-> IF type = d[1] /\ later[type] = Missing
                                 THEN <<Value(d)>> ELSE later[type]]

\* extractMessageText: the text of the last fragment of the last block. There
\* must be a header's worth of block, and a character set.
Extract(d) ==
  LET block == parseTLVs[d][Message]
      fragment == IF block = Missing THEN Missing ELSE parseTLVs[block[1]][Text]
  IN  IF fragment \in {Missing, << <<>> >>} THEN <<>> ELSE Tail(fragment[1])

----------------------------------------------------------------------------
(* ensureMsgFeaturesTLV.                                                   *)

\* The 16 bits of a length are enough for a completed block: it came in a frame
\* of less than 2^16 bytes with 25 bytes of headers before it, and grows by 5.
Make(type, value) == <<type, Len(value)>> \o value
FeaturesItem == Make(Features, <<0>>)

\* The features in front of the first text.
BeforeText[b \in Lists] ==
  IF Cut(b) \/ b[1] = Text THEN FeaturesItem \o b
                           ELSE Make(b[1], Value(b)) \o BeforeText[Behind(b)]

\* A block is searched up to the first item that is cut short. Without a text
\* the features come first.
Completed_Appends(b) == IF parseTLVs[b][Features] # Missing THEN b ELSE b \o FeaturesItem
Completed(b) ==
  LET items == parseTLVs[b]
  IN  IF items[Features] # Missing THEN b
      ELSE IF items[Text] = Missing THEN FeaturesItem \o b ELSE BeforeText[b]

\* Every block is completed; what is behind the last whole item stays.
ensureMsgFeaturesTLV[d \in Lists] ==
  IF Cut(d) THEN d
  ELSE Make(d[1], IF d[1] = Message THEN Completed(Value(d)) ELSE Value(d))
         \o ensureMsgFeaturesTLV[Behind(d)]

----------------------------------------------------------------------------
\* The recipient of a live message reads the same text that would be kept for
\* it, however malformed the list is that the features were put into.
SameTextLiveAndStored == Extract(ensureMsgFeaturesTLV[tlvs]) = Extract(tlvs)

Fragments[b \in Lists] ==
  IF Cut(b) THEN <<>>
  ELSE (IF b[1] = Text THEN <<Value(b)>> ELSE <<>>) \o Fragments[Behind(b)]

\* "offline messages arrive intact instead of getting cut off" (README:82). Of
\* a text in several fragments all but the last are lost: parseTLVs keeps one.
FragmentsKept ==
  LET block == parseTLVs[tlvs][Message]
      texts == IF block = Missing THEN <<>> ELSE Fragments[block[1]]
  IN  (\A i \in DOMAIN texts : texts[i] # <<>>) =>
        Extract(tlvs) = FlattenSeq([i \in DOMAIN texts |-> Tail(texts[i])])

=============================================================================
