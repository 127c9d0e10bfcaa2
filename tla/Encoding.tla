------------------------------ MODULE Encoding ------------------------------
(***************************************************************************)
(* How the messages of a filtered block are put on the wire                *)
(* (common/src/data_stream/stream.rs).  What is written is a sequence of   *)
(* pieces, each a number or a slice of bytes, with its width in bytes.     *)
(* Only the widths and the length prefixes matter; the widths stay far     *)
(* below the sizes the checked additions guard against.                    *)
(***************************************************************************)
EXTENDS Integers, Sequences, FiniteSetsExt, SequencesExt

FILTER_IDS_TAG == 1

\* A varint has seven bits in each byte.  Lengths are below 128^4 here.
MaxVarintLen == 4

EncodedLenVarint(n) == Min({w \in 1 .. MaxVarintLen : n < 128 ^ w})

\* A key is the tag and three bits of wire type, as a varint.
KeyLen(tag) == EncodedLenVarint(8 * tag)

-----------------------------------------------------------------------------
(* The sizes computed before anything is written.                          *)

EncodedLengthDelimitedFieldLen(tag, payloadLen) ==
    KeyLen(tag) + EncodedLenVarint(payloadLen) + payloadLen

EncodedHeaderLen(tag, len) == EncodedLengthDelimitedFieldLen(tag, len)

PackedFilterIdsPayloadLen(ids) == MapThenSumSet(EncodedLenVarint, ids)

EncodedFilterIdsLen(ids) ==
    LET payloadLen == PackedFilterIdsPayloadLen(ids)
    IN  IF payloadLen = 0 THEN 0 ELSE EncodedLengthDelimitedFieldLen(FILTER_IDS_TAG, payloadLen)

EncodedBodyItemLenFromParts(tag, idsLen, messageLen) ==
    EncodedLengthDelimitedFieldLen(tag, idsLen + messageLen)

EncodedBodyItemLen(tag, ids, messageLen) ==
    EncodedBodyItemLenFromParts(tag, EncodedFilterIdsLen(ids), messageLen)

-----------------------------------------------------------------------------
(* What is written.                                                        *)

EncodeVarint(n) == <<[value |-> n, width |-> EncodedLenVarint(n)]>>

EncodeKey(tag) == <<[value |-> tag, width |-> KeyLen(tag)]>>

PutSlice(len) == <<[value |-> 0, width |-> len]>>

EncodeFilterIds(ids, payloadLen) ==
    IF payloadLen = 0 THEN <<>>
    ELSE EncodeKey(FILTER_IDS_TAG) \o EncodeVarint(payloadLen)
         \o FlattenSeq([i \in DOMAIN SetToSeq(ids) |-> EncodeVarint(SetToSeq(ids)[i])])

\* Mutant: the filter ids are not counted in the length of the field.
EncodeBodyItemBare(tag, ids, messageLen) ==
    EncodeKey(tag) \o EncodeVarint(messageLen)
    \o EncodeFilterIds(ids, PackedFilterIdsPayloadLen(ids)) \o PutSlice(messageLen)

EncodeBodyItem(tag, ids, messageLen) ==
    LET idsPayloadLen == PackedFilterIdsPayloadLen(ids)
        idsLen == IF idsPayloadLen = 0 THEN 0
                  ELSE EncodedLengthDelimitedFieldLen(FILTER_IDS_TAG, idsPayloadLen)
    IN  EncodeKey(tag) \o EncodeVarint(idsLen + messageLen)
        \o EncodeFilterIds(ids, idsPayloadLen) \o PutSlice(messageLen)

EncodeHeader(tag, len) == EncodeKey(tag) \o EncodeVarint(len) \o PutSlice(len)

-----------------------------------------------------------------------------

Width(pieces) == FoldLeft(LAMBDA sum, piece : sum + piece.width, 0, pieces)

\* A field that starts with its key and its length ends where its length says.
IsFramed(pieces) == pieces[2].value = Width(SubSeq(pieces, 3, Len(pieces)))

=============================================================================
