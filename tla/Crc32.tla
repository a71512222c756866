------------------------------- MODULE Crc32 --------------------------------
(***************************************************************************)
(* The checksum of a journal record (src/journal.c): CRC-32 with a table   *)
(* of 256 entries, over the header (its crc32 field 0) and then over the   *)
(* payload.  A byte and the 32 bit register are the sets of the numbers of *)
(* their one bits, so that exclusive or is symmetric difference.           *)
(***************************************************************************)
EXTENDS Integers, Sequences, SequencesExt

Register == SUBSET (0 .. 31)
Byte     == SUBSET (0 .. 7)

AllOnes == 0 .. 31

(* 0xEDB88320 *)
Polynomial == {31, 30, 29, 27, 26, 24, 23, 21, 20, 19, 15, 9, 8, 5}

Xor(a, b) == SymDiff(a, b)

ShiftRight(a, n) == {bit - n : bit \in {k \in a : k >= n}}

DivideBit(crc) == Xor(ShiftRight(crc, 1), IF 0 \in crc THEN Polynomial ELSE {})

(* crc32_init: each entry is its index after eight divisions. *)
crc32_table ==
  [i \in Byte |-> FoldLeft(LAMBDA crc, j : DivideBit(crc), i, <<0, 1, 2, 3, 4, 5, 6, 7>>)]

crc32_update_NoShift(crc, data) ==
  FoldLeft(LAMBDA c, byte : Xor(c \ (0 .. 7), crc32_table[Xor(c, byte) \cap (0 .. 7)]),
           crc, data)

crc32_update(crc, data) ==
  FoldLeft(LAMBDA c, byte : Xor(ShiftRight(c, 8), crc32_table[Xor(c, byte) \cap (0 .. 7)]),
           crc, data)

(* hdr.crc32 in journal_append. *)
RecordCrc(header, payload) ==
  Xor(crc32_update(crc32_update(AllOnes, header), payload), AllOnes)

-----------------------------------------------------------------------------
(***************************************************************************)
(* The reference: the bits of the message, lowest first, fed one by one    *)
(* into a shift register.                                                  *)
(***************************************************************************)
ReferenceCrc(data) ==
  LET Bit(k) == (k - 1) % 8 \in data[((k - 1) \div 8) + 1]
      Feed(crc, bit) == Xor(ShiftRight(crc, 1), IF (0 \in crc) # bit THEN Polynomial ELSE {})
      register[k \in 0 .. 8 * Len(data)] ==
        IF k = 0 THEN AllOnes ELSE Feed(register[k - 1], Bit(k))
  IN  Xor(register[8 * Len(data)], AllOnes)

(* The byte with a given value. *)
ByteOf(n) == {k \in 0 .. 7 : (n \div 2 ^ k) % 2 = 1}

(* The digits "123456789", whose CRC-32 is by definition 0xCBF43926. *)
CheckString == [k \in 1 .. 9 |-> ByteOf(48 + k)]
CheckValue  == {31, 30, 27, 25, 24, 23, 22, 21, 20, 18, 13, 12, 11, 8, 5, 2, 1}

(* Bounds of the check: every byte alone, and pairs of some. *)
SomeBytes == {ByteOf(n) : n \in {0, 1, 2, 3, 127, 128, 170, 254, 255}}

-----------------------------------------------------------------------------
(* The checksum that journal_append computes in two passes with the table  *)
(* is the CRC-32 of IEEE 802.3 (journal.c:39) of header and payload as one *)
(* message, wherever the message is split.                                 *)
CrcIsStandard ==
  /\ \A k \in 0 .. 9 :
       RecordCrc(SubSeq(CheckString, 1, k), SubSeq(CheckString, k + 1, 9)) = CheckValue
  /\ \A b \in Byte : RecordCrc(<<b>>, << >>) = ReferenceCrc(<<b>>)
  /\ \A b, c, d \in SomeBytes : RecordCrc(<<b>>, <<c, d>>) = ReferenceCrc(<<b, c, d>>)
=============================================================================
