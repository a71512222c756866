----------------------------- MODULE MCJournal ------------------------------
(* Instances of Journal for TLC, with the checksum of its records. *)
EXTENDS Journal, Crc32

Records == (1 .. MaxSessions) \X (0 .. MaxAppends - 1)

Cells == {Zero} \cup {Part(part, record) : part \in {"header", "payload"}, record \in Records}

(* A cell as a byte: what it is, and the numbers that identify its record. *)
PartCode == [zero |-> 0, header |-> 1, payload |-> 2]
Bytes(cell) == <<ByteOf(64 * PartCode[cell.part] + 8 * cell.session + cell.seq)>>

(* For each record and each cell that may be behind its header, whether a  *)
(* reader finds that the CRC-32 of the two is the one that journal_append  *)
(* put into the header.                                                    *)
CrcMatches ==
  {<<record, cell,
     ReferenceCrc(Bytes(Part("header", record)) \o Bytes(cell))
       = RecordCrc(Bytes(Part("header", record)), Bytes(Part("payload", record)))>> :
   record \in Records, cell \in Cells}

(* The checksum of journal_append is the CRC-32 it is meant to be, and     *)
(* tells the records that a failed append or a crash has torn: whatever is *)
(* behind a header in the file, the CRC matches exactly if it is the       *)
(* payload of the same record.                                             *)
TornRecordDetected ==
  /\ CrcIsStandard
  /\ \A i \in DOMAIN file : file[i].part = "header" =>
       LET record == <<file[i].session, file[i].seq>> IN
       (i + 1 \in DOMAIN file /\ <<record, file[i + 1], TRUE>> \in CrcMatches) <=> ValidAt(i, record)
=============================================================================
