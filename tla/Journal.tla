------------------------------ MODULE Journal -------------------------------
(***************************************************************************)
(* The append-only journal (include/journal.h, src/journal.c): one file    *)
(* that is opened, appended to and closed by one process after the other,  *)
(* either through a shared mapping or through a stdio stream.              *)
(*                                                                         *)
(* The file is a sequence of cells.  A record is two cells, its header and *)
(* its payload: journal_append copies them one after the other, and both   *)
(* payload types of the program have the same size.  The process may die   *)
(* at any step, which loses what stdio has buffered; the system may die at *)
(* any step, which loses any part of what was not synced.  fstat, msync,   *)
(* fflush and fsync themselves are taken to succeed.                       *)
(***************************************************************************)
EXTENDS Integers, Sequences, SequencesExt

CONSTANTS
  DEFAULT_MMAP_SIZE,  \* in cells (256 MB in the code)
  MaxSessions,        \* bound of the model: times the journal is opened
  MaxAppends,         \* bound of the model: calls of journal_append
  MaxCrashes          \* bound of the model: times the system dies

RecordSize == 2

(* A record does not divide the size of the mapping evenly: 256 MB is not  *)
(* a multiple of 84 bytes either.                                          *)
ASSUME MmapSizeAssumption ==
  DEFAULT_MMAP_SIZE \in Nat /\ DEFAULT_MMAP_SIZE >= RecordSize
ASSUME JournalBoundAssumption ==
  MaxSessions \in Nat /\ MaxAppends \in Nat /\ MaxCrashes \in Nat

(* What a cell holds: nothing, or a part of the record with that sequence  *)
(* number of that session.                                                 *)
Cell == [part : {"zero", "header", "payload"}, session : Nat, seq : Nat]

Zero == [part |-> "zero", session |-> 0, seq |-> 0]

Part(part, record) == [part |-> part, session |-> record[1], seq |-> record[2]]

VARIABLES
  file,      \* the content of the file, as every process sees it
  disk,      \* the content that is on the disk for certain
  buffer,    \* cells in the buffer of the stdio stream
  jrnl,      \* the journal_t handle
  pc,        \* "closed", "ready", or where the call in progress is
  session,   \* number of times the journal was opened
  appends,   \* number of calls of journal_append
  crashes,   \* number of times the system died
  acked,     \* history: records whose journal_append returned 0
  promised,  \* history: those of them the crashes so far must have spared
  durable    \* history: those of them that were synced

counters == <<appends, crashes>>
history == <<acked, promised, durable>>
vars == <<file, disk, buffer, jrnl, pc, session, appends, crashes, acked, promised, durable>>

NullHandle == [use_mmap |-> FALSE, sequence |-> 0, bytes_written |-> 0,
               mapped |-> FALSE, mmap_size |-> 0, mmap_offset |-> 0]

Init ==
  /\ file = << >>
  /\ disk = << >>
  /\ buffer = << >>
  /\ jrnl = NullHandle
  /\ pc = "closed"
  /\ session = 0
  /\ appends = 0
  /\ crashes = 0
  /\ acked = << >>
  /\ promised = {}
  /\ durable = {}

(* ftruncate to a size: cut off, or filled up with zeros. *)
Truncated(f, size) == [i \in 1 .. size |-> IF i <= Len(f) THEN f[i] ELSE Zero]

-----------------------------------------------------------------------------
(***************************************************************************)
(* journal_open                                                            *)
(***************************************************************************)
MappingSize == IF Len(file) < DEFAULT_MMAP_SIZE THEN DEFAULT_MMAP_SIZE ELSE Len(file)

OpenMmap_AtStart ==
  /\ pc = "closed"
  /\ session < MaxSessions
  /\ file' = Truncated(file, MappingSize)
  /\ jrnl' = [NullHandle EXCEPT !.use_mmap = TRUE, !.mapped = TRUE,
                                !.mmap_size = MappingSize]
  /\ pc' = "ready"
  /\ session' = session + 1
  /\ UNCHANGED <<counters, disk, buffer, history>>

(* The file is filled up to the default size, and writing starts behind    *)
(* all that is in it: mmap_offset is the size after filling up.            *)
OpenMmap ==
  /\ pc = "closed"
  /\ session < MaxSessions
  /\ file' = Truncated(file, MappingSize)
  /\ jrnl' = [NullHandle EXCEPT !.use_mmap = TRUE, !.mapped = TRUE,
                                !.mmap_size = MappingSize,
                                !.mmap_offset = MappingSize]
  /\ pc' = "ready"
  /\ session' = session + 1
  /\ UNCHANGED <<counters, disk, buffer, history>>

(* fopen in mode "ab". *)
OpenFile ==
  /\ pc = "closed"
  /\ session < MaxSessions
  /\ jrnl' = NullHandle
  /\ pc' = "ready"
  /\ session' = session + 1
  /\ UNCHANGED <<counters, file, disk, buffer, history>>

(* open, fopen, ftruncate or mmap fails and NULL is returned; the file may *)
(* have been filled up before the mmap failed.                             *)
OpenFails ==
  /\ pc = "closed"
  /\ session < MaxSessions
  /\ file' \in {file, Truncated(file, MappingSize)}
  /\ UNCHANGED <<counters, disk, buffer, jrnl, pc, session, history>>

-----------------------------------------------------------------------------
(***************************************************************************)
(* journal_append.  The sequence number is taken first, whatever happens   *)
(* to the record.                                                          *)
(***************************************************************************)
CurrentRecord == <<session, jrnl.sequence - 1>>

Fits(j) == j.mmap_offset + RecordSize <= j.mmap_size

AppendBegin ==
  /\ pc = "ready"
  /\ appends < MaxAppends
  /\ appends' = appends + 1
  /\ jrnl' = [jrnl EXCEPT !.sequence = @ + 1]
  /\ pc' = IF ~ jrnl.use_mmap THEN "fwrite_header"
           ELSE IF Fits(jrnl) THEN "header" ELSE "extend"
  /\ UNCHANGED <<crashes, file, disk, buffer, session, history>>

Extended == jrnl.mmap_size + DEFAULT_MMAP_SIZE

ExtendFile ==
  /\ pc = "extend"
  /\ file' = Truncated(file, Extended)
  /\ pc' = "remap"
  /\ UNCHANGED <<counters, disk, buffer, jrnl, session, history>>

ExtendFileFails ==
  /\ pc = "extend"
  /\ pc' = "ready"
  /\ UNCHANGED <<counters, file, disk, buffer, jrnl, session, history>>

(* msync of the mapping up to mmap_offset: all records of the session.  It *)
(* does nothing if an earlier remapping failed.                            *)
Msync ==
  IF jrnl.mapped
    THEN /\ disk' = file
         /\ durable' = durable \cup promised
    ELSE UNCHANGED <<disk, durable>>

(* msync, munmap, and the new mapping. *)
Remap ==
  /\ pc = "remap"
  /\ Msync
  /\ jrnl' = [jrnl EXCEPT !.mapped = TRUE, !.mmap_size = Extended]
  /\ pc' = "header"
  /\ UNCHANGED <<counters, file, buffer, session, acked, promised>>

RemapFails_SizeSet ==
  /\ pc = "remap"
  /\ Msync
  /\ jrnl' = [jrnl EXCEPT !.mapped = FALSE, !.mmap_size = Extended]
  /\ pc' = "ready"
  /\ UNCHANGED <<counters, file, buffer, session, acked, promised>>

(* mmap fails: mmap_base is MAP_FAILED, mmap_size stays what it was. *)
RemapFails ==
  /\ pc = "remap"
  /\ Msync
  /\ jrnl' = [jrnl EXCEPT !.mapped = FALSE]
  /\ pc' = "ready"
  /\ UNCHANGED <<counters, file, buffer, session, acked, promised>>

(* A store of the process through the mapping. *)
Store(offset, cell) == ReplaceAt(file, offset + 1, cell)

CopyHeader ==
  /\ pc = "header"
  /\ file' = Store(jrnl.mmap_offset, Part("header", CurrentRecord))
  /\ pc' = "payload"
  /\ UNCHANGED <<counters, disk, buffer, jrnl, session, history>>

(* The append returns 0.  The cells are in the page cache, so the death of *)
(* the process alone does not lose them.                                   *)
CopyPayload ==
  /\ pc = "payload"
  /\ file' = Store(jrnl.mmap_offset + 1, Part("payload", CurrentRecord))
  /\ jrnl' = [jrnl EXCEPT !.mmap_offset = @ + RecordSize,
                          !.bytes_written = @ + RecordSize]
  /\ pc' = "ready"
  /\ acked' = Append(acked, CurrentRecord)
  /\ promised' = promised \cup {CurrentRecord}
  /\ UNCHANGED <<counters, disk, buffer, session, durable>>

FwriteHeader ==
  /\ pc = "fwrite_header"
  /\ buffer' = Append(buffer, Part("header", CurrentRecord))
  /\ pc' = "fwrite_payload"
  /\ UNCHANGED <<counters, file, disk, jrnl, session, history>>

FwritePayload ==
  /\ pc = "fwrite_payload"
  /\ buffer' = Append(buffer, Part("payload", CurrentRecord))
  /\ jrnl' = [jrnl EXCEPT !.bytes_written = @ + RecordSize]
  /\ pc' = "ready"
  /\ acked' = Append(acked, CurrentRecord)
  /\ UNCHANGED <<counters, file, disk, session, promised, durable>>

(* One of the two fwrites is short: -1 is returned, and a header already   *)
(* written stays without payload.                                          *)
FwriteFails ==
  /\ pc \in {"fwrite_header", "fwrite_payload"}
  /\ pc' = "ready"
  /\ UNCHANGED <<counters, file, disk, buffer, jrnl, session, history>>

(* stdio writes its buffer out, at the end of the file. *)
StdioFlush ==
  /\ buffer # << >>
  /\ file' = file \o buffer
  /\ buffer' = << >>
  /\ UNCHANGED <<counters, disk, jrnl, pc, session, history>>

-----------------------------------------------------------------------------
(***************************************************************************)
(* journal_sync and journal_close                                          *)
(***************************************************************************)
FlushAndFsync ==
  /\ file' = file \o buffer
  /\ disk' = file'
  /\ buffer' = << >>
  /\ promised' = promised \cup ToSet(SelectSeq(acked, LAMBDA r : r[1] = session))
  /\ durable' = durable \cup promised'

Sync_NoFlush ==
  IF jrnl.use_mmap THEN Msync /\ UNCHANGED <<file, buffer, promised>>
  ELSE /\ disk' = file
       /\ promised' = promised \cup ToSet(SelectSeq(acked, LAMBDA r : r[1] = session))
       /\ durable' = durable \cup promised'
       /\ UNCHANGED <<file, buffer>>

Sync ==
  IF jrnl.use_mmap THEN Msync /\ UNCHANGED <<file, buffer, promised>>
                   ELSE FlushAndFsync

journal_sync ==
  /\ pc = "ready"
  /\ Sync
  /\ UNCHANGED <<counters, jrnl, pc, session, acked>>

CloseSync ==
  /\ pc = "ready"
  /\ Sync
  /\ pc' = "close"
  /\ UNCHANGED <<counters, jrnl, session, acked>>

CloseTruncate_ToBytes ==
  /\ pc = "close"
  /\ file' = IF jrnl.use_mmap THEN Truncated(file, jrnl.bytes_written) ELSE file
  /\ jrnl' = NullHandle
  /\ pc' = "closed"
  /\ UNCHANGED <<counters, disk, buffer, session, history>>

(* munmap, and the file is cut off behind the last record; a failure of    *)
(* that ftruncate is ignored.                                              *)
CloseTruncate ==
  /\ pc = "close"
  /\ file' \in IF jrnl.use_mmap THEN {file, Truncated(file, jrnl.mmap_offset)}
                                ELSE {file}
  /\ jrnl' = NullHandle
  /\ pc' = "closed"
  /\ UNCHANGED <<counters, disk, buffer, session, history>>

-----------------------------------------------------------------------------
(***************************************************************************)
(* Faults                                                                  *)
(***************************************************************************)
ProcessCrash ==
  /\ pc # "closed"
  /\ buffer' = << >>
  /\ jrnl' = NullHandle
  /\ pc' = "closed"
  /\ UNCHANGED <<counters, file, disk, session, history>>

(* The file as it may be found after the system died: of either size, and  *)
(* each cell as it was last or as it was on the disk.                      *)
AfterSystemCrash ==
  {Truncated(f, size) :
     f \in {[i \in 1 .. Len(file) |-> IF i \in lost THEN Truncated(disk, Len(file))[i]
                                                    ELSE file[i]] :
              lost \in SUBSET {i \in 1 .. Len(file) :
                                 file[i] # Truncated(disk, Len(file))[i]}},
     size \in {Len(file), Len(disk)}}

SystemCrash ==
  /\ crashes < MaxCrashes
  /\ crashes' = crashes + 1
  /\ file' \in AfterSystemCrash
  /\ disk' = file'
  /\ buffer' = << >>
  /\ jrnl' = NullHandle
  /\ pc' = "closed"
  /\ promised' = durable
  /\ UNCHANGED <<session, appends, acked, durable>>

(* All sessions of the model are over. *)
Done == session = MaxSessions /\ pc = "closed" /\ UNCHANGED vars

-----------------------------------------------------------------------------
Next ==
  \/ OpenMmap \/ OpenFile \/ OpenFails
  \/ AppendBegin
  \/ ExtendFile \/ ExtendFileFails \/ Remap \/ RemapFails
  \/ CopyHeader \/ CopyPayload
  \/ FwriteHeader \/ FwritePayload \/ FwriteFails \/ StdioFlush
  \/ journal_sync \/ CloseSync \/ CloseTruncate
  \/ ProcessCrash \/ SystemCrash
  \/ Done

Spec == Init /\ [][Next]_vars

(* The journal as the program uses it when nothing fails: mapped, appended *)
(* to, and closed.                                                         *)
CleanSpec ==
  Init /\ [][\/ OpenMmap \/ AppendBegin
              \/ ExtendFile \/ Remap \/ CopyHeader \/ CopyPayload
              \/ CloseSync \/ CloseTruncate
              \/ Done]_vars

-----------------------------------------------------------------------------
(***************************************************************************)
(* Properties                                                              *)
(***************************************************************************)
(* The state has its type, and the mapping never reaches behind the file.  *)
TypeOK ==
  /\ file \in Seq(Cell)
  /\ disk \in Seq(Cell)
  /\ buffer \in Seq(Cell)
  /\ jrnl.mmap_offset <= jrnl.mmap_size
  /\ jrnl.mmap_size <= Len(file)
  /\ durable \subseteq promised /\ promised \subseteq ToSet(acked)

(* A record whose header and payload are both in place; its CRC (module   *)
(* Crc32) is there to tell it from a torn one.                             *)
ValidAt(i, record) ==
  /\ i + 1 <= Len(file)
  /\ file[i] = Part("header", record)
  /\ file[i + 1] = Part("payload", record)

(* Nothing journal_append reported as written is lost to what the journal  *)
(* guards against: a record survives the death of the process once it is   *)
(* in the mapping, and the death of the system once journal_sync,          *)
(* journal_close or an extension of the mapping has synced it.  This holds *)
(* also if an extension failed half way and the journal was closed without *)
(* a mapping.                                                              *)
PromisedSurvive ==
  \A record \in promised : \E i \in DOMAIN file : ValidAt(i, record)

(* The intact records in the file are in the order in which the appends    *)
(* were acknowledged, over all sessions, and none is there twice, although *)
(* sequence numbers start again at 0 with every journal_open.              *)
RecordsInOrder ==
  \A k, m \in DOMAIN acked : \A i, j \in DOMAIN file :
    ValidAt(i, acked[k]) /\ ValidAt(j, acked[m]) => (k < m <=> i < j)

(* The journal is append-only: apart from the death of the system, no open,*)
(* append or close of any session changes or cuts off a cell that was      *)
(* written before.                                                         *)
AppendOnly ==
  [][crashes' # crashes \/ \A i \in DOMAIN file :
       file[i] # Zero => i \in DOMAIN file' /\ file'[i] = file[i]]_vars

(* journal_append never stores through a mapping that is not there or      *)
(* behind its end, also after the remapping of an earlier append failed:   *)
(* since mmap_size stays small, every later append tries to extend again.  *)
StoresInMapping ==
  /\ TypeOK
  /\ pc \in {"header", "payload"} =>
       jrnl.mapped /\ jrnl.mmap_offset + RecordSize <= jrnl.mmap_size

(* journal.h: "Recovery: replay the journal from the beginning."  A reader *)
(* that starts at offset 0 and goes from record to record comes to every   *)
(* record that was synced.                                                 *)
ReplayReaches ==
  LET at(k) == RecordSize * (k - 1) + 1
      IsRecord(i) == \E record \in ToSet(acked) : ValidAt(i, record)
  IN  \A record \in durable : \E k \in 1 .. Len(file) :
        /\ ValidAt(at(k), record)
        /\ \A m \in 1 .. k : IsRecord(at(m))
=============================================================================
