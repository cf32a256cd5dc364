-------------------------------- MODULE Disk --------------------------------
(***************************************************************************)
(* The disk library of OmochaOS (modules/hd/hd.c): opening the drive with  *)
(* its partition tables, and reads and writes of any number of bytes, by   *)
(* programmed I/O and an interrupt per sector.                             *)
(*                                                                         *)
(* Task_HD identifies the drives and then spins: the loop that called      *)
(* these functions is commented out.  They are modelled from init_hd on,   *)
(* one call at a time, by callers who open the drive first.  A panic in    *)
(* ring 1 does not stop the caller, so the checks of hd_rw_drv do nothing. *)
(* The drive is external: it takes a command, asks for or offers a sector  *)
(* at a time, and interrupts.  It answers within HD_TIMEOUT.               *)
(***************************************************************************)
EXTENDS Integers, Sequences

CONSTANTS
  SECTOR_SIZE,     \* 512
  Counts,          \* values of the 8-bit sector count: 256, where 0 means 256
  PART_PER_DRIVE,  \* 4
  SUB_PER_PART,    \* 16
  Capacity,        \* sectors of the drive
  Tables,          \* the partition table of each sector that has one
  Transfers,       \* what is read and written: partition, lba and bytes
  MaxOpens

HD_PART_TYPE_NONE   == 0
HD_PART_TYPE_EXTEND == 5
PRIM_PER_DRIVE == PART_PER_DRIVE + 1
Subs == 0..(SUB_PER_PART * PART_PER_DRIVE - 1)
Sectors(count) == (count + SECTOR_SIZE - 1) \div SECTOR_SIZE

ASSUME DiskAssumption ==
  /\ SECTOR_SIZE \in Nat \ {0} /\ Counts \in Nat \ {0} /\ Capacity \in Nat \ {0}
  /\ 0 \in DOMAIN Tables
  /\ \A s \in DOMAIN Tables : Len(Tables[s]) = PART_PER_DRIVE
  /\ \A t \in Transfers : t.count > 0 /\ Sectors(t.count) <= Counts

VARIABLES
  hd_info,   \* hd_info[0]
  hd_buf,
  platter,   \* the bytes of each sector
  ata,       \* the drive: its command and the sector in its buffer
  hd_int,    \* an interrupt message waits for TaskHD
  hd_at,     \* where TaskHD is
  frames,    \* the calls of hd_rw, the running one first
  scan,      \* init_partitions
  hd_call    \* the call that is served or was served last

hvars == <<hd_info, hd_buf, platter, ata, hd_int, hd_at, frames, scan, hd_call>>

NoPart == [fsid |-> HD_PART_TYPE_NONE, base |-> 0, size |-> 0]
NoScan == [table |-> << >>, i |-> 0, ext |-> 0, j |-> 0, sect |-> 0]
NoCall == [op |-> "none", t |-> [part |-> 0, lba |-> 0, count |-> 0], before |-> << >>, out |-> << >>]

\* init_hd; byte i of sector s is <<s, i>> until it is written.
HDInit ==
  /\ hd_info = [open_cnt |-> 0, primary |-> [p \in 0..PART_PER_DRIVE |-> NoPart],
                logical |-> [p \in Subs |-> NoPart]]
  /\ hd_buf = [i \in 1..SECTOR_SIZE |-> <<0, 0>>]
  /\ platter = [s \in 0..(Capacity - 1) |-> [i \in 1..SECTOR_SIZE |-> <<s, i>>]]
  /\ ata = [cmd |-> "none", lba |-> 0, left |-> 0, busy |-> FALSE, drq |-> FALSE, data |-> << >>]
  /\ hd_int = FALSE /\ hd_at = "idle"
  /\ frames = << >> /\ scan = NoScan /\ hd_call = NoCall

-----------------------------------------------------------------------------
(* The drive *)

\* The next sector is in its buffer, for IDENTIFY the drive's own description.
OfferSector ==
  /\ ata.busy /\ ata.cmd \in {"READ", "IDENTIFY"}
  /\ ata' = [ata EXCEPT !.busy = FALSE, !.drq = TRUE,
               !.data = IF ata.cmd = "READ" THEN platter[ata.lba] ELSE [i \in 1..SECTOR_SIZE |-> <<-1, i>>]]
  /\ hd_int' = TRUE
  /\ UNCHANGED <<hd_info, hd_buf, platter, hd_at, frames, scan, hd_call>>

\* It is ready for the first sector: no interrupt.
AskForSector ==
  /\ ata.busy /\ ata.cmd = "WRITE" /\ ata.data = << >>
  /\ ata' = [ata EXCEPT !.busy = FALSE, !.drq = TRUE]
  /\ UNCHANGED <<hd_info, hd_buf, platter, hd_int, hd_at, frames, scan, hd_call>>

StoreSector ==
  /\ ata.busy /\ ata.cmd = "WRITE" /\ ata.data # << >>
  /\ platter' = [platter EXCEPT ![ata.lba] = ata.data]
  /\ ata' = [ata EXCEPT !.busy = FALSE, !.drq = ata.left > 1, !.data = << >>,
               !.lba = @ + 1, !.left = @ - 1]
  /\ hd_int' = TRUE
  /\ UNCHANGED <<hd_info, hd_buf, hd_at, frames, scan, hd_call>>

\* HD_make_command and HD_send_command, which polls until the drive is not busy
Command(cmd, lba, count) ==
  /\ ~ata.busy
  /\ ata' = [cmd |-> cmd, lba |-> lba, left |-> IF count % Counts = 0 THEN Counts ELSE count % Counts,
             busy |-> TRUE, drq |-> FALSE, data |-> << >>]

\* insl of a whole sector
Insl ==
  /\ hd_buf' = ata.data
  /\ ata' = [ata EXCEPT !.drq = FALSE, !.busy = ata.left > 1, !.lba = @ + 1, !.left = @ - 1]

-----------------------------------------------------------------------------
(* hd_rw *)

Frame(RW, lba, count, buf) == [RW |-> RW, lba |-> lba, count |-> count, left |-> count, buf |-> buf]

\* A write that ends inside a sector reads that sector first (mutants: the one
\* behind it, or none).
TailBehind(lba, count) == <<Frame("READ", lba + Sectors(count), SECTOR_SIZE, << >>)>>
ReadTail(lba, count) == <<Frame("READ", lba + Sectors(count) - 1, SECTOR_SIZE, << >>)>>

hd_rw(RW, lba, count, buf) ==
  /\ frames' = (IF RW = "WRITE" /\ count % SECTOR_SIZE # 0 THEN ReadTail(lba, count) ELSE << >>)
                 \o <<Frame(RW, lba, count, buf)>>
  /\ hd_at' = "command"

Top == frames[1]
Least(a, b) == IF a < b THEN a ELSE b
Piece == Least(SECTOR_SIZE, Top.left)

StartTransfer ==
  /\ hd_at = "command" /\ hd_at' = "transfer"
  /\ Command(Top.RW, Top.lba, Sectors(Top.count))
  /\ UNCHANGED <<hd_info, hd_buf, platter, hd_int, frames, scan, hd_call>>

ReadSector ==
  /\ hd_at = "transfer" /\ Top.RW = "READ" /\ Top.left > 0
  /\ hd_int /\ hd_int' = FALSE
  /\ Insl
  /\ frames' = [frames EXCEPT ![1].buf = @ \o SubSeq(ata.data, 1, Piece), ![1].left = @ - Piece]
  /\ UNCHANGED <<hd_info, platter, hd_at, scan, hd_call>>

\* The last piece of a sector is put over what hd_buf holds of it.
WriteSector ==
  LET bytes == SubSeq(Top.buf, Top.count - Top.left + 1, Top.count - Top.left + Piece)
      full  == bytes \o SubSeq(hd_buf, Piece + 1, SECTOR_SIZE)
  IN
  /\ hd_at = "transfer" /\ Top.RW = "WRITE" /\ Top.left > 0
  /\ ata.drq
  /\ hd_buf' = IF Piece = SECTOR_SIZE THEN hd_buf ELSE full
  /\ ata' = [ata EXCEPT !.busy = TRUE, !.drq = FALSE, !.data = full]
  /\ hd_at' = "written"
  /\ UNCHANGED <<hd_info, platter, hd_int, frames, scan, hd_call>>

SectorWritten ==
  /\ hd_at = "written" /\ hd_at' = "transfer"
  /\ hd_int /\ hd_int' = FALSE
  /\ frames' = [frames EXCEPT ![1].left = @ - Piece]
  /\ UNCHANGED <<hd_info, hd_buf, platter, ata, scan, hd_call>>

\* hd_rw returns to the write it was called for, to part_table_read, which takes
\* the table out of the sector, or to the caller.
EndTransfer ==
  /\ hd_at = "transfer" /\ Top.left = 0
  /\ frames' = Tail(frames)
  /\ IF Len(frames) > 1 THEN hd_at' = "command" /\ UNCHANGED <<scan, hd_call>>
     ELSE IF hd_call.op = "open"
     THEN /\ hd_at' = "scan" /\ UNCHANGED hd_call
          /\ scan' = [scan EXCEPT !.table = Append(@, Tables[Top.buf[1][1]])]
     ELSE hd_at' = "idle" /\ hd_call' = [hd_call EXCEPT !.out = Top.buf] /\ UNCHANGED scan
  /\ UNCHANGED <<hd_info, hd_buf, platter, ata, hd_int>>

-----------------------------------------------------------------------------
(* hd_open, hd_close *)

HDOpen ==
  /\ hd_at = "idle" /\ hd_info.open_cnt < MaxOpens
  /\ Command("IDENTIFY", 0, 0)
  /\ hd_at' = "identify" /\ hd_call' = [NoCall EXCEPT !.op = "open"]
  /\ UNCHANGED <<hd_info, hd_buf, platter, hd_int, frames, scan>>

\* hd_identify gets its answer; the first open reads the partition tables.
Identified ==
  /\ hd_at = "identify"
  /\ hd_int /\ hd_int' = FALSE
  /\ hd_buf' = ata.data /\ ata' = [ata EXCEPT !.drq = FALSE]
  /\ hd_info' = [hd_info EXCEPT !.primary[0] = [NoPart EXCEPT !.size = Capacity], !.open_cnt = @ + 1]
  /\ IF hd_info.open_cnt = 0 THEN scan' = NoScan /\ hd_rw("READ", 0, SECTOR_SIZE, << >>)
     ELSE hd_at' = "idle" /\ UNCHANGED <<scan, frames>>
  /\ UNCHANGED <<platter, hd_call>>

\* init_partitions of the primary table, one entry
PrimaryEntry ==
  LET e == scan.table[1][scan.i + 1] IN
  /\ hd_at = "scan" /\ scan.ext = 0 /\ scan.i < PART_PER_DRIVE
  /\ IF e.fsid = HD_PART_TYPE_NONE THEN UNCHANGED hd_info
     ELSE hd_info' = [hd_info EXCEPT !.primary[scan.i + 1] = [fsid |-> e.fsid, base |-> e.lba_begin, size |-> e.size]]
  /\ IF e.fsid = HD_PART_TYPE_EXTEND
     THEN /\ scan' = [scan EXCEPT !.ext = scan.i + 1, !.j = 0, !.sect = e.lba_begin]
          /\ hd_rw("READ", e.lba_begin, SECTOR_SIZE, << >>)
     ELSE scan' = [scan EXCEPT !.i = @ + 1] /\ UNCHANGED <<frames, hd_at>>
  /\ UNCHANGED <<hd_buf, platter, ata, hd_int, hd_call>>

\* The next table of an extended partition (mutant: relative to this one).
NextFromHere(ext_base, sect, link) == sect + link.lba_begin
NextTable(ext_base, sect, link) == ext_base + link.lba_begin

\* ... and of an extended partition: one table, with a partition and a link
LogicalEntry ==
  LET table == scan.table[2]
      e     == table[1]
      next  == NextTable(hd_info.primary[scan.ext].base, scan.sect, table[2])
  IN
  /\ hd_at = "scan" /\ scan.ext # 0
  /\ hd_info' = [hd_info EXCEPT !.logical[(scan.ext - 1) * SUB_PER_PART + scan.j] =
                   [fsid |-> e.fsid, base |-> scan.sect + e.lba_begin, size |-> e.size]]
  /\ IF table[2].fsid = HD_PART_TYPE_NONE \/ scan.j + 1 = SUB_PER_PART
     THEN scan' = [scan EXCEPT !.table = <<@[1]>>, !.ext = 0, !.i = @ + 1] /\ UNCHANGED <<frames, hd_at>>
     ELSE /\ scan' = [scan EXCEPT !.table = <<@[1]>>, !.j = @ + 1, !.sect = next]
          /\ hd_rw("READ", next, SECTOR_SIZE, << >>)
  /\ UNCHANGED <<hd_buf, platter, ata, hd_int, hd_call>>

ScanEnds ==
  /\ hd_at = "scan" /\ scan.ext = 0 /\ scan.i = PART_PER_DRIVE
  /\ hd_at' = "idle" /\ scan' = NoScan
  /\ UNCHANGED <<hd_info, hd_buf, platter, ata, hd_int, frames, hd_call>>

\* By one who has opened it
HDClose ==
  /\ hd_at = "idle" /\ hd_info.open_cnt > 0
  /\ hd_info' = [hd_info EXCEPT !.open_cnt = @ - 1]
  /\ hd_call' = NoCall
  /\ UNCHANGED <<hd_buf, platter, ata, hd_int, hd_at, frames, scan>>

-----------------------------------------------------------------------------
(* hd_rw_drv *)

\* Number 5 is taken from behind the five primary entries, which is logical[0].
PartInfo(no) ==
  IF no < PRIM_PER_DRIVE THEN hd_info.primary[no] ELSE hd_info.logical[no - PRIM_PER_DRIVE]

Written(count) == [i \in 1..count |-> <<-2, i>>]

HDTransfer(RW, t) ==
  /\ hd_at = "idle" /\ hd_info.open_cnt > 0
  /\ hd_call' = [op |-> RW, t |-> t, before |-> platter, out |-> << >>]
  /\ hd_rw(RW, PartInfo(t.part).base + t.lba, t.count, IF RW = "WRITE" THEN Written(t.count) ELSE << >>)
  /\ UNCHANGED <<hd_info, hd_buf, platter, ata, hd_int, scan>>

HDNext ==
  \/ OfferSector \/ AskForSector \/ StoreSector
  \/ StartTransfer \/ ReadSector \/ WriteSector \/ SectorWritten \/ EndTransfer
  \/ HDOpen \/ Identified \/ PrimaryEntry \/ LogicalEntry \/ ScanEnds \/ HDClose
  \/ \E RW \in {"READ", "WRITE"}, t \in Transfers : HDTransfer(RW, t)

HDSpec == HDInit /\ [][HDNext]_hvars

-----------------------------------------------------------------------------
(* Properties *)

\* The partitions by the tables alone: each link counts from the start of the
\* extended partition, each logical partition from its own table.
LogicalChain(ext) ==
  LET from[s \in DOMAIN Tables] ==
        LET e == Tables[s][1] IN
        <<[fsid |-> e.fsid, base |-> s + e.lba_begin, size |-> e.size]>>
          \o (IF Tables[s][2].fsid = HD_PART_TYPE_NONE THEN << >> ELSE from[ext + Tables[s][2].lba_begin])
  IN from[ext]
Primary(p) ==
  LET e == Tables[0][p] IN
  IF e.fsid = HD_PART_TYPE_NONE THEN NoPart ELSE [fsid |-> e.fsid, base |-> e.lba_begin, size |-> e.size]
Logical(l) ==
  LET e     == Tables[0][1 + (l \div SUB_PER_PART)]
      chain == IF e.fsid = HD_PART_TYPE_EXTEND THEN LogicalChain(e.lba_begin) ELSE << >>
      j     == 1 + (l % SUB_PER_PART)
  IN IF j <= Len(chain) THEN chain[j] ELSE NoPart

\* While the drive is open hd_info lists every partition of the disk where its
\* number says, the logical ones along the whole chain of tables.
PartitionsFound ==
  hd_at = "idle" /\ hd_info.open_cnt > 0 =>
    /\ \A p \in 1..PART_PER_DRIVE : hd_info.primary[p] = Primary(p)
    /\ \A l \in Subs : hd_info.logical[l] = Logical(l)

\* A read returns the bytes that are on the disk, a write changes exactly the
\* bytes it is told to: what follows them in the last sector stays.  Every sector
\* is waited for, and no interrupt is left for the next command.
TransferExact ==
  LET t     == hd_call.t
      base  == IF t.part = 0 THEN 0 ELSE IF t.part < PRIM_PER_DRIVE THEN Primary(t.part).base
               ELSE Logical(t.part - PRIM_PER_DRIVE).base
      first == (base + t.lba) * SECTOR_SIZE
      at(s, i) == s * SECTOR_SIZE + i - first
  IN
  hd_at = "idle" =>
    /\ ~hd_int /\ ~ata.busy /\ ~ata.drq
    /\ hd_call.op = "READ" =>
         /\ platter = hd_call.before
         /\ hd_call.out = [n \in 1..t.count |-> platter[base + t.lba + ((n - 1) \div SECTOR_SIZE)][1 + ((n - 1) % SECTOR_SIZE)]]
    /\ hd_call.op = "WRITE" =>
         \A s \in DOMAIN platter, i \in 1..SECTOR_SIZE :
           platter[s][i] = IF at(s, i) \in 1..t.count THEN Written(t.count)[at(s, i)] ELSE hd_call.before[s][i]
\* The drive is what its callers take it for: partitions by number, bytes by place.
DiskExact == PartitionsFound /\ TransferExact
=============================================================================
