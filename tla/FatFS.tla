------------------------------- MODULE FatFS -------------------------------
(***************************************************************************)
(* TaskFS of OmochaOS (modules/fs/fs.c): a read-only FAT32 file system.    *)
(* TaskFS mounts the partition, then serves one request at a time, looking *)
(* a file up by its path or reading a piece of it.  Each step ends with    *)
(* the next HD_drv_read.                                                   *)
(*                                                                         *)
(* The disk is external: a byte of it is <<sector, offset>>, so that what  *)
(* was read shows from where.  A directory entry has its 11 characters as  *)
(* name, without the padding, and as full the name the file was given.     *)
(***************************************************************************)
EXTENDS Integers, SequencesExt

CONSTANTS
  SectorSize,  \* 512
  PerFat,      \* entries of a FAT sector, 128
  Boot,        \* BPB: SecPerClus, RsvdSecCnt, NumFATs, FATSz32, RootClus
  Fat,         \* the next cluster of each cluster in use, End after the last
  Dirs,        \* the entries of each directory cluster, sector by sector
  Upper,       \* char_upper: the capital of each small letter
  Paths,       \* the paths that are looked up, as sequences of components
  Reads        \* the reads: offset and size

End == 1000    \* 0x0FFFFFF8 and up
BytesPerClus == SectorSize * Boot.SecPerClus

\* A file as FS_GET_FILE_INFO fills it in, and an entry of a directory.
Files == {e \in UNION {{Dirs[c][i][j] : j \in DOMAIN Dirs[c][i]} : c \in DOMAIN Dirs, i \in 1..Boot.SecPerClus} :
            e.attr = "file"}

ASSUME FatAssumption ==
  /\ SectorSize \in Nat \ {0} /\ PerFat \in Nat \ {0}
  /\ Boot.SecPerClus \in Nat \ {0} /\ Boot.RootClus \in DOMAIN Dirs
  /\ \A c \in DOMAIN Dirs : Len(Dirs[c]) = Boot.SecPerClus
  /\ \A c \in DOMAIN Fat : Fat[c] \in DOMAIN Fat \cup {End}
  /\ \A r \in Reads : r.offset \in Nat /\ r.size \in Nat

VARIABLES
  fs,        \* struct FAT32_FileSystem
  doing,     \* where TaskFS is; "wild" behind the end of a path
  req,       \* the request
  rest,      \* get_file_info: fn, the characters of the path from here on
  clus,      \* the cluster that is read
  place,     \* the sector of the directory cluster, or p of read_file
  p_clus,    \* read_file: the place in the cluster
  r_size,    \* read_file: what is left
  out,       \* the buffer of the caller
  result     \* the answer

walk == <<rest, clus, place, p_clus, r_size>>
fvars == <<fs, doing, req, walk, out, result>>

NoName == [base |-> << >>, ext |-> << >>]
NoFile == [name |-> NoName, full |-> << >>, attr |-> "none", clus |-> 0, size |-> 0]
Idle   == [op |-> "none", path |-> << >>, slash |-> FALSE, file |-> NoFile, offset |-> 0, size |-> 0]

NoResult == [status |-> 0, file |-> NoFile]

FatInit ==
  /\ fs = [SecPerClus |-> 0, RootClus |-> 0, FirstDataClus |-> 0, FATstartSct |-> 0]
  /\ doing = "boot" /\ req = Idle
  /\ rest = << >> /\ clus = 0 /\ place = 0 /\ p_clus = 0 /\ r_size = 0
  /\ out = << >> /\ result = NoResult


-----------------------------------------------------------------------------
(* The disk *)

\* HD_drv_read of n bytes from the start of a sector
HDRead(sector, n) == [i \in 1..n |-> <<sector + ((i - 1) \div SectorSize), (i - 1) % SectorSize>>]

\* Where the format puts cluster c: clusters start with number 2.
DataStart  == Boot.RsvdSecCnt + Boot.NumFATs * Boot.FATSz32
ClusOf(s)  == 2 + ((s - DataStart) \div Boot.SecPerClus)
Entries(s) == Dirs[ClusOf(s)][1 + ((s - DataStart) % Boot.SecPerClus)]

-----------------------------------------------------------------------------
(* Mounting *)

ReadBootSector ==
  /\ doing = "boot" /\ doing' = "info"
  /\ fs' = [SecPerClus |-> Boot.SecPerClus, RootClus |-> Boot.RootClus,
            FirstDataClus |-> Boot.RsvdSecCnt + Boot.FATSz32 * Boot.NumFATs,
            FATstartSct |-> Boot.RsvdSecCnt]
  /\ UNCHANGED <<req, walk, out, result>>

\* The counts of free clusters, which nothing uses
ReadFSInfo ==
  /\ doing = "info" /\ doing' = "idle"
  /\ UNCHANGED <<fs, req, walk, out, result>>

CLUS2SECTOR(c) == fs.FirstDataClus + (c - fs.RootClus) * fs.SecPerClus

\* get_next_clus_in_FAT: entry c of the table, by its sector
NextInFAT(c) == Fat[(fs.FATstartSct + (c \div PerFat) - Boot.RsvdSecCnt) * PerFat + (c % PerFat)]

Finish(status, file) == doing' = "done" /\ result' = [status |-> status, file |-> file]

-----------------------------------------------------------------------------
(* FS_GET_FILE_INFO *)

\* write_8_3_filename: the last dot starts the extension, of three characters; more
\* than eight before it become six and ~1, always 1.
Capitals(chars) == [i \in DOMAIN chars |-> IF chars[i] \in DOMAIN Upper THEN Upper[chars[i]] ELSE chars[i]]
write_8_3_filename(fname) ==
  LET dots == {i \in DOMAIN fname : fname[i] = "."}
      dot  == IF dots = {} THEN Len(fname) + 1 ELSE Max(dots)
      base == SubSeq(fname, 1, dot - 1)
  IN [base |-> Capitals(IF Len(base) > 8 THEN SubSeq(base, 1, 6) \o <<"~", "1">> ELSE base),
      ext  |-> Capitals(SubSeq(fname, dot + 1, Min({dot + 3, Len(fname)})))]

\* A path that ends with '/' is refused.
PathText(path, slash) == FlattenSeq([i \in DOMAIN path |-> <<"/">> \o path[i]]) \o (IF slash THEN <<"/">> ELSE << >>)
GetFileInfo(path, slash) ==
  /\ doing \in {"idle", "done"}
  /\ req' = [Idle EXCEPT !.op = "lookup", !.path = path, !.slash = slash]
  /\ rest' = PathText(path, slash) /\ clus' = fs.RootClus /\ place' = 0 /\ out' = << >>
  /\ IF slash THEN Finish(2, NoFile) ELSE doing' = "dir" /\ result' = NoResult
  /\ UNCHANGED <<fs, p_clus, r_size>>

\* p: the first of fn[1..11] that ends the component, else 12.  A component of more
\* characters is cut there, and what is left of it taken for the next one.  The
\* path ends within fn[1..11], or what is looked up counts as a directory.
Stops   == {i \in 1..11 : i >= Len(rest) \/ rest[i + 1] = "/"}
Cut     == Min(Stops \cup {12})
Name    == SubSeq(rest, 2, Cut)
is_file == Cut < 12 /\ Cut = Len(rest)

\* The entries of a sector that the scan sees: up to the first that was never
\* used, without deleted ones, long names and the two that start with a dot
\* (mutant: it goes on after the end).
SeenAll(entries) == {i \in DOMAIN entries : entries[i].attr \in {"file", "dir"}}
Seen(entries) ==
  {i \in DOMAIN entries : /\ entries[i].attr \in {"file", "dir"}
                          /\ \A j \in 1..i : entries[j].attr # "end"}

\* One sector of the directory: the first entry with the name ends the search or
\* leads into the next directory.  When the last component has 11 characters and
\* is a directory, get_file_info goes on behind the end of the path.
ReadDir ==
  LET entries == Entries(CLUS2SECTOR(clus) + place)
      hits    == {i \in Seen(entries) : entries[i].name = write_8_3_filename(Name)}
      hit     == entries[Min(hits)]
  IN
  /\ doing = "dir"
  /\ IF hits = {}
     THEN /\ IF place + 1 < fs.SecPerClus THEN place' = place + 1 /\ UNCHANGED doing
             ELSE doing' = "dirnext" /\ UNCHANGED place
          /\ UNCHANGED <<rest, clus, result>>
     ELSE IF (hit.attr = "dir") = is_file THEN Finish(3, NoFile) /\ UNCHANGED <<rest, clus, place>>
     ELSE IF is_file THEN Finish(0, hit) /\ UNCHANGED <<rest, clus, place>>
     ELSE /\ rest' = SubSeq(rest, Cut + 1, Len(rest))
          /\ clus' = hit.clus /\ place' = 0
          /\ IF rest' = << >> THEN doing' = "wild" ELSE UNCHANGED doing
          /\ UNCHANGED result
  /\ UNCHANGED <<fs, req, p_clus, r_size, out>>

\* ... or the search goes on in the next cluster.
DirNext ==
  /\ doing = "dirnext"
  /\ clus' = NextInFAT(clus) /\ place' = 0
  /\ IF clus' = End THEN Finish(1, NoFile) ELSE doing' = "dir" /\ UNCHANGED result
  /\ UNCHANGED <<fs, req, rest, p_clus, r_size, out>>

-----------------------------------------------------------------------------
(* FS_READ_FILE *)

\* read_file, with the file that was looked up
StartRead(file, offset, size) ==
  LET n == IF offset + size > file.size THEN file.size - offset ELSE size IN
  /\ doing \in {"idle", "done"} /\ offset <= file.size
  /\ req' = [Idle EXCEPT !.op = "read", !.file = file, !.offset = offset, !.size = n]
  /\ doing' = "chain" /\ clus' = file.clus /\ place' = BytesPerClus
  /\ p_clus' = 0 /\ r_size' = n /\ out' = << >>
  /\ result' = NoResult /\ UNCHANGED <<fs, rest>>

\* The cluster of the offset is found along the chain (mutant: one too few).
ChainShort ==
  /\ doing = "chain"
  /\ IF place < req.offset
     THEN clus' = NextInFAT(clus) /\ place' = place + BytesPerClus /\ UNCHANGED <<doing, p_clus>>
     ELSE p_clus' = req.offset % BytesPerClus /\ doing' = "first" /\ UNCHANGED <<clus, place>>
  /\ UNCHANGED <<fs, req, rest, r_size, out, result>>
Chain ==
  /\ doing = "chain"
  /\ IF place <= req.offset
     THEN clus' = NextInFAT(clus) /\ place' = place + BytesPerClus /\ UNCHANGED <<doing, p_clus>>
     ELSE p_clus' = req.offset % BytesPerClus /\ doing' = "first" /\ UNCHANGED <<clus, place>>
  /\ UNCHANGED <<fs, req, rest, r_size, out, result>>

\* The rest of a sector in which the offset is: of the first of its cluster.
FirstPart ==
  LET part == p_clus % SectorSize
      n    == IF part = 0 THEN 0 ELSE Min({SectorSize - part, r_size})
  IN
  /\ doing = "first" /\ doing' = "body"
  /\ out' = IF part = 0 THEN out ELSE SubSeq(HDRead(CLUS2SECTOR(clus), SectorSize), part + 1, part + n)
  /\ p_clus' = p_clus + n /\ r_size' = r_size - n
  /\ UNCHANGED <<fs, req, rest, clus, place, result>>

\* At the end of a cluster the next one is looked up.
NextCluster ==
  /\ doing = "body" /\ r_size > 0 /\ p_clus = BytesPerClus
  /\ clus' = NextInFAT(clus) /\ p_clus' = 0
  /\ UNCHANGED <<fs, doing, req, rest, place, r_size, out, result>>

\* Whole sectors, then what is left.
BodyPart ==
  LET n == Min({SectorSize, r_size}) IN
  /\ doing = "body" /\ r_size > 0 /\ p_clus < BytesPerClus
  /\ out' = out \o HDRead(CLUS2SECTOR(clus) + (p_clus \div SectorSize), n)
  /\ r_size' = r_size - n
  /\ p_clus' = p_clus + SectorSize
  /\ UNCHANGED <<fs, doing, req, rest, clus, place, result>>

ReadEnds ==
  /\ doing = "body" /\ r_size = 0
  /\ Finish(req.size, NoFile)
  /\ UNCHANGED <<fs, req, walk, out>>

FatNext ==
  \/ ReadBootSector \/ ReadFSInfo \/ ReadDir \/ DirNext
  \/ Chain \/ FirstPart \/ NextCluster \/ BodyPart \/ ReadEnds
  \/ \E path \in Paths, slash \in BOOLEAN : GetFileInfo(path, slash)
  \/ \E file \in Files, r \in Reads : StartRead(file, r.offset, r.size)

FatSpec == FatInit /\ [][FatNext]_fvars

-----------------------------------------------------------------------------
(* Properties *)

\* The clusters of a file or directory in order, by the table alone.
Chained[c \in DOMAIN Fat \cup {End}] == IF c = End THEN << >> ELSE <<c>> \o Chained[Fat[c]]

\* Byte k of a file that starts with cluster c, where the format puts it.
ByteAt(c, k) ==
  LET cluster == Chained[c][(k \div BytesPerClus) + 1]
      at      == k % BytesPerClus
  IN <<DataStart + (cluster - 2) * Boot.SecPerClus + (at \div SectorSize), at % SectorSize>>

\* read_file returns the bytes of the file that were asked for, across sectors and
\* clusters that lie anywhere, and as many as it says.  An offset inside a sector
\* that is not the first of its cluster is left out: there it reads the first.
ReadsTheFile ==
  doing = "done" /\ req.op = "read" /\ (req.offset % SectorSize = 0 \/ req.offset % BytesPerClus < SectorSize) =>
    /\ result.status = Len(out)
    /\ out = [i \in 1..req.size |-> ByteAt(req.file.clus, req.offset + i - 1)]

\* The visible entries of a directory, and what a path leads to in the tree.
Listing(c) ==
  UNION {{Dirs[d][i][j] : j \in {k \in DOMAIN Dirs[d][i] : Dirs[d][i][k].attr \in {"file", "dir"}
                                   /\ \A l \in 1..k : Dirs[d][i][l].attr # "end"}} :
           d \in {Chained[c][n] : n \in DOMAIN Chained[c]}, i \in 1..Boot.SecPerClus}
Leads(c, path) == {e \in Listing(c) : Capitals(e.full) = Capitals(path[1])}
Target(path) ==
  IF Len(path) = 1 THEN Leads(Boot.RootClus, path)
  ELSE UNION {Leads(d.clus, Tail(path)) : d \in {e \in Leads(Boot.RootClus, path) : e.attr = "dir"}}

\* What get_file_info can tell apart: a component of at most ten characters, to which
\* it does not give the short name of another one.  All long names end in ~1.
Clear(chars) ==
  /\ Len(chars) <= 10
  /\ \A c \in DOMAIN Dirs : \A e \in Listing(c) :
       e.name = write_8_3_filename(chars) => Capitals(e.full) = Capitals(chars)

\* get_file_info finds a file exactly if the path leads to one by the names that
\* were given, in any sector or cluster of its directory and whatever the case, and
\* gives the first cluster and the size of that one.  This is for paths whose
\* components are Clear: one of eleven characters or more is cut, so that the file
\* is not found, or another one is.
FindsTheFile ==
  doing = "done" /\ req.op = "lookup" /\ ~req.slash /\ (\A i \in DOMAIN req.path : Clear(req.path[i])) =>
    LET files == {e \in Target(req.path) : e.attr = "file"} IN
    /\ result.status = 0 <=> files # {}
    /\ result.status = 0 => result.file \in files
=============================================================================
