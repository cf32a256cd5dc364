---------------------------- MODULE MC_Devices -----------------------------
(* Instances of SysTask's process table and of the parts that serve devices:  *)
(* the loading of drivers, the keyboard, the screen, TaskDEV, TaskFS and the *)
(* disk, one at a time.                                                       *)
EXTENDS ProcTable, Keyboard, DevManager, FatFS, DriverOrder, Disk, Console

CONSTANT Parts

VARIABLE part

MCLevel    == {-1, 1, 2, 3}
MCPuts     == {{}, {3}}
MCRequests == {<<DEV_READ, 0>>, <<DEV_OPEN, 1>>}
MCNothing  == Mail(0, 0, 0, 0)

\* A disk of two FAT sectors: /a is scattered over three clusters; a file with a
\* name of nine letters, one with a name too long to be found and /b.ed lie in the
\* second cluster of the root, /c behind its end; /d is a directory with a b of its
\* own, and so is the one whose name has eleven characters.
MCUpper == [a |-> "A", b |-> "B", c |-> "C", d |-> "D", e |-> "E"]
Nine    == <<"a", "e", "a", "b", "b", "A", "c", "d", "c">>
SameSix == <<"a", "e", "a", "b", "b", "A", "d", "d", "d">>
Eleven  == <<"d", "e", "d", "e", "d", "e", "c", "c", "c", "c", "c">>
TooLong == <<"c", "d", "c", "d", "c", "d", "b", "b", "c", ".", "d", "b", "c", "e">>
Ent(base, ext, full, a, c, s) == [name |-> [base |-> base, ext |-> ext], full |-> full, attr |-> a, clus |-> c, size |-> s]
Plain(n, a, c, s) == Ent(<<n>>, << >>, <<n>>, a, c, s)
MCBoot == [SecPerClus |-> 2, RsvdSecCnt |-> 3, NumFATs |-> 2, FATSz32 |-> 3, RootClus |-> 2]
MCFat == [c \in 0..10 |-> CASE c = 2 -> 6 [] c = 4 -> 9 [] c = 9 -> 5 [] OTHER -> End]
MCDirs == [c \in {2, 6, 7} |->
  CASE c = 2 -> << <<Plain("", "long", 0, 0), Plain("A", "file", 4, 11)>>,
                   <<Plain("A", "free", 8, 2), Plain("D", "dir", 7, 0),
                     Ent(<<"D", "E", "D", "E", "D", "E", "~", "1">>, << >>, Eleven, "dir", 7, 0)>> >>
    [] c = 6 -> << <<Ent(<<"A", "E", "A", "B", "B", "A", "~", "1">>, << >>, Nine, "file", 0, 0),
                     Ent(<<"C", "D", "C", "D", "C", "D", "~", "1">>, <<"D", "B", "C">>, TooLong, "file", 8, 1),
                     Ent(<<"B">>, <<"E", "D">>, <<"b", ".", "e", "d">>, "file", 8, 3)>>,
                   <<Plain("", "end", 0, 0), Plain("C", "file", 8, 3)>> >>
    [] c = 7 -> << <<Plain(".", "dot", 7, 0), Plain("..", "dot", 0, 0)>>,
                   <<Plain("B", "file", 10, 4), Plain("", "end", 0, 0)>> >>]
MCPaths == {<< <<n>> >> : n \in DOMAIN MCUpper} \cup {<<n>> : n \in {Nine, SameSix, Eleven, TooLong}} \cup
  {<< <<"d">>, <<"b">> >>, << <<"d">>, <<"A">> >>, << <<"a">>, <<"b">> >>, << Eleven, <<"b">> >>,
   << <<"B", ".", "e", "D">> >>, << <<"d">>, <<"b", ".", "e", "d">> >>}
MCReads == [offset : 0..11, size : {1, 2, 3, 5, 8, 12}]

\* A primary partition and an extended one, with a chain of three tables, one short
\* of being cut off, then another primary one; sector 12 keeps an old table.
Row(f, b, n) == [fsid |-> f, lba_begin |-> b, size |-> n]
MCTables == [s \in {0, 4, 7, 9, 12} |->
  CASE s = 0 -> <<Row(0, 0, 0), Row(5, 4, 8), Row(12, 1, 3)>>
    [] s = 4 -> <<Row(6, 1, 2), Row(5, 3, 2), Row(0, 0, 0)>>
    [] s = 7 -> <<Row(6, 1, 1), Row(5, 5, 3), Row(0, 0, 0)>>
    [] s \in {9, 12} -> <<Row(6, 1, 2), Row(0, 0, 0), Row(0, 0, 0)>>]
MCTransfers == {[part |-> 3, lba |-> 0, count |-> 5], [part |-> 3, lba |-> 1, count |-> 4],
                [part |-> 7, lba |-> 0, count |-> 3], [part |-> 9, lba |-> 0, count |-> 1]}

MCInit ==
  /\ part \in Parts
  /\ TableInit /\ KbdInit /\ DevInit /\ FatInit /\ OrderInit /\ HDInit /\ ConsoleInit
  /\ part # "dev" => defers = {}
  /\ part # "order" => level = [d \in Declaration |-> 1]

MCNext ==
  /\ UNCHANGED part
  /\ \/ part = "table" /\ TableNext /\ UNCHANGED <<kbvars, dvars, fvars, ovars, hvars, cvars>>
     \/ part = "kbd" /\ KbdNext /\ UNCHANGED <<tvars, dvars, fvars, ovars, hvars, cvars>>
     \/ part = "dev" /\ DevNext /\ UNCHANGED <<tvars, kbvars, fvars, ovars, hvars, cvars>>
     \/ part = "fs" /\ FatNext /\ UNCHANGED <<tvars, kbvars, dvars, ovars, hvars, cvars>>
     \/ part = "order" /\ OrderNext /\ UNCHANGED <<tvars, kbvars, dvars, fvars, hvars, cvars>>
     \/ part = "disk" /\ HDNext /\ UNCHANGED <<tvars, kbvars, dvars, fvars, ovars, cvars>>
     \/ part = "screen" /\ ConsoleNext /\ UNCHANGED <<tvars, kbvars, dvars, fvars, ovars, hvars>>

MCVars == <<part, tvars, kbvars, dvars, fvars, ovars, hvars, cvars>>

MCSpec == MCInit /\ [][MCNext]_MCVars
MCFair == MCSpec /\ DevFairness
=============================================================================
