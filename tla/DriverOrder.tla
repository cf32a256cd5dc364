---------------------------- MODULE DriverOrder ----------------------------
(***************************************************************************)
(* core_init_driver of OmochaOS (core/driver.c): the drivers, in the order *)
(* of the link, are sorted by level into a list that is built at its end,  *)
(* and the init function of each is called in that order, which the later  *)
(* drivers rely on: kprintf needs the graphic driver, APIC and HPET the    *)
(* tables that ACPI has found.                                             *)
(***************************************************************************)
EXTENDS Integers, SequencesExt

CONSTANTS
  DriverCount,  \* the declarations of the section, in the order of the link
  Level         \* the levels; one below 0 means that the driver is not loaded

Declaration == 1..DriverCount

ASSUME OrderAssumption == DriverCount \in Nat \ {0, 1} /\ Level \subseteq Int

VARIABLES
  level,        \* of each driver
  unsorted,     \* the declarations that have not been sorted in
  drivers,      \* the sorted list
  next,         \* how many of the list have been initialised or skipped
  started,      \* the drivers whose init has been called, in order
  initialized   \* those whose init has succeeded

ovars == <<level, unsorted, drivers, next, started, initialized>>

\* core_main chains the declarations of the section; the first two, 8253.c and
\* 8259A.c, are among the drivers that are not loaded.
OrderInit ==
  /\ level \in {l \in [Declaration -> Level] : \A i \in {1, 2}, d \in Declaration : l[i] <= l[d]}
  /\ unsorted = [i \in Declaration |-> i]
  /\ drivers = << >> /\ next = 0 /\ started = << >> /\ initialized = {}

\* The element that a driver goes behind, when not at the end: the head is not
\* looked at, so that what belongs behind it would come before it (mutant: the
\* search starts at the front).
BehindFirst(d) == {i \in 2..Len(drivers) : /\ level[drivers[i]] <= level[d]
                                           /\ \A j \in 2..(i - 1) : level[drivers[j]] > level[d]}
Behind(d) == {i \in 2..Len(drivers) : /\ level[drivers[i]] <= level[d]
                                      /\ \A j \in (i + 1)..Len(drivers) : level[drivers[j]] > level[d]}

\* One step of the sort: at the end, behind the last that is not higher, or in front.
SortIn ==
  /\ unsorted # << >>
  /\ unsorted' = Tail(unsorted)
  /\ LET d == Head(unsorted) IN
     drivers' = IF drivers = << >> \/ level[Last(drivers)] <= level[d] THEN Append(drivers, d)
                ELSE IF Behind(d) = {} THEN <<d>> \o drivers
                ELSE InsertAt(drivers, 1 + CHOOSE i \in Behind(d) : TRUE, d)
  /\ UNCHANGED <<level, next, started, initialized>>

\* init of the next driver, which may fail, unless its level is below 0.
StartNext ==
  /\ unsorted = << >> /\ next < Len(drivers)
  /\ next' = next + 1
  /\ LET d == drivers[next + 1] IN
     IF level[d] < 0 THEN UNCHANGED <<started, initialized>>
     ELSE /\ started' = Append(started, d)
          /\ initialized' \in {initialized, initialized \cup {d}}
  /\ UNCHANGED <<level, unsorted, drivers>>

OrderNext == SortIn \/ StartNext

OrderSpec == OrderInit /\ [][OrderNext]_ovars

\* Every driver that is to be loaded is started, once, "loading order is from 0 to
\* larger level" (driver.h), whether or not those before it have failed.
StartedInOrder ==
  /\ \A i, j \in DOMAIN started : i < j => started[i] # started[j] /\ level[started[i]] <= level[started[j]]
  /\ unsorted = << >> /\ next = Len(drivers) => ToSet(started) = {d \in Declaration : level[d] >= 0}
=============================================================================
