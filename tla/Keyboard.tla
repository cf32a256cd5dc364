------------------------------ MODULE Keyboard ------------------------------
(***************************************************************************)
(* The keyboard of OmochaOS: interrupt_kbd writes each byte of the         *)
(* controller into a circular buffer in ring 0, between any two            *)
(* instructions of TaskTTY, which reads keys from it with kbd_read         *)
(* (modules/tty/kbd.c, tty.c).                                             *)
(*                                                                         *)
(* The reader's `count--' is a load and a store: an interrupt between them *)
(* is forgotten in count, although its byte is in the buffer.              *)
(***************************************************************************)
EXTENDS Integers, Sequences

CONSTANTS
  Size,     \* CIRCULAR_BUFFER_SIZE
  Presses,  \* the keys that are pressed and released
  MaxMoves  \* bound on presses and releases

\* The scan codes of the keys: Pause has no break code, E0 codes come in pairs.
Make == [shift |-> <<"2A">>, a |-> <<"1E">>, ctrl_r |-> <<"E0", "1D">>,
         printscreen |-> <<"E0", "2A", "E0", "37">>, pause |-> <<"E1", "1D", "45", "E1", "9D", "C5">>]
Break == [shift |-> <<"AA">>, a |-> <<"9E">>, ctrl_r |-> <<"E0", "9D">>,
          printscreen |-> <<"E0", "B7", "E0", "AA">>, pause |-> << >>]

ASSUME KeyboardAssumption ==
  /\ Size \in Nat \ {0, 1} /\ MaxMoves \in Nat
  /\ Presses \subseteq DOMAIN Make

VARIABLES
  buf, wr, rd, count,  \* the circular buffer, its head, tail and count
  irq,       \* an interrupt message waits for TaskTTY
  stage,     \* where TaskTTY is: waiting, or in read_circular_buffer
  loaded,      \* the value of count that the reader has loaded
  got,       \* the bytes that this kbd_read has read
  mods,      \* the modifiers that TaskTTY takes for pressed
  shown,     \* the last letter read: the modifiers it came with, and its byte
  down,      \* the keys that are pressed
  coming,    \* bytes that the controller has not delivered yet
  sent,      \* every byte delivered, with the keys that were pressed then
  nread,     \* how many of them TaskTTY has read
  moves      \* presses and releases so far

ring == <<buf, wr, rd, count>>
task == <<stage, loaded, got, mods, shown>>
keys == <<down, coming, moves>>
kbvars == <<ring, irq, task, keys, sent, nread>>

KbdInit ==
  /\ buf = [i \in 0..(Size - 1) |-> "00"] /\ wr = 0 /\ rd = 0 /\ count = 0
  /\ irq = FALSE /\ stage = "recv" /\ loaded = 0 /\ got = << >>
  /\ mods = {} /\ shown = [flags |-> {}, at |-> 0]
  /\ down = {} /\ coming = << >> /\ sent = << >> /\ nread = 0 /\ moves = 0

Wrap(i) == IF i = Size THEN 0 ELSE i

-----------------------------------------------------------------------------
(* The keyboard *)

\* A key goes down or up.
Move(k) ==
  /\ moves < MaxMoves /\ coming = << >>
  /\ moves' = moves + 1
  /\ IF k \in down THEN down' = down \ {k} /\ coming' = Break[k]
     ELSE down' = down \cup {k} /\ coming' = Make[k]
  /\ UNCHANGED <<ring, irq, task, sent, nread>>

\* interrupt_kbd and write_circular_buffer; the keyboard is never a whole buffer
\* ahead of TaskTTY, so nothing is thrown away.
InterruptKbd ==
  /\ coming # << >> /\ Len(sent) - nread < Size
  /\ buf' = [buf EXCEPT ![wr] = Head(coming)]
  /\ wr' = Wrap(wr + 1)
  /\ count' = count + 1
  /\ irq' = TRUE
  /\ coming' = Tail(coming)
  /\ sent' = Append(sent, [code |-> Head(coming), down |-> down])
  /\ UNCHANGED <<rd, task, down, moves, nread>>

-----------------------------------------------------------------------------
(* TaskTTY *)

\* peek_circular_buffer(1): past the end of the buffer it reads other memory,
\* because it takes buf - tail for tail - buf.
Second == IF rd + 1 >= Size THEN {"1D", "00"} ELSE {buf[rd + 1]}

\* kbd_code_end: is the first key in the buffer complete?
CodeEnd(second) ==
  /\ count # 0
  /\ \/ buf[rd] \notin {"E0", "E1"}
     \/ buf[rd] = "E0" /\ count >= 2
     \/ buf[rd] = "E1" /\ second = "1D" /\ count >= 6

\* An interrupt message: at most one key is read for it, however many came.
Recv ==
  /\ stage = "recv" /\ irq
  /\ irq' = FALSE
  /\ \E second \in Second : stage' = IF CodeEnd(second) THEN "take" ELSE "recv"
  /\ got' = << >>
  /\ UNCHANGED <<ring, loaded, mods, shown, keys, sent, nread>>

\* Mutant: the reader never uses the last place.
TakeByteWrapsEarly ==
  /\ stage = "take" /\ count > 0
  /\ got' = Append(got, buf[rd])
  /\ rd' = IF rd + 1 >= Size - 1 THEN 0 ELSE rd + 1
  /\ nread' = nread + 1
  /\ stage' = "load"
  /\ UNCHANGED <<buf, wr, count, irq, loaded, mods, shown, keys, sent>>

\* read_circular_buffer waits for a byte, takes it and moves the tail ...
TakeByte ==
  /\ stage = "take" /\ count > 0
  /\ got' = Append(got, buf[rd])
  /\ rd' = Wrap(rd + 1)
  /\ nread' = nread + 1
  /\ stage' = "load"
  /\ UNCHANGED <<buf, wr, count, irq, loaded, mods, shown, keys, sent>>
\* ... loads count ...
LoadCount ==
  /\ stage = "load" /\ stage' = "store"
  /\ loaded' = count
  /\ UNCHANGED <<ring, irq, got, mods, shown, keys, sent, nread>>

PauseCode == <<"E1", "1D", "45", "E1", "9D", "C5">>

\* Has kbd_read read all that it wants?  After E1 it compares the bytes that
\* follow with the whole code of Pause, E1 included.
Whole(g) ==
  CASE g[1] = "E1" -> \E i \in 1..(Len(g) - 1) : g[i + 1] # PauseCode[i] \/ i = 6
    [] g[1] = "E0" ->
         CASE Len(g) = 1 -> FALSE
           [] Len(g) = 2 -> g[2] \notin {"2A", "B7"}
           [] Len(g) = 3 -> g[3] # "E0"
           [] OTHER -> TRUE
    [] OTHER -> TRUE

\* Mutant: E0 codes are read for the codes without it.
ModifiedIgnoresE0(g) ==
  LET b == g[Len(g)] IN
  CASE b = "2A" -> mods \cup {"shift_l"}
    [] b = "AA" -> mods \ {"shift_l"}
    [] OTHER -> mods

\* What a complete key does to the modifiers.
Modified(g) ==
  CASE g = <<"2A">> -> mods \cup {"shift_l"}
    [] g = <<"AA">> -> mods \ {"shift_l"}
    [] g = <<"E0", "1D">> -> mods \cup {"ctrl_r"}
    [] g = <<"E0", "9D">> -> mods \ {"ctrl_r"}
    [] OTHER -> mods

\* ... and stores it less one; then kbd_read goes on, or ends with a key.
StoreCount ==
  /\ stage = "store"
  /\ count' = loaded - 1
  /\ IF ~Whole(got) THEN stage' = "take" /\ UNCHANGED <<mods, shown>>
     ELSE /\ stage' = "recv"
          /\ mods' = Modified(got)
          /\ shown' = IF got = <<"1E">> THEN [flags |-> mods, at |-> nread] ELSE shown
  /\ UNCHANGED <<buf, wr, rd, irq, loaded, got, keys, sent, nread>>

TTYNext == Recv \/ TakeByte \/ LoadCount \/ StoreCount

KbdNext == InterruptKbd \/ TTYNext \/ \E k \in Presses : Move(k)

KbdSpec == KbdInit /\ [][KbdNext]_kbvars

-----------------------------------------------------------------------------
(* Properties *)

\* The bytes of the keyboard reach kbd_read in order, each once and whole, with
\* interrupts between any two steps of the reader and whatever it forgets in
\* count: count is never more than the bytes that are there.
BytesInOrder ==
  /\ count <= Len(sent) - (IF stage \in {"load", "store"} THEN nread - 1 ELSE nread)
  /\ nread <= Len(sent)
  /\ \A i \in 1..Len(got) : got[i] = sent[nread - Len(got) + i].code

\* A letter comes with the modifiers that were down when it was pressed, however
\* late it is read and whatever else came between: upper case exactly if Shift was.
LettersAsTyped ==
  shown.at > 0 =>
    /\ "shift_l" \in shown.flags <=> "shift" \in sent[shown.at].down
    /\ "ctrl_r" \in shown.flags <=> "ctrl_r" \in sent[shown.at].down
=============================================================================
