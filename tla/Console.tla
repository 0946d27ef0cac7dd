------------------------------ MODULE Console ------------------------------
(***************************************************************************)
(* The kernel's messages: i686_debug (sys/i686/i686.c) formats into one    *)
(* static buffer and puts the characters on the screen (bootvideo.c) or on *)
(* the serial line (i686_tty.c).  An exception may interrupt it between    *)
(* two characters; the handler reports through the same buffer and the     *)
(* same device, and hangs.  The screen is at a virtual address that only   *)
(* the loader's page directory maps: once the user thread's directory is   *)
(* set, a store to it is an exception itself, in the handler of another.   *)
(***************************************************************************)
EXTENDS Format, FiniteSets

CONSTANTS COLS, ROWS,
          BufLen,        \* sizeof(debugbuf)
          CmdLines,      \* command lines
          UseSerial,     \* "use_serial"
          Messages,      \* what the kernel says
          Reports,       \* what i686_int_entry says: a message, or three
          PageFault,     \* what it says of a store to a screen that is not mapped
          MaxMessages    \* the most messages before the exception

\* A format whose literal characters fill the buffer to its end leaves it
\* without a terminator; the kernel has none.
Fits(format) ==
  \E i \in 0 .. BufLen - 1 :
    k_snprintf([j \in 0 .. BufLen - 1 |-> NL], BufLen, format)[i] = NUL

ASSUME ConsoleAssumption ==
  /\ {COLS, ROWS, BufLen} \subseteq Nat \ {0} /\ MaxMessages \in Nat
  /\ \A m \in Messages : Fits(m)
  /\ \A r \in Reports : \A i \in DOMAIN r : Fits(r[i])
  /\ PageFault \in Reports

VARIABLES use_serial,
          switched,          \* whether cr3 holds the user thread's directory
          vmem, curX, curY,  \* the screen
          fifo, line,        \* the UART, and what has left it
          debugbuf,
          todo,              \* the messages to be put, the current one first
          pos,               \* how much of it was put, -1 before it is formatted
          hung,              \* whether an exception was taken
          count,             \* how many messages there were
          written, done      \* what was put since the start; the messages, and how
                             \* much of each was to be put at most

devices == <<vmem, curX, curY, fifo, line>>
consolevars == <<use_serial, switched, devices, debugbuf, todo, pos, hung, count, written, done>>

Cells == 0 .. (ROWS * COLS) - 1
Blank == [i \in Cells |-> NUL]

\* i686_kmain: bootvideo_cls and parse_cmdline.
ConsoleInit ==
  /\ \E c \in CmdLines : use_serial = strstr(c, UseSerial)
  /\ switched = FALSE
  /\ vmem = Blank /\ curX = 0 /\ curY = 0
  /\ fifo = <<>> /\ line = <<>>
  /\ debugbuf = [i \in 0 .. BufLen - 1 |-> NUL]
  /\ todo = <<>> /\ pos = -1 /\ hung = FALSE /\ count = 0
  /\ written = <<>> /\ done = <<>>

-----------------------------------------------------------------------------
\* Mutant: the last row is left as it was.
RowsUp_not_cleared(v) ==
  [i \in Cells |-> IF i < (ROWS - 1) * COLS THEN v[i + COLS] ELSE v[i]]

\* The rows of bootvideo_scroll, each one up and the last one cleared.
RowsUp(v) ==
  [i \in Cells |-> IF i < (ROWS - 1) * COLS THEN v[i + COLS] ELSE NUL]

\* bootvideo_putc, with bootvideo_scroll.
bootvideo_putc(s, c) ==
  LET v == IF c = NL THEN s.v ELSE [s.v EXCEPT ![(s.y * COLS) + s.x] = c]
      x == IF c = NL THEN 0 ELSE s.x + 1
      wraps == x >= COLS
      y == IF c = NL \/ wraps THEN s.y + 1 ELSE s.y
  IN [v |-> IF y >= ROWS THEN RowsUp(v) ELSE v,
      x |-> IF wraps THEN 0 ELSE x,
      y |-> IF y >= ROWS THEN ROWS - 1 ELSE y]

\* Whether bootvideo_putc stores to vmem.  Its address, 0xB8000, is below the
\* kernel's start: a directory that set_kernel_pdes has filled does not map it.
TouchesScreen(c) == c # NL \/ curY + 1 >= ROWS

ToScreen(c) ==
  LET s == bootvideo_putc([v |-> vmem, x |-> curX, y |-> curY], c)
  IN /\ ~use_serial /\ (switched => ~TouchesScreen(c))
     /\ vmem' = s.v /\ curX' = s.x /\ curY' = s.y
     /\ UNCHANGED <<fifo, line>>

\* i686_tty_putchar, when i686_tty_fifo_full does not hold it up any more.
i686_tty_putchar(c) ==
  /\ use_serial /\ fifo = <<>>
  /\ fifo' = <<c>>
  /\ UNCHANGED <<vmem, curX, curY, line>>

\* The UART sends what it has.
Send ==
  /\ fifo # <<>>
  /\ line' = Append(line, Head(fifo)) /\ fifo' = Tail(fifo)
  /\ UNCHANGED <<use_serial, switched, vmem, curX, curY, debugbuf, todo, pos, hung, count,
                 written, done>>

-----------------------------------------------------------------------------
\* Somebody calls kernel()->debug; after the switch nobody does.
Call(m) ==
  /\ ~hung /\ ~switched /\ todo = <<>> /\ count < MaxMessages
  /\ todo' = <<m>> /\ count' = count + 1
  /\ UNCHANGED <<use_serial, switched, devices, debugbuf, pos, hung, written, done>>

\* virtmem_set_context in i686_kmain, before the user thread runs.
SetContext ==
  /\ ~hung /\ ~switched /\ todo = <<>>
  /\ switched' = TRUE
  /\ UNCHANGED <<use_serial, devices, debugbuf, todo, pos, hung, count, written, done>>

\* i686_debug: the formatting,
FormatMessage ==
  /\ todo # <<>> /\ pos = -1
  /\ debugbuf' = k_snprintf(debugbuf, BufLen, todo[1])
  /\ pos' = 0
  /\ UNCHANGED <<use_serial, switched, devices, todo, hung, count, written, done>>

\* bootvideo_puts and i686_tty_puts, a character,
Put ==
  /\ pos >= 0 /\ debugbuf[pos] # NUL
  /\ ToScreen(debugbuf[pos]) \/ i686_tty_putchar(debugbuf[pos])
  /\ written' = Append(written, debugbuf[pos])
  /\ pos' = pos + 1
  /\ UNCHANGED <<use_serial, switched, debugbuf, todo, hung, count, done>>

\* Mutant: the handler is left after its first message.
Return_once ==
  /\ pos >= 0 /\ debugbuf[pos] = NUL
  /\ todo' = <<>> /\ pos' = -1
  /\ done' = Append(done, <<todo[1], BufLen>>)
  /\ UNCHANGED <<use_serial, switched, devices, debugbuf, hung, count, written>>

\* and the return.
Return ==
  /\ pos >= 0 /\ debugbuf[pos] = NUL
  /\ todo' = Tail(todo) /\ pos' = -1
  /\ done' = Append(done, <<todo[1], BufLen>>)
  /\ UNCHANGED <<use_serial, switched, devices, debugbuf, hung, count, written>>

\* An exception: i686_int_entry and i686_pagefault report and hang.  What is
\* left of the message they interrupt is never put.
Exception(report) ==
  /\ ~hung /\ hung' = TRUE
  /\ todo' = report /\ pos' = -1
  /\ done' = IF pos > 0 THEN Append(done, <<todo[1], pos>>) ELSE done
  /\ UNCHANGED <<use_serial, switched, devices, debugbuf, count, written>>

\* The screen is not mapped: the store in bootvideo_putc is a page fault, whose
\* handler starts its own report, and comes to the same store.  A new line has
\* moved the cursor before.  That each time some of the kernel's stack is used
\* up is left out.
PutFaults ==
  /\ pos >= 0 /\ debugbuf[pos] # NUL
  /\ ~use_serial /\ switched /\ TouchesScreen(debugbuf[pos])
  /\ IF debugbuf[pos] = NL THEN curX' = 0 /\ curY' = curY + 1 ELSE UNCHANGED <<curX, curY>>
  /\ hung' = TRUE /\ todo' = PageFault /\ pos' = -1
  /\ done' = IF pos > 0 THEN Append(done, <<todo[1], pos>>) ELSE done
  /\ UNCHANGED <<use_serial, switched, vmem, fifo, line, debugbuf, count, written>>

Hung == hung /\ todo = <<>> /\ UNCHANGED consolevars

Step == FormatMessage \/ Put \/ PutFaults \/ Return

ConsoleNext ==
  \/ \E m \in Messages : Call(m)
  \/ SetContext \/ FormatMessage \/ Put \/ PutFaults \/ Return \/ Send
  \/ \E report \in Reports : Exception(report)
  \/ Hung

ConsoleSpec == ConsoleInit /\ [][ConsoleNext]_consolevars

\* The processor goes on, and the UART sends.
FairConsoleSpec == ConsoleSpec /\ WF_consolevars(Step) /\ WF_consolevars(Send)

-----------------------------------------------------------------------------
\* An endless sheet: where a text puts its characters, row by row.
Draw(p, c) ==
  IF c = NL THEN [row |-> p.row + 1, col |-> 0, cell |-> p.cell]
  ELSE [row |-> IF p.col = COLS - 1 THEN p.row + 1 ELSE p.row,
        col |-> IF p.col = COLS - 1 THEN 0 ELSE p.col + 1,
        cell |-> p.cell \cup {<<p.row, p.col, c>>}]

Sheet(text) ==
  LET after[n \in 0 .. Len(text)] ==
        IF n = 0 THEN [row |-> 0, col |-> 0, cell |-> {}] ELSE Draw(after[n - 1], text[n])
  IN after[Len(text)]

\* The device shows what was put, all of it and in order: the screen the last
\* rows of the sheet, however often it was scrolled; the line every character,
\* none overwritten in the UART.
ShownInOrder ==
  IF use_serial THEN line \o fifo = written
  ELSE LET sheet == Sheet(written)
           top == IF sheet.row < ROWS THEN 0 ELSE sheet.row - ROWS + 1
       IN \A i \in Cells :
            vmem[i] = LET here == {p \in sheet.cell : p[1] = top + (i \div COLS)
                                                        /\ p[2] = i % COLS}
                      IN IF here = {} THEN NUL ELSE (CHOOSE p \in here : TRUE)[3]

\* What is put is what the format and its arguments mean, cut to the buffer:
\* nothing of a longer message that was in the buffer before, numbers with
\* their sign and digits, and after an exception the report and nothing of the
\* message it interrupted.
MessagesExact ==
  LET shown(m) == LET t == Cut(m[1], BufLen)
                  IN SubSeq(t, 1, IF m[2] < Len(t) THEN m[2] ELSE Len(t))
  IN written = FlattenSeq([i \in DOMAIN done |-> shown(done[i])])
                 \o (IF pos > 0 THEN shown(<<todo[1], pos>>) ELSE <<>>)

\* An exception is reported in full, all its messages to the last character,
\* even when it interrupts a message and whatever the UART still has to send:
\* on the serial line whenever it is taken, on the screen before the user
\* thread's directory is set.  After that the screen shows no report at all.
ExceptionReported ==
  \A r \in Reports :
    (hung /\ todo = r /\ (use_serial \/ ~switched)) ~>
      IsSuffix(FlattenSeq([i \in DOMAIN r |-> Cut(r[i], BufLen)]),
               IF use_serial THEN line ELSE written)
=============================================================================
