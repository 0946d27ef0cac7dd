----------------------------- MODULE MCConsole -----------------------------
(***************************************************************************)
(* Console for TLC: a screen of two rows of three, a buffer of six bytes,  *)
(* words of eight bits.                                                    *)
(***************************************************************************)
EXTENDS Console

C(c) == [kind |-> "c", arg |-> c]
S(s) == [kind |-> "s", arg |-> s]
N(kind, n) == [kind |-> kind, arg |-> n]

\* Letters are 50 and more.  A message with a new line, the extreme numbers of
\* %d and %x, the largest that %u gets right (half the range of a word), and
\* strings that fit exactly, are cut, or leave room for nothing.
SomeMessages ==
  {<<C(50), N("d", n), C(NL)>> : n \in {-10, 0, 127}}
    \cup {<<N("d", -128), S(<<51, 52>>), C(NL)>>}
    \cup {<<N("x", 255), C(53), N("u", 127)>>}
    \cup {<<S(<<54, 55, 56, 57, 58>>), S(<<>>)>>, <<C(59), S(<<54, 55, 56, 57, 58, 59>>), C(60)>>}

\* An exception, and a page fault.
PageFaultReport == <<<<C(61), N("d", 14)>>, <<C(62), N("x", 160)>>, <<C(63), C(NL)>>>>
SomeReports == {<<<<C(61), N("d", 13), C(NL)>>>>, PageFaultReport}

Lines == {<<70, 71>>, <<70, 71, 70, 72, 73>>}
Word == <<70, 72>>
=============================================================================
