---------------------------- MODULE MCBootMemory ----------------------------
(***************************************************************************)
(* BootMemory for TLC: 16 pages of 4 bytes, the first two are low memory,  *)
(* the kernel ends in page 3 and a descriptor takes one byte.              *)
(***************************************************************************)
EXTENDS BootMemory

Entry(from, to, usable) ==
  [base |-> from, length |-> to - from, usable |-> usable, high |-> FALSE]

\* Low memory that ends in page 0 or 1, before the kernel's area, which ends at
\* or off a page boundary; a third area, usable or reserved up to the top.
\* Some of them touch.
Low == {Entry(0, to, TRUE) : to \in {3, 7}}
Main == {Entry(12, 40, TRUE), Entry(12, 46, TRUE)}
Third == {Entry(48, 58, TRUE), Entry(52, 60, TRUE), Entry(48, 64, TRUE), Entry(48, 64, FALSE)}
AboveLimit == [base |-> 0, length |-> 0, usable |-> TRUE, high |-> TRUE]

SomeMaps ==
  {<<l, m, t>> : l \in Low, m \in Main, t \in Third}
    \cup {<<t, m, l>> : l \in Low, m \in Main, t \in Third}
    \cup {<<l, Entry(8, 36, TRUE)>> : l \in Low} \cup {<<AboveLimit>>}
    \cup {<<Entry(0, 3, TRUE), Entry(12, 32, TRUE)>>}   \* too little memory

\* A PC: the area with the kernel is followed by a reserved one.
PcMap == {<<Entry(0, 7, TRUE), Entry(7, 8, FALSE), Entry(8, 56, TRUE), Entry(56, 64, FALSE)>>}
=============================================================================
