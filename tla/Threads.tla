------------------------------ MODULE Threads ------------------------------
(***************************************************************************)
(* The scheduler (sys/common/scheduler.c, thread.c) on the lists of        *)
(* queue.h, and the one way in which i686_kmain uses it: threads are made  *)
(* one after the other; at last the thread just added is run, by way of    *)
(* scheduler_reschedule, virtmem_set_context for its address space and     *)
(* scheduler_resume.  From then on the processor executes the thread until *)
(* it takes an exception, after which the kernel reports and hangs.  The   *)
(* kernel itself may take an exception at any time.                        *)
(***************************************************************************)
EXTENDS Traps, LinkedList, FiniteSets

CONSTANTS ThreadSet,   \* struct thread objects
          Spaces,      \* struct address_space objects
          runnable, waiting,
          NIds,        \* 2^32
          ErrorCodes   \* what the processor may push as error code

\* A struct thread is some bytes long: fewer of them fit in memory than there
\* are identifiers.
ASSUME ThreadsAssumption ==
  /\ runnable # waiting /\ {runnable, waiting, Null} \cap ThreadSet = {}
  /\ IsFiniteSet(ThreadSet) /\ NIds \in Nat /\ Cardinality(ThreadSet) + 1 < NIds
  /\ ErrorCodes \subseteq Nat

VARIABLES mode,      \* what the processor is doing
          thread,    \* state, tid and space of each thread
          sched,     \* see LinkedList: runnable and waiting
          current,   \* s->current
          next_tid,
          making,    \* the thread that is being made, and how far it is
          cr3,       \* the address space in use
          regs,      \* the processor's registers
          trap       \* the exception taken, and the stack the handler gets

vars == <<mode, thread, sched, current, next_tid, making, cr3, regs, trap>>

States == {"INIT", "RUNNABLE", "SLEEPING", "BLOCKED", "STOPPED"}
NoTrap == [v |-> -1, err |-> 0, ring |-> 0, stack |-> <<>>]
Nobody == [t |-> Null, stage |-> "none"]

\* In the kernel the segment registers are those of ring 0; the others have
\* values that tell them apart.
Some(r) == 100 + (CHOOSE i \in DOMAIN Fields : Fields[i] = r)
KernelRegs == [r \in Registers |-> IF r \in Segments \cup {"ss"} THEN 16
                                   ELSE IF r = "cs" THEN 8 ELSE Some(r)]

Init ==
  /\ mode = "boot"
  /\ thread = [t \in ThreadSet |-> [state |-> "INIT", tid |-> 0, space |-> Null]]
  /\ sched = [at |-> [x \in ThreadSet \cup {runnable, waiting} |-> Null],
              prev |-> [t \in ThreadSet |-> Null]]
  /\ current = Null /\ next_tid = 1
  /\ making = Nobody
  /\ cr3 = Null
  /\ regs = KernelRegs
  /\ trap = NoTrap

-----------------------------------------------------------------------------
\* i686_cpu_init.  i686_cpu_set_tr names the operands of its mov in the wrong
\* order: the task register gets the selector only if the compiler happened to
\* keep it in eax; otherwise ltr faults with no handler set up.
i686_cpu_init ==
  /\ mode = "boot" /\ mode' \in {"kernel", "reset"}
  /\ sched' = LIST_INIT(LIST_INIT(sched, runnable), waiting)
  /\ current' = Null
  /\ UNCHANGED <<thread, next_tid, making, cr3, regs, trap>>

\* scheduler_thread_alloc.  Without memory it writes through a null pointer.
thread_alloc(t) ==
  /\ mode = "kernel" /\ making = Nobody
  /\ thread[t].tid = 0
  /\ \/ making' = [t |-> t, stage |-> "alloc"] /\ UNCHANGED mode
     \/ mode' = "wild" /\ UNCHANGED making
  /\ UNCHANGED <<thread, sched, current, next_tid, cr3, regs, trap>>

\* Mutant: the identifier is not advanced.
common_thread_init_same_id(t, as) ==
  /\ mode = "kernel" /\ making = [t |-> t, stage |-> "alloc"]
  /\ thread' = [thread EXCEPT ![t] = [state |-> "INIT", tid |-> next_tid, space |-> as]]
  /\ making' = [making EXCEPT !.stage = "init"]
  /\ UNCHANGED <<mode, sched, current, next_tid, cr3, regs, trap>>

common_thread_init(t, as) ==
  /\ mode = "kernel" /\ making = [t |-> t, stage |-> "alloc"]
  /\ thread' = [thread EXCEPT ![t] = [state |-> "INIT", tid |-> next_tid, space |-> as]]
  /\ next_tid' = (next_tid + 1) % NIds
  /\ making' = [making EXCEPT !.stage = "init"]
  /\ UNCHANGED <<mode, sched, current, cr3, regs, trap>>

\* The maker of a thread sets its state itself, or leaves it.
SetState(t, state) ==
  /\ mode = "kernel" /\ making = [t |-> t, stage |-> "init"]
  /\ thread' = [thread EXCEPT ![t].state = state]
  /\ making' = [making EXCEPT !.stage = "state"]
  /\ UNCHANGED <<mode, sched, current, next_tid, cr3, regs, trap>>

\* Mutant: the thread goes behind the first one.
AddTo_second(h, t) ==
  IF LIST_EMPTY(sched, h) THEN LIST_INSERT_HEAD(sched, h, t)
  ELSE LIST_INSERT_HEAD(sched, LIST_FIRST(sched, h), t)

AddTo(h, t) == LIST_INSERT_HEAD(sched, h, t)

\* common_scheduler_thread_add; SCHED_INVALID for a thread in state INIT.
common_scheduler_thread_add(t) ==
  /\ mode = "kernel" /\ making = [t |-> t, stage |-> "state"]
  /\ \/ /\ thread[t].state = "RUNNABLE" /\ sched' = AddTo(runnable, t)
        /\ making' = [making EXCEPT !.stage = "added"]
     \/ /\ thread[t].state \in {"SLEEPING", "BLOCKED", "STOPPED"}
        /\ sched' = AddTo(waiting, t) /\ making' = Nobody
     \/ thread[t].state = "INIT" /\ making' = Nobody /\ UNCHANGED sched
  /\ UNCHANGED <<mode, thread, current, next_tid, cr3, regs, trap>>

\* It is followed by the making of another thread ...
Another ==
  /\ mode = "kernel" /\ making.stage = "added"
  /\ making' = Nobody
  /\ UNCHANGED <<mode, thread, sched, current, next_tid, cr3, regs, trap>>

\* ... or by running it.
common_scheduler_reschedule ==
  /\ mode = "kernel" /\ making.stage = "added"
  /\ current' = LIST_FIRST(sched, runnable)
  /\ making' = [making EXCEPT !.stage = "chosen"]
  /\ UNCHANGED <<mode, thread, sched, next_tid, cr3, regs, trap>>

\* virtmem_set_context, with the address space the thread was made with.
SetContext ==
  /\ mode = "kernel" /\ making.stage = "chosen"
  /\ cr3' = thread[making.t].space
  /\ making' = [making EXCEPT !.stage = "go"]
  /\ UNCHANGED <<mode, thread, sched, current, next_tid, regs, trap>>

\* i686_scheduler_resume.  Where the processor does not accept what is popped
\* it takes an exception, on a stack that is the context itself.
i686_scheduler_resume ==
  LET popped == i686_userspace_return(NewContext)
  IN /\ mode = "kernel" /\ making.stage = "go"
     /\ mode' = IF Accepted(popped) THEN "entered" ELSE "refused"
     /\ regs' = popped
     /\ making' = Nobody
     /\ UNCHANGED <<thread, sched, current, next_tid, cr3, trap>>

\* The thread computes; its registers then hold anything.
UserRuns ==
  /\ mode = "entered" /\ mode' = "user"
  /\ regs' = [r \in Registers |-> IF r \in Segments \cup {"cs", "ss"} THEN regs[r] ELSE Some(r)]
  /\ UNCHANGED <<thread, sched, current, next_tid, making, cr3, trap>>

\* An exception, from ring 3 on the stack of the task state segment, from
\* ring 0 on the stack in use; the stub, the handler, and i686_int_entry, which
\* reports and hangs.  What becomes of the report is in Console: on the screen,
\* which is not mapped once cr3 is set, it is an exception in its turn, and the
\* handler is entered again without end.  Here either is "hung".
Exception(v, err) ==
  LET ring == IF mode \in {"entered", "user"} THEN 3 ELSE 0
      below == IF ring = 3 THEN <<>> ELSE [i \in DOMAIN Fields |-> 0]
  IN /\ trap' = [v |-> v, err |-> IF PushesError(v) THEN err ELSE 0, ring |-> ring,
                 stack |-> Frame(v, err, ring, regs, below)]
     /\ mode' = "hung"
     /\ UNCHANGED <<thread, sched, current, next_tid, making, cr3, regs>>

Rest == mode \in {"hung", "wild", "reset", "refused", "kernel"} /\ UNCHANGED vars

Next ==
  \/ i686_cpu_init
  \/ \E t \in ThreadSet :
       \/ thread_alloc(t) \/ common_scheduler_thread_add(t)
       \/ \E as \in Spaces : common_thread_init(t, as)
       \/ \E state \in States : SetState(t, state)
  \/ Another \/ common_scheduler_reschedule \/ SetContext \/ i686_scheduler_resume
  \/ UserRuns
  \/ /\ mode \in {"kernel", "entered", "user"}
     /\ \E v \in Exceptions, err \in ErrorCodes : Exception(v, err)
  \/ Rest

Spec == Init /\ [][Next]_vars

-----------------------------------------------------------------------------
\* common_scheduler_thread_lookup_by_id: the first match on a list, the
\* runnable threads before the waiting ones.
FirstMatch(h, tid) ==
  LET n == Cardinality(ThreadSet)
      visit == Visited(sched, h, n)
      hits == {i \in 0 .. n : visit[i] # Null /\ thread[visit[i]].tid = tid}
  IN IF hits = {} THEN Null ELSE visit[Min(hits)]

thread_lookup_by_id(tid) ==
  LET t == FirstMatch(runnable, tid)
  IN IF t # Null THEN t ELSE FirstMatch(waiting, tid)

\* The threads that scheduler_thread_add accepted.
Added == {t \in ThreadSet : /\ thread[t].state # "INIT"
                            /\ making.t = t => making.stage \notin {"init", "state"}}

\* However many threads are added, in whatever order and states, every one of
\* them is found by its identifier and by no other, and a thread that was
\* refused or is still being made is not found; the lists keep their links.
ThreadsFound ==
  /\ \A h \in {runnable, waiting} : WellFormed(sched, h, Cardinality(ThreadSet))
  /\ \A tid \in 1 .. next_tid :
       LET owners == {t \in Added : thread[t].tid = tid}
       IN IF owners = {} THEN thread_lookup_by_id(tid) = Null
                         ELSE owners = {thread_lookup_by_id(tid)}

\* The thread that is entered is the current one, it is runnable, it starts in
\* ring 3 at its first instruction with the registers of its context, and in
\* its own address space - which i686_kmain sets from its own variable, not
\* from the scheduler.
ResumeEntersThread ==
  /\ mode # "refused"
  /\ mode = "entered" =>
       /\ current # Null /\ thread[current].state = "RUNNABLE"
       /\ cr3 = thread[current].space
       /\ \A r \in Registers \ {"esp"} : regs[r] = NewContext[r]
       /\ regs["esp"] = NewContext["useresp"]

\* What i686_int_entry and i686_pagefault read as a struct i686_context is the
\* exception that was taken and the state it interrupted, for every vector,
\* with and without error code, from either ring.
FrameIsContext ==
  mode = "hung" =>
    LET c == Context(trap.stack)
    IN /\ c["int_no"] = trap.v /\ c["err_code"] = trap.err
       /\ \A r \in Registers \ {"esp", "ss"} : c[r] = regs[r]
       /\ trap.ring = 3 => c["useresp"] = regs["esp"] /\ c["ss"] = regs["ss"]
=============================================================================
