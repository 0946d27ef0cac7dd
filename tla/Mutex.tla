------------------------------- MODULE Mutex -------------------------------
(***************************************************************************)
(* struct mutex and the functions of i686_mutex (sys/i686/i686_mutex.c and *)
(* sys/common/mutex.c), called by several CPUs.  mutex_lock tries once: it *)
(* exchanges MUTEX_LOCKED into the lock word, which is atomic, and records *)
(* its caller in blocker only afterwards.  mutex_unlock makes two plain    *)
(* stores, one to lock and one to blocker; nothing orders them, so either  *)
(* may become visible to the other CPUs first.                             *)
(***************************************************************************)
EXTENDS Integers

CONSTANTS CPUs,   \* callers, each with a name of its own
          NoName  \* the empty string

ASSUME MutexAssumption == NoName \notin CPUs

VARIABLES lock,     \* "MUTEX_UNLOCKED" or "MUTEX_LOCKED"
          blocker,  \* the name in mutex->blocker
          pc        \* what each caller is doing

vars == <<lock, blocker, pc>>

\* mutex_init
Init ==
  /\ lock = "MUTEX_UNLOCKED"
  /\ blocker = NoName
  /\ pc = [c \in CPUs |-> "idle"]

Go(c, from, to) == pc[c] = from /\ pc' = [pc EXCEPT ![c] = to]

-----------------------------------------------------------------------------
\* xchg finds the mutex free: the caller has it, but is not named yet.
Acquire(c) ==
  /\ Go(c, "idle", "locked")
  /\ lock = "MUTEX_UNLOCKED"
  /\ lock' = "MUTEX_LOCKED"
  /\ UNCHANGED blocker

\* Mutant: the exchange stores MUTEX_UNLOCKED when it fails.
AcquireFails_unlocks(c) ==
  /\ pc[c] = "idle"
  /\ lock = "MUTEX_LOCKED"
  /\ lock' = "MUTEX_UNLOCKED"
  /\ UNCHANGED <<blocker, pc>>

\* xchg finds it taken and stores the value it already has; mutex_lock
\* returns MUTEX_LOCKED and the caller may try again.
AcquireFails(c) ==
  /\ pc[c] = "idle"
  /\ lock = "MUTEX_LOCKED"
  /\ lock' = "MUTEX_LOCKED"
  /\ UNCHANGED <<blocker, pc>>

\* Mutant: the name is recorded only where there is none.
RecordName_if_empty(c) ==
  /\ Go(c, "locked", "critical")
  /\ blocker' = IF blocker = NoName THEN c ELSE blocker
  /\ UNCHANGED lock

\* mutex->blocker = name, and mutex_lock returns MUTEX_UNLOCKED.
RecordName(c) ==
  /\ Go(c, "locked", "critical")
  /\ blocker' = c
  /\ UNCHANGED lock

\* Mutant: only the caller that blocker names may unlock.
BeginUnlock_by_name(c) ==
  /\ Go(c, "critical", "unlocking") /\ blocker = c
  /\ UNCHANGED <<lock, blocker>>

\* mutex_unlock is called ...
BeginUnlock(c) == Go(c, "critical", "unlocking") /\ UNCHANGED <<lock, blocker>>

\* Mutant: the name is not cleared after the release.
ReleaseThenClear_not_cleared(c) ==
  \/ /\ Go(c, "unlocking", "released")
     /\ lock' = "MUTEX_UNLOCKED" /\ UNCHANGED blocker
  \/ /\ Go(c, "released", "idle")
     /\ UNCHANGED <<lock, blocker>>

\* ... and either store may be the first to become visible.
ReleaseThenClear(c) ==
  \/ /\ Go(c, "unlocking", "released")
     /\ lock' = "MUTEX_UNLOCKED" /\ UNCHANGED blocker
  \/ /\ Go(c, "released", "idle")
     /\ blocker' = NoName /\ UNCHANGED lock

ClearThenRelease(c) ==
  \/ /\ Go(c, "unlocking", "cleared")
     /\ blocker' = NoName /\ UNCHANGED lock
  \/ /\ Go(c, "cleared", "idle")
     /\ lock' = "MUTEX_UNLOCKED" /\ UNCHANGED blocker

mutex_unlock(c) == BeginUnlock(c) \/ ReleaseThenClear(c) \/ ClearThenRelease(c)

i686_mutex_lock(c) == Acquire(c) \/ AcquireFails(c) \/ RecordName(c)

Next == \E c \in CPUs : i686_mutex_lock(c) \/ mutex_unlock(c)

Spec == Init /\ [][Next]_vars

\* A CPU that has the mutex keeps executing, and its critical section ends.
FairSpec == Spec /\ \A c \in CPUs : WF_vars(RecordName(c) \/ mutex_unlock(c))

-----------------------------------------------------------------------------
\* The lock word is one of the two values of enum mutex_status, blocker a
\* caller's name or empty, and every caller is between calls or inside one.
TypeOK ==
  /\ lock \in {"MUTEX_UNLOCKED", "MUTEX_LOCKED"}
  /\ blocker \in CPUs \cup {NoName}
  /\ pc \in [CPUs -> {"idle", "locked", "critical", "unlocking", "released", "cleared"}]

\* The callers that have the mutex: from the exchange to the store to lock.
Holds(c) == pc[c] \in {"locked", "critical", "unlocking", "cleared"}

\* At most one caller has the mutex, and the lock word says whether one has:
\* a failed exchange does not free it, and a release frees only one's own.
MutualExclusion ==
  /\ \A c, d \in CPUs : Holds(c) /\ Holds(d) => c = d
  /\ lock = "MUTEX_LOCKED" <=> \E c \in CPUs : Holds(c)

\* mutex_blocker never blames a bystander: the caller it names has the mutex,
\* or is still inside the mutex_unlock that gave it up.
BlockerIsConcerned ==
  \A c \in CPUs : blocker = c => pc[c] \in {"critical", "unlocking", "released"}

\* While a caller is in its critical section no other one is blamed.  (It may
\* be that nobody is: the previous holder's late store to blocker can wipe
\* out the name of the new one.)
HolderNotMisnamed ==
  \A c \in CPUs : pc[c] = "critical" => blocker \in {c, NoName}

\* The mutex is always released again.
LockReleased == (lock = "MUTEX_LOCKED") ~> (lock = "MUTEX_UNLOCKED")
=============================================================================
