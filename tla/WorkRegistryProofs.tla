------------------------- MODULE WorkRegistryProofs -------------------------
(***************************************************************************)
(* What holds of the lock and of the registry behind it for any number of  *)
(* processes and calls.  The invariant is about undisturbed histories: a   *)
(* lock that is not stale belongs to the one process between its mkdir and *)
(* its rm, and who goes to claim a lock has seen a stale one.              *)
(***************************************************************************)
EXTENDS WorkRegistry, TLAPS

\* Who is in the critical section holds a fresh lock, and what it is about to
\* write rests on what the registry is.
HoldsFresh(p) ==
    /\ pc[p] \in Critical => lock.holder = {p} /\ ~ lock.old
    /\ pc[p] = "write" => copy[p] = file

IInv ==
    /\ TypeOK
    /\ \A p \in Procs : pc[p] = "claim" => p \in sawStale
    /\ ~ Disturbed => \A p \in Procs : HoldsFresh(p)

-----------------------------------------------------------------------------

\* The types are inductive.
LEMMA TypesHold == ASSUME TypeOK, [Next]_vars PROVE TypeOK'
<1> USE DEF TypeOK, Locks, NoLock, Counts, Labels, history, Goto, At
<1>1. CASE UNCHANGED vars
  BY <1>1 DEF vars
<1>2. ASSUME NEW p \in Procs, Call(p) PROVE TypeOK'
  BY <1>2 DEF Call
<1>3. ASSUME NEW p \in Procs, Acquire(p) PROVE TypeOK'
  BY <1>3 DEF Acquire
<1>4. ASSUME NEW p \in Procs, MkdirFails(p) PROVE TypeOK'
  BY <1>4 DEF MkdirFails
<1>5. ASSUME NEW p \in Procs, Stat(p) PROVE TypeOK'
  BY <1>5 DEF Stat
<1>6. ASSUME NEW p \in Procs, Claim(p) PROVE TypeOK'
  BY <1>6 DEF Claim
<1>7. ASSUME NEW p \in Procs, Read(p) PROVE TypeOK'
  BY <1>7 DEF Read
<1>8. ASSUME NEW p \in Procs, Write(p) PROVE TypeOK'
  <2>1. copy[p] \in Counts
    BY <1>8
  <2>2. file' \in Counts
    BY <1>8, <2>1 DEF Write
  <2> QED BY <1>8, <2>2 DEF Write
<1>9. ASSUME NEW p \in Procs, Unlock(p) PROVE TypeOK'
  BY <1>9 DEF Unlock
<1>10. ASSUME NEW p \in Procs, GiveUp(p) \/ Refuse(p) \/ Die(p) PROVE TypeOK'
  BY <1>10 DEF GiveUp, Refuse, Die
<1>11. CASE Age
  BY <1>11 DEF Age
<1> QED
  BY <1>1, <1>2, <1>3, <1>4, <1>5, <1>6, <1>7, <1>8, <1>9, <1>10, <1>11 DEF Next, Moves

\* A history that is disturbed remains so.
LEMMA DisturbanceLasts == ASSUME IInv, [Next]_vars, ~ Disturbed' PROVE ~ Disturbed
<1> USE DEF Disturbed, history
<1> QED
  BY DEF Next, Moves, vars, Call, Acquire, MkdirFails, Stat, GiveUp, Claim, Read, Refuse,
         Write, Unlock, Die, Age

\* In an undisturbed history nobody but the holder is between its mkdir and its rm.
LEMMA OneHolder ==
    ASSUME IInv, ~ Disturbed, NEW p \in Procs, NEW q \in Procs,
           pc[p] \in Critical, pc[q] \in Critical
    PROVE  p = q
<1>1. HoldsFresh(p) /\ HoldsFresh(q)
  BY DEF IInv
<1>2. lock.holder = {p} /\ lock.holder = {q}
  BY <1>1 DEF HoldsFresh
<1> QED BY <1>2

-----------------------------------------------------------------------------

\* The step of one process: what it does to itself and to the others.
LEMMA ProcessSteps ==
    ASSUME IInv, NEW p \in Procs, Moves(p) \/ Call(p) \/ GiveUp(p) \/ Refuse(p) \/ Die(p),
           ~ Disturbed, ~ Disturbed', NEW q \in Procs
    PROVE  HoldsFresh(q)'
<1> USE DEF HoldsFresh, Critical, Labels, Goto, At, history
<1>0. pc \in [Procs -> Labels] /\ HoldsFresh(q) /\ (pc[p] = "claim" => p \in sawStale)
  BY DEF IInv, TypeOK
<1>1. CASE Call(p) \/ MkdirFails(p) \/ Stat(p) \/ GiveUp(p) \/ Die(p)
  BY <1>0, <1>1 DEF Call, MkdirFails, Stat, GiveUp, Die
<1>2. CASE Acquire(p)
  BY <1>0, <1>2 DEF Acquire, NoLock
<1>3. CASE Claim(p)
  <2>1. lock = NoLock \/ lock.old
    BY <1>0, <1>3 DEF Claim, Disturbed
  <2>2. pc[q] \notin Critical
    BY <1>0, <2>1 DEF NoLock
  <2> QED BY <1>0, <1>3, <2>2 DEF Claim
<1>4. CASE Read(p)
  BY <1>0, <1>4, OneHolder DEF Read, IInv, TypeOK
<1>5. CASE Refuse(p)
  BY <1>0, <1>5 DEF Refuse
<1>6. CASE Write(p)
  <2>1. pc[q] \in Critical => q = p
    BY <1>6, OneHolder DEF Write
  <2> QED BY <1>0, <1>6, <2>1 DEF Write
<1>7. CASE Unlock(p)
  <2>1. pc[q] \in Critical => q = p
    BY <1>7, OneHolder DEF Unlock
  <2> QED BY <1>0, <1>7, <2>1 DEF Unlock
<1> QED
  BY <1>1, <1>2, <1>3, <1>4, <1>5, <1>6, <1>7 DEF Moves

\* Time passes: a lock that becomes stale while its holder lives disturbs.
LEMMA TimePasses ==
    ASSUME IInv, Age, ~ Disturbed, ~ Disturbed', NEW q \in Procs
    PROVE  HoldsFresh(q)'
<1>1. HoldsFresh(q)
  BY DEF IInv
<1>2. pc[q] \notin Critical
  BY <1>1 DEF HoldsFresh, Age, Disturbed, Critical
<1> QED BY <1>2 DEF HoldsFresh, Age, Critical

\* Every step keeps the invariant.
LEMMA Inductive == ASSUME IInv, [Next]_vars PROVE IInv'
<1>1. TypeOK'
  BY TypesHold DEF IInv
<1>2. ASSUME NEW p \in Procs, pc'[p] = "claim" PROVE p \in sawStale'
  <2> USE DEF history, Goto, At, IInv, TypeOK, Labels, Locks, NoLock
  <2>1. CASE UNCHANGED vars
    BY <1>2, <2>1 DEF vars
  <2>2. ASSUME NEW q \in Procs, Moves(q) PROVE p \in sawStale'
    BY <1>2, <2>2 DEF Moves, Acquire, MkdirFails, Stat, LooksStale, Claim, Read, Write, Unlock
  <2>3. ASSUME NEW q \in Procs, Call(q) \/ GiveUp(q) \/ Refuse(q) \/ Die(q) PROVE p \in sawStale'
    BY <1>2, <2>3 DEF Call, GiveUp, Refuse, Die
  <2>4. CASE Age
    BY <1>2, <2>4 DEF Age
  <2> QED BY <2>1, <2>2, <2>3, <2>4 DEF Next
<1>3. ASSUME ~ Disturbed', NEW q \in Procs PROVE HoldsFresh(q)'
  <2>1. ~ Disturbed
    BY <1>3, DisturbanceLasts
  <2>2. CASE UNCHANGED vars
    BY <2>1, <2>2 DEF IInv, HoldsFresh, vars
  <2>3. CASE Age
    BY <1>3, <2>1, <2>3, TimePasses
  <2>4. CASE \E p \in Procs : Moves(p) \/ Call(p) \/ GiveUp(p) \/ Refuse(p) \/ Die(p)
    BY <1>3, <2>1, <2>4, ProcessSteps
  <2> QED BY <2>2, <2>3, <2>4 DEF Next
<1> QED BY <1>1, <1>2, <1>3 DEF IInv

\* The invariant holds of an idle registry.
LEMMA Initially == ASSUME Init PROVE IInv
<1>1. file \in Counts /\ copy \in [Procs -> Counts]
  BY DEF Init, Counts
<1>2. TypeOK
  BY <1>1 DEF Init, TypeOK, NoLock, Labels
<1>3. \A p \in Procs : pc[p] = "idle"
  BY DEF Init
<1> QED BY <1>2, <1>3 DEF IInv, HoldsFresh, Critical

\* The invariant holds in every run.
THEOREM Invariance == Spec => []IInv
BY Initially, Inductive, PTL DEF Spec

-----------------------------------------------------------------------------

\* registry.ts:81-121: lock, file and processes keep their types.
THEOREM TypeCorrect == Spec => []TypeOK
<1>1. IInv => TypeOK
  BY DEF IInv
<1> QED BY <1>1, Invariance, PTL

\* As long as no lock is lost, however many processes there are and whichever
\* of them die, one process at most is between its mkdir and its rm, with a lock
\* that is its own.
THEOREM MutualExclusion == Spec => []HoldersAreAlone
<1>1. IInv => HoldersAreAlone
  <2> SUFFICES ASSUME IInv, ~ Disturbed, NEW p \in Procs, pc[p] \in Critical
               PROVE  /\ lock.holder = {p} /\ ~ lock.old
                      /\ \A q \in Procs \ {p} : pc[q] \notin Critical
    BY DEF HoldersAreAlone
  <2>1. HoldsFresh(p)
    BY DEF IInv
  <2> QED BY <2>1, OneHolder DEF HoldsFresh
<1> QED BY <1>1, Invariance, PTL

\* As long as no lock is lost, the registry is changed by one update after the
\* other, each made to the registry as it is.
THEOREM UpdatesAreAtomic == Spec => OneUpdateAtATime
<1>1. ASSUME IInv, [Next]_vars, ~ Disturbed', file' # file
      PROVE  \E p \in Procs : file' = [file EXCEPT ![p] = @ + 1]
  <2>1. ~ Disturbed
    BY <1>1, DisturbanceLasts
  <2>2. PICK p \in Procs : Write(p)
    BY <1>1 DEF Next, Moves, vars, Call, Acquire, MkdirFails, Stat, GiveUp, Claim, Read,
                Refuse, Unlock, Die, Age
  <2>3. copy[p] = file
    BY <1>1, <2>1, <2>2 DEF IInv, HoldsFresh, Write, At
  <2> QED BY <2>2, <2>3 DEF Write
<1>2. IInv /\ [Next]_vars =>
        [~ Disturbed' => \E p \in Procs : file' = [file EXCEPT ![p] = @ + 1]]_file
  BY <1>1
<1> QED BY <1>2, Invariance, PTL DEF Spec, OneUpdateAtATime
=============================================================================
