----------------------------- MODULE WriterLock -----------------------------
(***************************************************************************)
(* The project writer lock of core/locking.py: a directory, writer.lock,   *)
(* made with mkdir, that holds one file, owner.json, with the owner's      *)
(* token.  Processes acquire and release it; an operator who has seen a    *)
(* stale lock recovers it by quarantining the directory under another name *)
(* and deleting it there.                                                  *)
(*                                                                         *)
(* Every file-system call is a step of its own, because every pair of them *)
(* can be separated by a step of another process or by a crash.            *)
(*                                                                         *)
(* A token is the process that drew it: WriterLock draws a fresh uuid per  *)
(* lock object, and no process acquires again after a failed release.      *)
(*                                                                         *)
(* Time is one bit, whether the lock on disk is older than                 *)
(* lock_stale_after_seconds: the code knows nothing else of its owner's    *)
(* life.  Two history variables, which no step depends on, say when the    *)
(* environment was hard on the lock and when one was taken from a live     *)
(* process.                                                                *)
(***************************************************************************)
EXTENDS Naturals, FiniteSets

CONSTANTS
  Procs,        \* processes that take the lock; a process is also its token
  Recoverers,   \* operators' recover-lock commands that may run at once
  Nobody,       \* "no owner.json in the directory"
  Faults,       \* which environment faults happen: a subset of FaultKinds
  MaxStops      \* bound on processes that crash or give up holding the lock

FaultKinds == {"mkdir", "owner_write", "debris", "sharing", "slow", "recoverer_crash"}

ASSUME LockAssumption ==
  /\ Nobody \notin Procs
  /\ Faults \subseteq FaultKinds
  /\ MaxStops \in Nat

VARIABLES
  dir,         \* writer.lock: is it there, whose token it holds, stray files, its age
  pc,          \* where each process stands in acquire() or release()
  quarantine,  \* each recoverer's .writer.lock.recovery-<uuid> directory
  rpc,         \* where each recoverer stands in recover_stale_writer_lock()
  confirmed,   \* the owner evidence each operator confirmed on the command line
  strained,    \* history: a mkdir failed for a reason other than that the
               \* directory exists, or a live process kept its lock past the limit
  taken        \* history: the directory of a live process was removed by another

history == <<strained, taken>>
vars == <<dir, pc, quarantine, rpc, confirmed, history>>

Owners == Procs \cup {Nobody}
Dirs == [present : BOOLEAN, owner : Owners, debris : BOOLEAN, old : BOOLEAN]
NoDir == [present |-> FALSE, owner |-> Nobody, debris |-> FALSE, old |-> FALSE]

ProcStates == {"idle", "waiting", "failed", "created", "aborting", "holding",
               "verified", "unlinked", "stopped"}
RecovererStates == {"idle", "confirmed", "inspected", "quarantined", "matched"}

TypeOK ==
  /\ dir \in Dirs
  /\ pc \in [Procs -> ProcStates]
  /\ quarantine \in [Recoverers -> Dirs]
  /\ rpc \in [Recoverers -> RecovererStates]
  /\ confirmed \in [Recoverers -> Owners]
  /\ strained \in BOOLEAN
  /\ taken \in BOOLEAN

Stopped == {p \in Procs : pc[p] = "stopped"}

\* From the mkdir that made the lock directory to the rmdir that removes it.
InLock(p) == pc[p] \in {"created", "aborting", "holding", "verified", "unlinked"}

Init ==
  /\ dir = NoDir
  /\ pc = [p \in Procs |-> "idle"]
  /\ quarantine = [r \in Recoverers |-> NoDir]
  /\ rpc = [r \in Recoverers |-> "idle"]
  /\ confirmed = [r \in Recoverers |-> Nobody]
  /\ strained = FALSE
  /\ taken = FALSE

ProcStep(p, from, to) ==
  /\ pc[p] = from
  /\ pc' = [pc EXCEPT ![p] = to]
  /\ UNCHANGED <<quarantine, rpc, confirmed>>

RecovererStep(r, from, to) ==
  /\ rpc[r] = from
  /\ rpc' = [rpc EXCEPT ![r] = to]
  /\ UNCHANGED pc

\* The directory grows older than lock_stale_after_seconds, counted from the
\* acquired_at of its owner file or, without one, from its last change.  While
\* a live process is at work in it this needs a "slow" one.
GrowOld ==
  /\ dir.present /\ ~dir.old
  /\ "slow" \in Faults \/ \A p \in Procs : ~InLock(p)
  /\ dir' = [dir EXCEPT !.old = TRUE]
  /\ strained' = (strained \/ \E p \in Procs : InLock(p))
  /\ UNCHANGED <<pc, quarantine, rpc, confirmed, taken>>

-----------------------------------------------------------------------------
(* acquire()                                                               *)

StartAcquire(p) == ProcStep(p, "idle", "waiting") /\ UNCHANGED <<dir, history>>

\* A mutant: makedirs(exist_ok=True) in place of the exclusive mkdir.
MakeDir_ExistOk(p) ==
  /\ dir' = [dir EXCEPT !.present = TRUE]
  /\ ProcStep(p, "waiting", "created")
  /\ UNCHANGED history

\* mkdir succeeds only if the directory is absent.
MakeDir(p) ==
  /\ ~dir.present
  /\ dir' = [NoDir EXCEPT !.present = TRUE]
  /\ ProcStep(p, "waiting", "created")
  /\ UNCHANGED history

\* Any other error of mkdir, or an interrupt: the handler below runs although
\* this process has made no directory.
MakeDirFails(p) ==
  /\ "mkdir" \in Faults
  /\ ProcStep(p, "waiting", "failed")
  /\ strained' = TRUE
  /\ UNCHANGED <<dir, taken>>

\* FileExistsError at the deadline: the caller gets LockUnavailableError.
TimeOut(p) ==
  /\ dir.present
  /\ ProcStep(p, "waiting", "idle")
  /\ UNCHANGED <<dir, history>>

\* atomic_write_json makes the parent again if it is gone, and replaces any
\* owner.json already there.
WriteOwner(p) ==
  /\ dir' = [dir EXCEPT !.present = TRUE, !.owner = p, !.old = FALSE]
  /\ ProcStep(p, "created", "holding")
  /\ UNCHANGED history

WriteOwnerFails(p) ==
  /\ "owner_write" \in Faults
  /\ ProcStep(p, "created", "aborting")
  /\ UNCHANGED <<dir, history>>

IsEmpty(d) == d.present /\ d.owner = Nobody /\ ~d.debris

\* "except BaseException": a directory without owner.json is removed,
\* whoever made it.
CleanUpFailedAcquire(p) ==
  /\ \E from \in {"failed", "aborting"} : ProcStep(p, from, "idle")
  /\ dir' = IF IsEmpty(dir) THEN NoDir ELSE dir
  /\ taken' = (taken \/ (IsEmpty(dir) /\ \E q \in Procs \ {p} : InLock(q)))
  /\ UNCHANGED strained

-----------------------------------------------------------------------------
(* release()                                                               *)

VerifyOwner(p) ==
  /\ ProcStep(p, "holding",
       IF dir.present /\ dir.owner = p THEN "verified" ELSE "stopped")
  /\ UNCHANGED <<dir, history>>

UnlinkOwner(p) ==
  /\ dir' = IF dir.owner # Nobody THEN [dir EXCEPT !.owner = Nobody, !.old = FALSE]
            ELSE dir
  /\ ProcStep(p, "verified",
       IF dir.owner # Nobody THEN "unlinked" ELSE "stopped")
  /\ UNCHANGED history

RemoveDir(p) ==
  /\ dir' = IF IsEmpty(dir) THEN NoDir ELSE dir
  /\ ProcStep(p, "unlinked", IF IsEmpty(dir) THEN "idle" ELSE "stopped")
  /\ UNCHANGED history

\* A sharing violation that outlasts the timeout: release raises and the
\* command ends with the lock still on disk.
ReleaseDenied(p) ==
  /\ "sharing" \in Faults
  /\ Cardinality(Stopped) < MaxStops
  /\ \E from \in {"verified", "unlinked"} : ProcStep(p, from, "stopped")
  /\ UNCHANGED <<dir, history>>

\* The process dies.  Inside atomic_write_json it can leave its temporary
\* sibling of owner.json behind.
Crash(p) ==
  /\ Cardinality(Stopped) < MaxStops
  /\ \E from \in ProcStates \ {"idle", "stopped"} :
       /\ ProcStep(p, from, "stopped")
       /\ \/ UNCHANGED dir
          \/ /\ "debris" \in Faults /\ from = "created" /\ dir.present
             /\ dir' = [dir EXCEPT !.debris = TRUE]
  /\ UNCHANGED history

-----------------------------------------------------------------------------
(* recover_stale_writer_lock()                                             *)

\* The age, and nothing else.  The mutant does not look at it.
IsStale_Always(d) == d.present
IsStale(d) == d.present /\ d.old

\* _inspect_lock_path: anything but owner.json in the directory is unsafe, and
\* a missing owner.json is not.  The mutant refuses a missing owner too.
SafeToRecover_NeedsOwner(d) == d.present /\ ~d.debris /\ d.owner # Nobody
SafeToRecover(d) == d.present /\ ~d.debris

\* The inspection agrees with what the operator confirmed.
Matches(r, d) == SafeToRecover(d) /\ d.owner = confirmed[r]

\* The operator reads lock-status, of a lock stale or not, and passes its
\* digest and token on to recover-lock.
Observe(r) ==
  /\ SafeToRecover(dir)
  /\ confirmed' = [confirmed EXCEPT ![r] = dir.owner]
  /\ RecovererStep(r, "idle", "confirmed")
  /\ UNCHANGED <<dir, quarantine, history>>

\* The command's own inspection: any disagreement refuses.
Inspect(r) ==
  /\ RecovererStep(r, "confirmed",
       IF Matches(r, dir) /\ IsStale(dir) THEN "inspected" ELSE "idle")
  /\ UNCHANGED <<dir, quarantine, confirmed, history>>

\* os.replace takes whatever directory is there by now.
Quarantine(r) ==
  /\ dir' = NoDir
  /\ quarantine' = [quarantine EXCEPT ![r] = dir]
  /\ RecovererStep(r, "inspected", IF dir.present THEN "quarantined" ELSE "idle")
  /\ taken' = (taken \/ (dir.present /\ \E p \in Procs : InLock(p)))
  /\ UNCHANGED <<confirmed, strained>>

\* The second inspection.  Changed evidence is preserved, and the command fails.
Reinspect(r) ==
  /\ RecovererStep(r, "quarantined",
       IF Matches(r, quarantine[r]) THEN "matched" ELSE "idle")
  /\ UNCHANGED <<dir, quarantine, confirmed, history>>

RemoveQuarantine(r) ==
  /\ quarantine' = [quarantine EXCEPT ![r] = NoDir]
  /\ RecovererStep(r, "matched", "idle")
  /\ UNCHANGED <<dir, confirmed, history>>

\* Before os.replace a dying command has changed nothing; after it, the
\* quarantine stays where it is.
RecovererCrash(r) ==
  /\ "recoverer_crash" \in Faults
  /\ \E from \in {"quarantined", "matched"} : RecovererStep(r, from, "idle")
  /\ UNCHANGED <<dir, quarantine, confirmed, history>>

-----------------------------------------------------------------------------
ProcProgress(p) ==
  \/ MakeDir(p) \/ WriteOwner(p) \/ CleanUpFailedAcquire(p)
  \/ VerifyOwner(p) \/ UnlinkOwner(p) \/ RemoveDir(p)

ProcNext(p) ==
  \/ StartAcquire(p) \/ ProcProgress(p) \/ TimeOut(p)
  \/ MakeDirFails(p) \/ WriteOwnerFails(p) \/ ReleaseDenied(p) \/ Crash(p)

RecovererProgress(r) ==
  \/ Observe(r) \/ Inspect(r) \/ Quarantine(r) \/ Reinspect(r)
  \/ RemoveQuarantine(r)

Next ==
  \/ \E p \in Procs : ProcNext(p)
  \/ \E r \in Recoverers : RecovererProgress(r) \/ RecovererCrash(r)
  \/ GrowOld

Spec == Init /\ [][Next]_vars

(***************************************************************************)
(* A live process finishes what it started under the lock, time passes,    *)
(* and a stale lock is eventually inspected and recovered by its operator. *)
(***************************************************************************)
Fairness ==
  /\ \A p \in Procs : WF_vars(ProcProgress(p))
  /\ \A r \in Recoverers : WF_vars(RecovererProgress(r))
  /\ WF_vars(GrowOld)

FairSpec == Spec /\ Fairness

-----------------------------------------------------------------------------
(* Properties                                                              *)

InCriticalSection(p) == pc[p] \in {"holding", "verified"}

\* At most one process is between a successful acquire() and the unlinking
\* of its owner file: what every writer of the store relies on.
MutualExclusion ==
  \A p, q \in Procs : InCriticalSection(p) /\ InCriticalSection(q) => p = q

\* There is one way only to lose mutual exclusion, whatever fails, dies or runs
\* late: another command removed the directory of a process that was alive, in
\* the handler of a failed acquire() or in recover-lock.
ExclusiveUnlessTaken == taken \/ MutualExclusion

\* Until then the lock on disk names the process in its critical section, so
\* lock-status shows the true owner and its release cannot fail on the token.
RecordedUnlessTaken ==
  taken \/ \A p \in Procs : InCriticalSection(p) => dir.present /\ dir.owner = p

\* And a lock is only taken after a mkdir has failed otherwise than on a lock
\* that is held, or a live process has kept its lock past the limit: crashes, a
\* failed signature or a failed release are never enough, with one recovery at
\* a time.
TakenOnlyUnderStrain == taken => strained

\* A lock that is on disk is gone at some later time: a live owner releases
\* it and a dead one's is recovered.  The exception is a temporary file left
\* inside it, which no recover-lock accepts.
LockIsReturned == dir.present ~> (~dir.present \/ dir.debris)
=============================================================================
