---------------------------- MODULE StateDirLock ----------------------------
(***************************************************************************)
(* One writer per STATE_DIR: the lock file of                              *)
(* services/api/src/state/state-dir-lock.ts, which a process takes at      *)
(* boot, before it opens any store there, and gives back when it exits.    *)
(*                                                                         *)
(* A process is a host and a pid: one killed and started again under the   *)
(* same pid, as in a container, is the same process.  Each step between    *)
(* two system calls is a step of its own, for the processes share nothing  *)
(* but the directory.                                                      *)
(***************************************************************************)
EXTENDS Integers, FiniteSets

CONSTANTS
  Processes,
  HostOf,    \* the host of each
  NoOwner,
  MaxBoots,  \* bound: boots of a process
  Kills,     \* whether a process can die without running its exit handlers
  Overlap    \* whether two processes can boot at once

LockAssumption == /\ DOMAIN HostOf = Processes /\ NoOwner \notin Processes
                  /\ MaxBoots \in Nat /\ {Kills, Overlap} \subseteq BOOLEAN

VARIABLES
  lockFile,  \* the owner api.lock names
  proc,
  rivals     \* history: the processes up beside each since it booted

lockVars == <<lockFile, proc, rivals>>

-------------------------------------------------------------------------------
Down    == {"down", "refused", "foreign"}
Booting == {"linking", "reading", "judging", "removing"}

Up(p) == proc[p].pc \notin Down

Writers == {p \in Processes : proc[p].pc \in {"running", "releasing"}}

LockTypeOK ==
  /\ lockFile \in Processes \cup {NoOwner}
  /\ proc \in [Processes -> [pc : Down \cup Booting \cup {"running", "releasing"},
                             attempt : 0..1, holder : Processes \cup {NoOwner}, boots : 0..MaxBoots]]
  /\ rivals \in [Processes -> SUBSET Processes]

Init == /\ lockFile = NoOwner
        /\ proc = [p \in Processes |-> [pc |-> "down", attempt |-> 0, holder |-> NoOwner, boots |-> 0]]
        /\ rivals = [p \in Processes |-> {}]

-------------------------------------------------------------------------------
Goes(p, pc) == proc' = [proc EXCEPT ![p].pc = pc]

Boots(p) ==
  /\ ~Up(p) /\ proc[p].boots < MaxBoots
  /\ Overlap \/ \A q \in Processes : proc[q].pc \notin Booting
  /\ proc' = [proc EXCEPT ![p] = [pc |-> "linking", attempt |-> 0, holder |-> NoOwner,
                                  boots |-> @.boots + 1]]
  /\ rivals' = [q \in Processes |->
       IF q = p THEN {r \in Processes \ {p} : Up(r)}
       ELSE IF Up(q) THEN rivals[q] \cup {p} ELSE rivals[q]]
  /\ UNCHANGED lockFile

(* `linkSync`: the lock appears whole, under a name that was free. *)
Links(p) ==
  /\ proc[p].pc = "linking"
  /\ IF lockFile = NoOwner THEN Goes(p, "running") /\ lockFile' = p
     ELSE Goes(p, "reading") /\ UNCHANGED lockFile
  /\ UNCHANGED rivals

(* `readOwner`: a lock that is gone, or another host's, is not taken over. *)
Reads(p) ==
  /\ proc[p].pc = "reading"
  /\ IF lockFile = NoOwner THEN Goes(p, "refused")
     ELSE IF HostOf[lockFile] # HostOf[p] THEN Goes(p, "foreign")
     ELSE proc' = [proc EXCEPT ![p].pc = "judging", ![p].holder = lockFile]
  /\ UNCHANGED <<lockFile, rivals>>

(* Mutant of Stale: a pid that may not be signalled counts as dead. *)
StaleUnsignalled(p) == TRUE

(* Mutant of Stale: a holder with our own pid counts as alive. *)
StaleButOwn(p) == ~Up(proc[p].holder)

(* The holder is dead, or is this process before it was started again. *)
Stale(p) == proc[p].holder = p \/ ~Up(proc[p].holder)

Judges(p) ==
  /\ proc[p].pc = "judging"
  /\ Goes(p, IF Stale(p) /\ proc[p].attempt = 0 THEN "removing" ELSE "refused")
  /\ UNCHANGED <<lockFile, rivals>>

(* `rmSync`: whatever has the name by now goes. *)
Removes(p) ==
  /\ proc[p].pc = "removing"
  /\ lockFile' = NoOwner
  /\ proc' = [proc EXCEPT ![p] = [pc |-> "linking", attempt |-> 1, holder |-> @.holder,
                                  boots |-> @.boots]]
  /\ UNCHANGED rivals

(* `release`, when the process exits: the file is removed if it is still ours. *)
Releases(p) == /\ proc[p].pc = "running"
               /\ Goes(p, IF lockFile = p THEN "releasing" ELSE "down")
               /\ UNCHANGED <<lockFile, rivals>>

Unlinks(p) == /\ proc[p].pc = "releasing"
              /\ lockFile' = NoOwner
              /\ Goes(p, "down")
              /\ UNCHANGED rivals

Killed(p) == /\ Kills /\ Up(p)
             /\ Goes(p, "down")
             /\ UNCHANGED <<lockFile, rivals>>

Next == \E p \in Processes : \/ Boots(p) \/ Links(p) \/ Reads(p) \/ Judges(p) \/ Removes(p)
                             \/ Releases(p) \/ Unlinks(p) \/ Killed(p)

Spec == Init /\ [][Next]_lockVars

-------------------------------------------------------------------------------
(* "Two racing processes cannot both win" (state-dir-lock.ts:112): at most one
   process writes STATE_DIR. *)
OneWriter == \A p, q \in Writers : p = q

RefusedForARival ==
  \A p \in Processes : proc[p].pc = "refused" => rivals[p] # {}

(* A lock left behind never locks its own host out: a process that is refused
   a lock of its host had another up beside it since it booted
   (state-dir-lock.ts:19). *)
LockServes == LockTypeOK /\ RefusedForARival
===============================================================================
