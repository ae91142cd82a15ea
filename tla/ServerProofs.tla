----------------------------- MODULE ServerProofs -----------------------------
(***************************************************************************)
(* Proofs about what a server process keeps for everybody: the lock on its *)
(* directory (StateDirLock), the order books it reads (PerplBookFeed), the *)
(* sessions it answers (SignIn), the deposits it is told of                *)
(* (DepositWebhook) and the heads of the chain it tells of                 *)
(* (ConsensusHeads).  They share no state.                                 *)
(*                                                                         *)
(* The lock.  When processes boot one after the other it excludes:         *)
(* whatever their number, their hosts, and the kills and restarts between, *)
(* at most one writes STATE_DIR.  The run that boots two at once shows     *)
(* that this hypothesis cannot be dropped.  Without it, too, nobody is     *)
(* locked out by a lock left behind.                                       *)
(*                                                                         *)
(* The sessions.  For any devices, accounts and requests, any of the       *)
(* devices a browser, and every mishap, what a device holds and sends is   *)
(* its user's, a challenge is swapped once, and no device is in its own    *)
(* way.  A token reaches a device by an attempt to sign in or from the     *)
(* seal of its session, so each of these must name the account it is for   *)
(* before it does (FlightFits, SealFits); a request that waits must still  *)
(* be the user's who made it (CallFits); and a challenge that is           *)
(* outstanding was never swapped (ChallengesFit).                          *)
(*                                                                         *)
(* The deposits.  For any payloads, requests and room to remember, a       *)
(* transfer is logged once unless the memory of it was lost.  A key is     *)
(* remembered before its append and the log tells only after it, so what   *)
(* has to be kept is that a key the memory never lost has one append under *)
(* way at most, and then is remembered and not yet logged (MemoryFits),    *)
(* and that a request leaves nothing behind it unaccounted for             *)
(* (PassedFits), since an answer covers the whole payload.                 *)
(*                                                                         *)
(* The order books.  For any markets, clocks, budget and troubles, a book  *)
(* that a live stream vouches for misses no change.  What is kept is a     *)
(* chain from the book to the venue over the frames on their way: from the *)
(* moment a stream is mapped, each frame differs from the one before by    *)
(* the change it tells of (Chained), the last one from the venue by        *)
(* nothing (UpToDate), and between a reply and the snapshot it grants no   *)
(* change is told of (GrantsBring), so that a book either follows the      *)
(* chain or is about to be put on it (Synced).                             *)
(*                                                                         *)
(* The heads.  For any chain, window and troubles of the socket, what is   *)
(* told of a head is true.  A push and a reading wait while the chain      *)
(* moves on, and a block only gets further (HeightsGrow), so what they     *)
(* name was and still is as far as they say (PushesFit, ReadingFits); a    *)
(* record is made of nothing else (RecordFits), whose two ids may name     *)
(* different blocks, which is why only one of them vouches for its state.  *)
(***************************************************************************)
EXTENDS StateDirLock, PerplBookFeed, SignIn, DepositWebhook, ConsensusHeads, SequenceTheorems,
        FiniteSetTheorems, WellFoundedInduction, TLAPS

-------------------------------------------------------------------------------
(* The lock. *)

(* Whoever writes is named by the lock. *)
WriterIsNamed == \A p \in Writers : lockFile = p

(* One process at a time is between its start and its first write. *)
OneBoots == \A p, q \in Processes :
              proc[p].pc \in Booting /\ proc[q].pc \in Booting => p = q

(* What a booting process read of the lock is still what the lock says, or the
   lock is gone; and the one it is about to remove names nobody who is up. *)
ReadIsFresh ==
  \A p \in Processes :
    proc[p].pc \in {"judging", "removing"} =>
      /\ proc[p].holder \in Processes
      /\ lockFile \in {proc[p].holder, NoOwner}
      /\ proc[p].pc = "removing" => proc[p].holder = p \/ ~Up(proc[p].holder)

LockInv == LockTypeOK /\ WriterIsNamed /\ OneBoots /\ ReadIsFresh

-------------------------------------------------------------------------------
(* A step that only moves one process between points. *)
LEMMA GoesTyped ==
  ASSUME LockTypeOK, NEW p \in Processes,
         NEW pc \in Down \cup Booting \cup {"running", "releasing"}, Goes(p, pc)
  PROVE  /\ proc' \in [Processes -> [pc : Down \cup Booting \cup {"running", "releasing"},
                          attempt : 0..1, holder : Processes \cup {NoOwner}, boots : 0..MaxBoots]]
         /\ proc'[p].pc = pc /\ proc'[p].holder = proc[p].holder
         /\ \A q \in Processes \ {p} : proc'[q] = proc[q]
  BY DEF LockTypeOK, Goes

LEMMA InitHolds ==
  ASSUME LockAssumption, Init
  PROVE  LockInv
  BY DEF LockAssumption, Init, LockInv, LockTypeOK, WriterIsNamed, OneBoots, ReadIsFresh,
         Writers, Down, Booting, Up

LEMMA StepHolds ==
  ASSUME LockAssumption, ~Overlap, LockInv, Next
  PROVE  LockInv'
<1> USE DEF Down, Booting
<1>1. PICK p \in Processes : \/ Boots(p) \/ Links(p) \/ Reads(p) \/ Judges(p) \/ Removes(p)
                             \/ Releases(p) \/ Unlinks(p) \/ Killed(p)
  BY DEF Next
<1>2. LockTypeOK /\ NoOwner \notin Processes /\ p # NoOwner
  BY DEF LockInv, LockAssumption
<1>3. CASE Boots(p)
  <2>1. /\ \A q \in Processes : proc[q].pc \notin Booting
        /\ proc'[p].pc = "linking" /\ \A q \in Processes \ {p} : proc'[q] = proc[q]
        /\ ~Up(p) /\ lockFile' = lockFile
    BY <1>2, <1>3 DEF Boots, LockTypeOK
  <2>2. LockTypeOK'
    BY <1>2, <1>3 DEF Boots, LockTypeOK, LockAssumption, Up
  <2>3. WriterIsNamed' /\ OneBoots' /\ ReadIsFresh'
    BY <2>1, <1>2 DEF LockInv, WriterIsNamed, OneBoots, ReadIsFresh, Writers
  <2> QED BY <2>2, <2>3 DEF LockInv
<1>4. CASE Links(p)
  <2>1. CASE lockFile = NoOwner
    <3>1. Goes(p, "running") /\ lockFile' = p /\ rivals' = rivals /\ proc[p].pc = "linking"
      BY <1>4, <2>1 DEF Links
    <3>2. LockTypeOK'
      BY <1>2, <3>1, GoesTyped DEF LockTypeOK
    <3>3. \A q \in Processes : proc[q].pc \notin {"running", "releasing"}
      BY <1>2, <2>1 DEF LockInv, WriterIsNamed, Writers
    <3>4. \A q \in Processes \ {p} : proc[q].pc \notin Booting
      BY <3>1 DEF LockInv, OneBoots
    <3> QED
      BY <1>2, <3>1, <3>2, <3>3, <3>4, GoesTyped
         DEF LockInv, WriterIsNamed, OneBoots, ReadIsFresh, Writers
  <2>2. CASE lockFile # NoOwner
    <3>1. Goes(p, "reading") /\ UNCHANGED <<lockFile, rivals>> /\ proc[p].pc = "linking"
      BY <1>4, <2>2 DEF Links
    <3>2. LockTypeOK'
      BY <1>2, <3>1, GoesTyped DEF LockTypeOK
    <3>3. WriterIsNamed' /\ OneBoots'
      BY <1>2, <3>1, GoesTyped DEF LockInv, WriterIsNamed, OneBoots, Writers
    <3>4. ReadIsFresh'
      <4>1. \A q \in Processes \ {p} : proc[q].pc \notin Booting
        BY <3>1 DEF LockInv, OneBoots
      <4> QED BY <1>2, <3>1, <4>1, GoesTyped DEF ReadIsFresh
    <3> QED BY <3>2, <3>3, <3>4 DEF LockInv
  <2> QED BY <2>1, <2>2
<1>5. CASE Reads(p)
  <2>1. /\ proc'[p].pc \in {"refused", "foreign", "judging"} /\ proc[p].pc = "reading"
        /\ UNCHANGED <<lockFile, rivals>> /\ \A q \in Processes \ {p} : proc'[q] = proc[q]
        /\ proc'[p].pc = "judging" => proc'[p].holder = lockFile /\ lockFile # NoOwner
    BY <1>2, <1>5 DEF Reads, Goes, LockTypeOK
  <2>2. LockTypeOK'
    BY <1>2, <1>5 DEF Reads, Goes, LockTypeOK
  <2>3. \A q \in Processes \ {p} : proc[q].pc \notin Booting
    BY <2>1 DEF LockInv, OneBoots
  <2> QED
    BY <1>2, <2>1, <2>2, <2>3
       DEF LockInv, LockTypeOK, WriterIsNamed, OneBoots, ReadIsFresh, Writers
<1>6. CASE Judges(p)
  <2>1. /\ proc[p].pc = "judging" /\ UNCHANGED <<lockFile, rivals>>
        /\ proc'[p].pc \in {"refused", "removing"} /\ proc'[p].holder = proc[p].holder
        /\ \A q \in Processes \ {p} : proc'[q] = proc[q]
        /\ proc'[p].pc = "removing" => Stale(p)
    BY <1>2, <1>6 DEF Judges, Goes, LockTypeOK
  <2>2. LockTypeOK'
    BY <1>2, <1>6 DEF Judges, Goes, LockTypeOK
  <2>3. \A q \in Processes \ {p} : proc[q].pc \notin Booting
    BY <2>1 DEF LockInv, OneBoots
  <2>4. WriterIsNamed' /\ OneBoots'
    BY <2>1, <2>3 DEF LockInv, WriterIsNamed, OneBoots, Writers
  <2>5. ReadIsFresh'
    <3>1. /\ proc[p].holder \in Processes
          /\ lockFile \in {proc[p].holder, NoOwner}
      BY <2>1 DEF LockInv, ReadIsFresh
    <3>2. proc[p].holder = p \/ proc'[proc[p].holder] = proc[proc[p].holder]
      BY <2>1, <3>1
    <3> QED BY <2>1, <2>3, <3>1, <3>2 DEF ReadIsFresh, Stale, Up
  <2> QED BY <2>2, <2>4, <2>5 DEF LockInv
<1>7. CASE Removes(p)
  <2>1. /\ proc[p].pc = "removing" /\ lockFile' = NoOwner /\ rivals' = rivals
        /\ proc'[p].pc = "linking" /\ \A q \in Processes \ {p} : proc'[q] = proc[q]
    BY <1>2, <1>7 DEF Removes, LockTypeOK
  <2>2. LockTypeOK'
    BY <1>2, <1>7 DEF Removes, LockTypeOK
  <2>3. Writers = {}
    <3>1. SUFFICES ASSUME NEW w \in Writers PROVE FALSE
      OBVIOUS
    <3>2. w \in Processes /\ lockFile = w /\ w # NoOwner /\ w # p /\ Up(w)
      BY <1>2, <2>1 DEF LockInv, WriterIsNamed, Writers, Up
    <3>3. w = proc[p].holder
      BY <2>1, <3>2 DEF LockInv, ReadIsFresh
    <3> QED BY <2>1, <3>2, <3>3 DEF LockInv, ReadIsFresh
  <2>4. \A q \in Processes \ {p} : proc[q].pc \notin Booting
    BY <2>1 DEF LockInv, OneBoots
  <2>5. WriterIsNamed'
    BY <2>1, <2>3 DEF WriterIsNamed, Writers
  <2>6. OneBoots' /\ ReadIsFresh'
    BY <2>1, <2>4 DEF OneBoots, ReadIsFresh
  <2> QED BY <2>2, <2>5, <2>6 DEF LockInv
<1>8. CASE Releases(p) \/ Killed(p)
  <2>1. /\ UNCHANGED <<lockFile, rivals>> /\ \A q \in Processes \ {p} : proc'[q] = proc[q]
        /\ proc'[p].pc \in {"down", "releasing"}
        /\ proc'[p].pc = "releasing" => p \in Writers
        /\ Up(p)
    BY <1>2, <1>8 DEF Releases, Killed, Goes, LockTypeOK, Writers, Up
  <2>2. LockTypeOK'
    BY <1>2, <1>8 DEF Releases, Killed, Goes, LockTypeOK
  <2>3. WriterIsNamed' /\ OneBoots'
    BY <2>1 DEF LockInv, WriterIsNamed, OneBoots, Writers
  <2>4. ReadIsFresh'
    <3>1. ASSUME NEW q \in Processes, proc'[q].pc \in {"judging", "removing"}
          PROVE  /\ q # p /\ proc'[q] = proc[q] /\ proc[q].holder \in Processes
                 /\ lockFile \in {proc[q].holder, NoOwner}
                 /\ proc[q].pc = "removing" => proc[q].holder = q \/ ~Up(proc[q].holder)
      BY <2>1, <3>1 DEF LockInv, ReadIsFresh
    <3>2. ASSUME NEW h \in Processes, ~Up(h) PROVE ~Up(h)'
      BY <2>1, <3>2 DEF Up
    <3> QED BY <2>1, <3>1, <3>2 DEF ReadIsFresh, Up
  <2> QED BY <2>2, <2>3, <2>4 DEF LockInv
<1>9. CASE Unlinks(p)
  <2>1. /\ proc[p].pc = "releasing" /\ lockFile' = NoOwner /\ rivals' = rivals
        /\ proc'[p].pc = "down" /\ \A q \in Processes \ {p} : proc'[q] = proc[q]
    BY <1>2, <1>9 DEF Unlinks, Goes, LockTypeOK
  <2>2. LockTypeOK'
    BY <1>2, <1>9 DEF Unlinks, Goes, LockTypeOK
  <2>3. \A w \in Writers : w = p
    BY <2>1, <1>2 DEF LockInv, WriterIsNamed, Writers
  <2>4. WriterIsNamed'
    BY <2>1, <2>3 DEF WriterIsNamed, Writers
  <2>5. OneBoots'
    BY <2>1 DEF LockInv, OneBoots
  <2>6. ReadIsFresh'
    <3>1. ASSUME NEW q \in Processes, proc'[q].pc \in {"judging", "removing"}
          PROVE  /\ q # p /\ proc'[q] = proc[q] /\ proc[q].holder \in Processes
                 /\ proc[q].pc = "removing" => proc[q].holder = q \/ ~Up(proc[q].holder)
      BY <2>1, <3>1 DEF LockInv, ReadIsFresh
    <3>2. ASSUME NEW h \in Processes, ~Up(h) PROVE ~Up(h)'
      BY <2>1, <3>2 DEF Up
    <3> QED BY <2>1, <3>1, <3>2 DEF ReadIsFresh, Up
  <2> QED BY <2>2, <2>4, <2>5, <2>6 DEF LockInv
<1> QED BY <1>1, <1>3, <1>4, <1>5, <1>6, <1>7, <1>8, <1>9

-------------------------------------------------------------------------------
(* `acquireStateDirLock`: if no two processes boot at the same time, at most
   one holds STATE_DIR, through any kills, restarts under the same pid, and
   locks left behind. *)
THEOREM OneWriterAtATime ==
  ASSUME LockAssumption, ~Overlap
  PROVE  Spec => []OneWriter
<1>1. Init => LockInv
  BY InitHolds
<1>2. LockInv /\ [Next]_lockVars => LockInv'
  <2>1. CASE UNCHANGED lockVars
    BY <2>1 DEF lockVars, LockInv, LockTypeOK, WriterIsNamed, OneBoots, ReadIsFresh, Writers, Up
  <2> QED BY <2>1, StepHolds
<1>3. LockInv => OneWriter
  BY DEF LockInv, WriterIsNamed, OneWriter
<1> QED BY <1>1, <1>2, <1>3, PTL DEF Spec
-------------------------------------------------------------------------------
(* A process that is up beside another has it for a rival, or was up before it. *)
RivalsAreMet ==
  \A p, q \in Processes : Up(p) /\ Up(q) /\ p # q => q \in rivals[p]

(* A lock that goes, or comes back, while p boots is the work of a rival:
   nothing but p's own removal of a stale lock comes between. *)
LostToARival(p) ==
  /\ proc[p].pc = "reading" /\ lockFile = NoOwner => rivals[p] # {}
  /\ proc[p].pc \in Booting /\ proc[p].attempt = 1 => lockFile \in rivals[p] \cup {NoOwner}
  /\ proc[p].pc = "judging" => proc[p].holder \in Processes
  /\ proc[p].pc = "judging" /\ proc[p].attempt = 1 => proc[p].holder \in rivals[p]

RivalInv == /\ LockTypeOK /\ RivalsAreMet /\ RefusedForARival
            /\ \A p \in Processes : LostToARival(p)

LEMMA StepTyped ==
  ASSUME LockAssumption, LockTypeOK, Next
  PROVE  LockTypeOK'
<1> USE DEF Down, Booting
<1>1. PICK p \in Processes : \/ Boots(p) \/ Links(p) \/ Reads(p) \/ Judges(p) \/ Removes(p)
                             \/ Releases(p) \/ Unlinks(p) \/ Killed(p)
  BY DEF Next
<1>2. CASE Boots(p)
  BY <1>2 DEF Boots, LockTypeOK, LockAssumption, Up
<1>3. CASE Links(p)
  BY <1>3, GoesTyped DEF Links, LockTypeOK
<1>4. CASE Reads(p)
  BY <1>4 DEF Reads, Goes, LockTypeOK
<1>5. CASE Judges(p)
  BY <1>5 DEF Judges, Goes, LockTypeOK
<1>6. CASE Removes(p)
  BY <1>6 DEF Removes, LockTypeOK
<1>7. CASE Releases(p) \/ Unlinks(p) \/ Killed(p)
  BY <1>7 DEF Releases, Unlinks, Killed, Goes, LockTypeOK
<1> QED BY <1>1, <1>2, <1>3, <1>4, <1>5, <1>6, <1>7

(* A step of p changes nothing of another process. *)
LEMMA StepIsOwn ==
  ASSUME LockTypeOK, NEW p \in Processes,
         \/ Boots(p) \/ Links(p) \/ Reads(p) \/ Judges(p) \/ Removes(p)
         \/ Releases(p) \/ Unlinks(p) \/ Killed(p)
  PROVE  \A q \in Processes \ {p} : proc'[q] = proc[q]
BY DEF LockTypeOK, Boots, Links, Reads, Judges, Removes, Releases, Unlinks, Killed, Goes

(* A process already up gets no fewer rivals by a boot of another, and that
   other among them. *)
LEMMA RivalsGrow ==
  ASSUME LockTypeOK, NEW p \in Processes, Boots(p)
  PROVE  /\ \A q \in Processes \ {p} : rivals[q] \subseteq rivals'[q]
         /\ \A q \in Processes \ {p} : Up(q) => p \in rivals'[q] /\ q \in rivals'[p]
BY DEF LockTypeOK, Boots

LEMMA RivalStep ==
  ASSUME LockAssumption, RivalInv, Next
  PROVE  RivalInv'
<1> USE DEF Down, Booting
<1>1. PICK p \in Processes : \/ Boots(p) \/ Links(p) \/ Reads(p) \/ Judges(p) \/ Removes(p)
                             \/ Releases(p) \/ Unlinks(p) \/ Killed(p)
  BY DEF Next
<1>2. /\ LockTypeOK /\ LockTypeOK' /\ NoOwner \notin Processes /\ p # NoOwner
      /\ \A q \in Processes \ {p} : proc'[q] = proc[q]
  BY <1>1, StepTyped, StepIsOwn DEF RivalInv, LockAssumption
<1>3. CASE Boots(p)
  <2>1. /\ proc'[p].pc = "linking" /\ proc'[p].attempt = 0 /\ lockFile' = lockFile
        /\ ~Up(p)
    BY <1>2, <1>3 DEF Boots, LockTypeOK
  <2>2. RivalsAreMet'
    BY <1>2, <1>3, <2>1, RivalsGrow DEF RivalInv, RivalsAreMet, Up
  <2>3. RefusedForARival'
    BY <1>2, <1>3, <2>1, RivalsGrow DEF RivalInv, RefusedForARival
  <2>4. \A q \in Processes : LostToARival(q)'
    BY <1>2, <1>3, <2>1, RivalsGrow DEF RivalInv, LostToARival
  <2> QED BY <1>2, <2>2, <2>3, <2>4 DEF RivalInv
<1>4. ASSUME ~Boots(p)
      PROVE  rivals' = rivals /\ Up(p)
  BY <1>1, <1>4 DEF Links, Reads, Judges, Removes, Releases, Unlinks, Killed, Up
<1>5. ASSUME ~Boots(p)
      PROVE  RivalsAreMet'
  <2>1. \A q \in Processes : Up(q)' => Up(q)
    BY <1>2, <1>4, <1>5 DEF Up
  <2> QED BY <1>4, <1>5, <2>1 DEF RivalInv, RivalsAreMet
<1>6. ASSUME ~Boots(p), NEW q \in Processes, q # p
      PROVE  LostToARival(q)'
  <2>1. lockFile' \in {lockFile, NoOwner, p}
    BY <1>1, <1>6 DEF Links, Reads, Judges, Removes, Releases, Unlinks, Killed
  <2>2. proc[q].pc \in Booting => p \in rivals[q]
    BY <1>4, <1>6 DEF RivalInv, RivalsAreMet, Up
  <2>3. LostToARival(q) /\ proc'[q] = proc[q] /\ rivals'[q] = rivals[q]
    BY <1>2, <1>4, <1>6 DEF RivalInv
  <2> QED BY <2>1, <2>2, <2>3 DEF LostToARival
<1>7. ASSUME ~Boots(p)
      PROVE  LostToARival(p)' /\ (proc'[p].pc = "refused" => rivals[p] # {})
  <2>1. LostToARival(p) /\ rivals'[p] = rivals[p]
    BY <1>4, <1>7 DEF RivalInv
  <2>2. CASE Links(p)
    <3>1. /\ proc'[p].pc \in {"running", "reading"}
          /\ proc'[p].pc = "reading" => lockFile' = lockFile /\ lockFile # NoOwner
          /\ proc'[p].attempt = proc[p].attempt /\ proc[p].pc = "linking"
      BY <1>2, <2>2 DEF Links, Goes, LockTypeOK
    <3> QED BY <2>1, <3>1 DEF LostToARival
  <2>3. CASE Reads(p)
    <3>1. /\ proc'[p].pc \in {"refused", "foreign", "judging"} /\ proc[p].pc = "reading"
          /\ proc'[p].pc = "judging" => proc'[p].holder = lockFile /\ lockFile # NoOwner
          /\ proc'[p].pc = "refused" => lockFile = NoOwner
          /\ proc'[p].attempt = proc[p].attempt /\ lockFile' = lockFile
      BY <1>2, <2>3 DEF Reads, Goes, LockTypeOK
    <3> QED BY <1>2, <2>1, <3>1 DEF LostToARival, LockTypeOK
  <2>4. CASE Judges(p)
    <3>1. /\ proc'[p].pc \in {"refused", "removing"} /\ proc[p].pc = "judging"
          /\ proc'[p].pc = "refused" => proc[p].attempt = 1 \/ ~Stale(p)
          /\ proc'[p].attempt = proc[p].attempt /\ lockFile' = lockFile
      BY <1>2, <2>4 DEF Judges, Goes, LockTypeOK
    <3>2. ~Stale(p) => proc[p].holder \in rivals[p]
      BY <1>4, <1>7, <2>1, <3>1 DEF Stale, RivalInv, RivalsAreMet, LostToARival
    <3> QED BY <2>1, <3>1, <3>2 DEF LostToARival
  <2>5. CASE Removes(p)
    <3>1. proc'[p].pc = "linking" /\ lockFile' = NoOwner
      BY <1>2, <2>5 DEF Removes, LockTypeOK
    <3> QED BY <3>1 DEF LostToARival
  <2>6. CASE Releases(p) \/ Unlinks(p) \/ Killed(p)
    <3>1. proc'[p].pc \in {"down", "releasing"}
      BY <1>2, <2>6 DEF Releases, Unlinks, Killed, Goes, LockTypeOK
    <3> QED BY <3>1 DEF LostToARival
  <2> QED BY <1>1, <1>7, <2>2, <2>3, <2>4, <2>5, <2>6
<1>8. ASSUME ~Boots(p)
      PROVE  RefusedForARival'
  BY <1>2, <1>4, <1>7, <1>8 DEF RivalInv, RefusedForARival
<1> QED BY <1>2, <1>3, <1>5, <1>6, <1>7, <1>8 DEF RivalInv

(* `acquireStateDirLock`: whatever boots, dies and is started again, two at
   once or one after the other, a process that is refused the lock of its host
   had another process up beside it.  A lock its owner left behind, even one
   with its own pid, keeps nobody out. *)
THEOREM NobodyIsLockedOut ==
  ASSUME LockAssumption
  PROVE  Spec => []LockServes
<1>1. Init => RivalInv
  BY DEF LockAssumption, Init, RivalInv, LockTypeOK, RivalsAreMet, LostToARival, RefusedForARival,
         Down, Booting, Up
<1>2. RivalInv /\ [Next]_lockVars => RivalInv'
  <2>1. CASE UNCHANGED lockVars
    BY <2>1 DEF lockVars, RivalInv, LockTypeOK, RivalsAreMet, LostToARival, RefusedForARival, Up
  <2> QED BY <2>1, RivalStep
<1>3. RivalInv => LockServes
  BY DEF RivalInv, LockServes
<1> QED BY <1>1, <1>2, <1>3, PTL DEF Spec

-------------------------------------------------------------------------------
(* The sessions. *)

(* An attempt under way signs for an account; what it was issued, or got, is
   that account's. *)
FlightOK(f, d) ==
  /\ f.pc # "idle" => f.signer \in Accounts
  /\ f.pc \in {"presenting", "minted"} =>
       f.nonce \in DOMAIN issued /\ issued[f.nonce] = [of |-> f.signer, to |-> d]
  /\ f.token # NoToken => f.token.of = f.signer

FlightFits == \A d \in Devices : FlightOK(flight[d], d)

(* A browser's seal is its session's, and so is the token kept beside it, or about
   to be, under the key of the session; every key is a new one. *)
SealOK(s, d) ==
  /\ s.id <= switches /\ s.saving <= switches
  /\ s.id # 0 => d \in Web
  /\ d \in Web => s.of = who[d]
  /\ s.id # 0 /\ s.copyOf = s.id /\ s.copy # NoToken => s.copy.of = s.of
  /\ s.id # 0 /\ s.saving = s.id /\ s.save # NoToken => s.save.of = s.of

SealFits == \A d \in Devices : SealOK(seal[d], d)

(* An open request was made by whoever is signed in, unless they switched. *)
CallFits ==
  \A c \in Calls : Open(c) /\ ~call[c].switched => call[c].by = who[CallsOf[c]]

(* An outstanding challenge is its account's and was not swapped; nor was one that
   is not issued yet. *)
ChallengesFit ==
  /\ Len(issued) <= MaxChallenges
  /\ \A a \in Accounts : challenge[a] # NoChallenge =>
       /\ challenge[a] \in DOMAIN issued /\ issued[challenge[a]].of = a
       /\ minted[challenge[a]] = 0
  /\ \A n \in 1..MaxChallenges : n > Len(issued) => minted[n] = 0

Inv == /\ SignInTypeOK /\ FlightFits /\ SealFits /\ CallFits /\ ChallengesFit
       /\ TokensNameTheUser /\ ChallengesAreSpent /\ NobodyAbandonsTheirOwn

-------------------------------------------------------------------------------

(* The values the variables take. *)
LEMMA Values ==
  ASSUME SignInAssumption, SignInTypeOK
  PROVE  /\ NoToken \in Tokens /\ \A a \in Accounts : Token(a) \in Tokens
         /\ NoFlight \in Flights /\ Unasked \in Asked
<1>1. NoToken \in Tokens /\ \A a \in Accounts : Token(a) \in Tokens
  BY DEF SignInTypeOK, NoToken, Token, Tokens
<1>2. NoFlight \in Flights  BY <1>1 DEF NoFlight, Flights, SignInAssumption
<1>3. Unasked \in Asked     BY <1>1 DEF Unasked, Asked
<1> QED  BY <1>1, <1>2, <1>3

LEMMA JoinIsTyped ==
  ASSUME SignInAssumption, SignInTypeOK, NEW d \in Devices, Joins(d)
  PROVE  flight' \in [Devices -> Flights] /\ mayReuse' \in [Devices -> BOOLEAN]
<1>1. CASE Taken(d)
  BY <1>1 DEF Joins, SignInTypeOK
<1>2. CASE ~Taken(d)
  <2> DEFINE f == [NoFlight EXCEPT !.pc = IF mayReuse[d] THEN "loading" ELSE "asking", !.signer = who[d]]
  <2>1. f \in Flights  BY Values DEF Flights, SignInTypeOK
  <2>2. flight' = [flight EXCEPT ![d] = f] /\ mayReuse' = [mayReuse EXCEPT ![d] = FALSE]
    BY <1>2 DEF Joins
  <2> HIDE DEF f
  <2> QED  BY <2>1, <2>2 DEF SignInTypeOK
<1> QED  BY <1>1, <1>2

LEMMA LandingIsTyped ==
  ASSUME SignInAssumption, SignInTypeOK, NEW d \in Devices, NEW t \in Tokens, Lands(d, t)
  PROVE  flight' \in [Devices -> Flights] /\ token' \in [Devices -> Tokens] /\ call' \in [Calls -> Asked]
<1> DEFINE settled == Settled(d, t)
<1>1. settled \in Tokens  BY Values DEF Settled
<1>2. /\ flight' = [flight EXCEPT ![d] = NoFlight]
      /\ token' = IF settled = NoToken THEN token ELSE [token EXCEPT ![d] = settled]
      /\ call' = [c \in Calls |->
          IF c \in On(d) /\ call[c].pc \in {"waiting", "again"}
          THEN [call[c] EXCEPT !.pc = IF settled = NoToken THEN "refused" ELSE "last", !.with = settled]
          ELSE call[c]]
  BY DEF Lands
<1> HIDE DEF settled
<1>3. token' \in [Devices -> Tokens]    BY <1>1, <1>2 DEF SignInTypeOK
<1>4. flight' \in [Devices -> Flights]  BY <1>2, Values DEF SignInTypeOK
<1>5. call' \in [Calls -> Asked]
  <2>1. ASSUME NEW c \in Calls, NEW pc \in {"refused", "last"}
        PROVE  [call[c] EXCEPT !.pc = pc, !.with = settled] \in Asked
    <3>1. call[c] \in Asked  BY DEF SignInTypeOK
    <3> QED  BY ONLY <1>1, <3>1, pc \in {"refused", "last"} DEF Asked
  <2>2. ASSUME NEW c \in Calls PROVE call'[c] \in Asked
    <3>1. call[c] \in Asked  BY DEF SignInTypeOK
    <3>2. CASE c \in On(d) /\ call[c].pc \in {"waiting", "again"}
      <4>1. PICK pc \in {"refused", "last"} : call'[c] = [call[c] EXCEPT !.pc = pc, !.with = settled]
        BY <1>2, <3>2
      <4> QED  BY <2>1, <4>1
    <3>3. CASE ~(c \in On(d) /\ call[c].pc \in {"waiting", "again"})
      BY <1>2, <3>1, <3>3
    <3> QED  BY <3>2, <3>3
  <2>3. call' = [c \in Calls |-> call'[c]]  BY <1>2
  <2> HIDE DEF Asked
  <2> QED  BY ONLY <2>2, <2>3
<1> QED  BY <1>3, <1>4, <1>5

(* The nonce of an attempt is that of a challenge issued for it. *)
LEMMA NonceFits ==
  ASSUME SignInAssumption, SignInTypeOK, FlightFits, ChallengesFit,
         NEW d \in Devices, flight[d].pc \in {"presenting", "minted"}
  PROVE  /\ flight[d].signer \in Accounts
         /\ flight[d].nonce \in DOMAIN issued /\ flight[d].nonce \in 1..MaxChallenges
         /\ issued[flight[d].nonce] = [of |-> flight[d].signer, to |-> d]
<1>1. FlightOK(flight[d], d)  BY DEF FlightFits
<1>2. Len(issued) <= MaxChallenges /\ Len(issued) \in Nat /\ DOMAIN issued = 1..Len(issued)
  BY DEF ChallengesFit, SignInTypeOK
<1> QED  BY <1>1, <1>2 DEF FlightOK, SignInAssumption

(* The type invariant is inductive. *)
LEMMA TypesHold ==
  ASSUME SignInAssumption, SignInTypeOK, FlightFits, ChallengesFit, [SignInNext]_signInVars
  PROVE  SignInTypeOK'
<1> USE Values
<1>1. CASE Forgets
  <2>1. challenge' \in [Accounts -> 0..MaxChallenges]
    BY <1>1 DEF SignInTypeOK, Forgets, NoChallenge, SignInAssumption
  <2> QED  BY <1>1, <2>1 DEF SignInTypeOK, Forgets, Mishap, SignInAssumption
<1>2. CASE Rotates
  BY <1>2 DEF SignInTypeOK, Rotates, Mishap, SignInAssumption
<1>3. ASSUME NEW d \in Devices, NEW a \in Accounts \cup {Nobody}, Switches(d, a) PROVE SignInTypeOK'
  <2>1. seal' \in [Devices -> Seals]
    <3>1. CASE d \in Web
      <4> DEFINE s == [seal[d] EXCEPT !.id = IF a = Nobody THEN 0 ELSE switches + 1, !.of = a,
                                      !.copyOf = 0, !.copy = NoToken]
      <4>0. seal[d] \in Seals /\ switches + 1 \in Nat  BY DEF SignInTypeOK, SignInAssumption
      <4>1. s \in Seals                      BY <4>0 DEF Seals
      <4>2. seal' = [seal EXCEPT ![d] = s]   BY <1>3, <3>1 DEF Switches, SignInTypeOK, Seals
      <4> HIDE DEF s
      <4> QED  BY <4>1, <4>2 DEF SignInTypeOK
    <3> QED  BY <1>3, <3>1 DEF SignInTypeOK, Switches
  <2>2. call' \in [Calls -> Asked]
    BY <1>3 DEF SignInTypeOK, Switches, Asked
  <2>3. switches' \in 0..MaxSwitches /\ switches' = switches + 1
    BY <1>3 DEF SignInTypeOK, Switches, SignInAssumption
  <2>4. /\ who' \in [Devices -> Accounts \cup {Nobody}] /\ token' \in [Devices -> Tokens]
        /\ mayReuse' \in [Devices -> BOOLEAN]
    BY <1>3 DEF SignInTypeOK, Switches
  <2>5. UNCHANGED <<flight, mishaps, challenge, issued, minted, secret>>
    BY <1>3 DEF Switches, ServerKeeps
  <2> QED  BY ONLY SignInTypeOK, <2>1, <2>2, <2>3, <2>4, <2>5 DEF SignInTypeOK
<1>4. ASSUME NEW d \in Devices, Reloads(d) PROVE SignInTypeOK'
  <2>1. seal' \in [Devices -> Seals] /\ seal[d].of \in Accounts \cup {Nobody}
    <3> DEFINE s == [seal[d] EXCEPT !.saving = 0, !.save = NoToken]
    <3>0. seal[d] \in Seals                 BY DEF SignInTypeOK
    <3>1. s \in Seals /\ seal[d].of \in Accounts \cup {Nobody}
      BY ONLY Values, SignInAssumption, SignInTypeOK, <3>0 DEF Seals
    <3>2. seal' = [seal EXCEPT ![d] = s]   BY <1>4 DEF Reloads
    <3> HIDE DEF s
    <3> QED  BY <3>1, <3>2 DEF SignInTypeOK
  <2>2. call' \in [Calls -> Asked]
    BY <1>4 DEF SignInTypeOK, Reloads
  <2> QED  BY <1>4, <2>1, <2>2 DEF SignInTypeOK, Reloads, ServerKeeps, SignInAssumption
<1>5. ASSUME NEW d \in Devices, SignsIn(d) PROVE SignInTypeOK'
  BY <1>5, JoinIsTyped DEF SignInTypeOK, SignsIn, ServerKeeps
<1>6. ASSUME NEW d \in Devices, Loads(d) PROVE SignInTypeOK'
  <2>1. Unsealed(d) \in Tokens           BY DEF Unsealed, SignInTypeOK, Seals
  <2>2. flight' \in [Devices -> Flights]
    <3> DEFINE f == [flight[d] EXCEPT !.pc = IF Unsealed(d) = NoToken THEN "asking" ELSE "loaded",
                                      !.token = Unsealed(d)]
    <3>1. f \in Flights                        BY <2>1 DEF SignInTypeOK, Flights
    <3>2. flight' = [flight EXCEPT ![d] = f]   BY <1>6 DEF Loads
    <3> HIDE DEF f
    <3> QED  BY <3>1, <3>2 DEF SignInTypeOK
  <2> QED  BY <1>6, <2>2 DEF SignInTypeOK, Loads, ServerKeeps
<1>7. ASSUME NEW d \in Devices, Challenges(d) PROVE SignInTypeOK'
  <2>1. flight[d].signer \in Accounts /\ Len(issued) + 1 \in 1..MaxChallenges
    BY <1>7 DEF Challenges, FlightFits, FlightOK, SignInTypeOK, SignInAssumption
  <2>2. flight' \in [Devices -> Flights]
    <3> DEFINE f == [flight[d] EXCEPT !.pc = "presenting", !.nonce = Len(issued) + 1]
    <3>0. Len(issued) + 1 \in 0..MaxChallenges  BY <2>1 DEF SignInAssumption
    <3>1. f \in Flights                        BY <3>0 DEF SignInTypeOK, Flights
    <3>2. flight' = [flight EXCEPT ![d] = f]   BY <1>7 DEF Challenges, SignInTypeOK, Flights
    <3> HIDE DEF f
    <3> QED  BY <3>1, <3>2 DEF SignInTypeOK
  <2>3. issued' \in Seq([of : Accounts, to : Devices])
    BY <1>7, <2>1 DEF SignInTypeOK, Challenges
  <2>4. challenge' \in [Accounts -> 0..MaxChallenges]
    BY <1>7, <2>1 DEF SignInTypeOK, Challenges, SignInAssumption
  <2> QED  BY <1>7, <2>2, <2>3, <2>4 DEF SignInTypeOK, Challenges
<1>8. ASSUME NEW d \in Devices, Presents(d) PROVE SignInTypeOK'
  <2>1. flight[d].signer \in Accounts
    BY <1>8 DEF Presents, FlightFits, FlightOK
  <2>2. challenge' \in [Accounts -> 0..MaxChallenges]
    BY <1>8, <2>1 DEF SignInTypeOK, Presents, Spent, NoChallenge, SignInAssumption
  <2>3. CASE challenge[flight[d].signer] = flight[d].nonce
    <3>1. minted' \in [1..MaxChallenges -> Nat]
      BY <1>8, <2>3 DEF SignInTypeOK, Presents
    <3>2. flight' \in [Devices -> Flights]
      <4> DEFINE f == [flight[d] EXCEPT !.pc = "minted", !.token = Token(flight[d].signer)]
      <4>1. f \in Flights                        BY <2>1 DEF SignInTypeOK, Flights
      <4>2. flight' = [flight EXCEPT ![d] = f]
        BY <1>8, <2>3 DEF Presents, SignInTypeOK, Flights
      <4> HIDE DEF f
      <4> QED  BY <4>1, <4>2 DEF SignInTypeOK
    <3> QED  BY <1>8, <2>2, <2>3, <3>1, <3>2 DEF SignInTypeOK, Presents
  <2>4. CASE challenge[flight[d].signer] # flight[d].nonce
    BY <1>8, <2>2, <2>4, LandingIsTyped DEF SignInTypeOK, Presents
  <2> QED  BY <2>3, <2>4
<1>9. ASSUME NEW d \in Devices, Repeats(d) PROVE SignInTypeOK'
  <2>1. flight[d].signer \in Accounts /\ flight[d].nonce \in 1..MaxChallenges
    BY <1>9, NonceFits DEF Repeats
  <2>2. challenge' \in [Accounts -> 0..MaxChallenges]
    BY <1>9, <2>1 DEF SignInTypeOK, Repeats, Spent, NoChallenge, SignInAssumption
  <2>3. minted' \in [1..MaxChallenges -> Nat]
    BY <1>9, <2>1 DEF SignInTypeOK, Repeats
  <2>4. mishaps' \in 0..MaxMishaps
    BY <1>9 DEF SignInTypeOK, Repeats, Mishap, SignInAssumption
  <2>5. UNCHANGED <<who, token, mayReuse, flight, seal, call, issued, secret, switches>>
    BY <1>9 DEF Repeats
  <2> QED  BY ONLY SignInTypeOK, <2>2, <2>3, <2>4, <2>5 DEF SignInTypeOK
<1>10. ASSUME NEW d \in Devices, Arrives(d) PROVE SignInTypeOK'
  <2>1. flight[d].token \in Tokens  BY DEF SignInTypeOK, Flights
  <2>2. seal' \in [Devices -> Seals]
    <3> DEFINE s == [seal[d] EXCEPT !.saving = seal[d].id, !.save = flight[d].token]
    <3>0. seal[d] \in Seals  BY DEF SignInTypeOK
    <3>1. s \in Seals  BY ONLY <2>1, <3>0 DEF Seals
    <3>2. seal' = [seal EXCEPT ![d] = s] \/ seal' = seal  BY <1>10 DEF Arrives
    <3> HIDE DEF s
    <3> QED  BY <3>1, <3>2 DEF SignInTypeOK
  <2>3. Lands(d, flight[d].token)  BY <1>10 DEF Arrives
  <2>4. flight' \in [Devices -> Flights] /\ token' \in [Devices -> Tokens] /\ call' \in [Calls -> Asked]
    BY <2>1, <2>3, LandingIsTyped
  <2>5. UNCHANGED <<who, mayReuse, switches, mishaps, challenge, issued, minted, secret>>
    BY <1>10 DEF Arrives, ServerKeeps
  <2> QED  BY ONLY SignInTypeOK, <2>2, <2>4, <2>5 DEF SignInTypeOK
<1>11. ASSUME NEW d \in Devices, Saves(d) PROVE SignInTypeOK'
  <2>1. seal' \in [Devices -> Seals]  BY <1>11 DEF SignInTypeOK, Saves, Seals
  <2> QED  BY <1>11, <2>1 DEF SignInTypeOK, Saves, ServerKeeps
<1>12. ASSUME NEW d \in Devices, Loses(d) PROVE SignInTypeOK'
  <2>1. Lands(d, NoToken)  BY <1>12 DEF Loses
  <2> QED  BY <1>12, <2>1, LandingIsTyped DEF SignInTypeOK, Loses, Mishap, ServerKeeps,
              SignInAssumption
<1>13. ASSUME NEW c \in Calls, Asks(c) PROVE SignInTypeOK'
  <2>1. CallsOf[c] \in Devices  BY DEF SignInAssumption
  <2>2. call' \in [Calls -> Asked]
    <3> DEFINE wait == [Unasked EXCEPT !.pc = "waiting", !.by = who[CallsOf[c]]]
               send == [Unasked EXCEPT !.pc = "sent", !.by = who[CallsOf[c]], !.with = token[CallsOf[c]]]
    <3>1. wait \in Asked /\ send \in Asked  BY <2>1 DEF SignInTypeOK, Asked
    <3>2. \/ call' = [call EXCEPT ![c] = wait]
          \/ call' = [call EXCEPT ![c] = send]
      BY <1>13 DEF Asks
    <3> HIDE DEF wait, send
    <3> QED  BY <3>1, <3>2 DEF SignInTypeOK
  <2>3. flight' \in [Devices -> Flights] /\ mayReuse' \in [Devices -> BOOLEAN]
    BY <1>13, <2>1, JoinIsTyped DEF Asks, SignInTypeOK
  <2> QED  BY <1>13, <2>2, <2>3 DEF SignInTypeOK, Asks, ServerKeeps
<1>14. ASSUME NEW c \in Calls, Answered(c) PROVE SignInTypeOK'
  <2>1. CallsOf[c] \in Devices  BY DEF SignInAssumption
  <2>2. call' \in [Calls -> Asked]
    <3>1. PICK pc \in {"served", "refused", "again"} : call' = [call EXCEPT ![c].pc = pc]
      BY <1>14 DEF Answered
    <3> QED  BY <3>1 DEF SignInTypeOK, Asked
  <2>3. flight' \in [Devices -> Flights] /\ mayReuse' \in [Devices -> BOOLEAN]
    BY <1>14, <2>1, JoinIsTyped DEF Answered, SignInTypeOK
  <2> QED  BY <1>14, <2>2, <2>3 DEF SignInTypeOK, Answered, ServerKeeps
<1>15. CASE UNCHANGED signInVars
  BY <1>15 DEF SignInTypeOK, signInVars
<1> QED BY <1>1, <1>2, <1>3, <1>4, <1>5, <1>6, <1>7, <1>8, <1>9, <1>10, <1>11, <1>12, <1>13, <1>14,
     <1>15
  DEF SignInNext

-------------------------------------------------------------------------------
(* A new attempt is for whoever is signed in, and one that is over is for nobody. *)
LEMMA JoinKeepsFlights ==
  ASSUME SignInAssumption, SignInTypeOK, FlightFits, NEW d \in Devices, Joins(d), who[d] # Nobody,
         issued' = issued
  PROVE  FlightFits'
<1>1. CASE Taken(d)
  BY <1>1 DEF Joins, FlightFits, FlightOK
<1>2. CASE ~Taken(d)
  <2> DEFINE f == [NoFlight EXCEPT !.pc = IF mayReuse[d] THEN "loading" ELSE "asking", !.signer = who[d]]
  <2>1. /\ f.pc \in {"loading", "asking"} /\ f.signer \in Accounts /\ f.token = NoToken
    BY DEF NoFlight, SignInTypeOK
  <2>2. flight' = [flight EXCEPT ![d] = f]  BY <1>2 DEF Joins
  <2> HIDE DEF f
  <2> QED  BY <2>1, <2>2 DEF FlightFits, FlightOK, SignInTypeOK
<1> QED  BY <1>1, <1>2

LEMMA LandingKeepsFlights ==
  ASSUME SignInTypeOK, FlightFits, NEW d \in Devices, NEW t, Lands(d, t), issued' = issued
  PROVE  FlightFits'
<1>1. flight' = [flight EXCEPT ![d] = NoFlight]  BY DEF Lands
<1>2. NoFlight.pc = "idle" /\ NoFlight.token = NoToken  BY DEF NoFlight
<1> QED  BY <1>1, <1>2 DEF FlightFits, FlightOK, SignInTypeOK

LEMMA FlightsStayFit ==
  ASSUME SignInAssumption, SignInTypeOK, FlightFits, SealFits, ChallengesFit, [SignInNext]_signInVars
  PROVE  FlightFits'
<1>1. CASE Forgets \/ Rotates
  BY <1>1 DEF Forgets, Rotates, FlightFits, FlightOK
<1>2. ASSUME NEW d \in Devices, NEW a \in Accounts \cup {Nobody}, Switches(d, a) PROVE FlightFits'
  BY <1>2 DEF Switches, ServerKeeps, FlightFits, FlightOK
<1>3. ASSUME NEW d \in Devices, Reloads(d) PROVE FlightFits'
  <2>1. flight' = [flight EXCEPT ![d] = NoFlight] /\ issued' = issued  BY <1>3 DEF Reloads, ServerKeeps
  <2>2. NoFlight.pc = "idle" /\ NoFlight.token = NoToken  BY DEF NoFlight
  <2> QED  BY <2>1, <2>2 DEF FlightFits, FlightOK, SignInTypeOK
<1>4. ASSUME NEW d \in Devices, SignsIn(d) PROVE FlightFits'
  BY <1>4, JoinKeepsFlights DEF SignsIn, ServerKeeps
<1>5. ASSUME NEW d \in Devices, Loads(d) PROVE FlightFits'
  <2> DEFINE f == [flight[d] EXCEPT !.pc = IF Unsealed(d) = NoToken THEN "asking" ELSE "loaded",
                                    !.token = Unsealed(d)]
  <2>1. Unsealed(d) # NoToken => Unsealed(d).of = flight[d].signer
    BY DEF Unsealed, SealFits, SealOK
  <2>2. FlightOK(flight[d], d) /\ flight[d] \in Flights /\ flight[d].pc = "loading"
    BY <1>5 DEF Loads, FlightFits, SignInTypeOK
  <2>3. /\ f.pc \in {"asking", "loaded"} /\ f.signer \in Accounts
        /\ f.token # NoToken => f.token.of = f.signer
    BY <2>1, <2>2 DEF FlightOK, Flights
  <2>4. flight' = [flight EXCEPT ![d] = f] /\ issued' = issued
    BY <1>5, <2>2 DEF Loads, ServerKeeps, Flights, SignInTypeOK
  <2> HIDE DEF f
  <2> QED  BY <2>3, <2>4 DEF FlightFits, FlightOK, SignInTypeOK
<1>6. ASSUME NEW d \in Devices, Challenges(d) PROVE FlightFits'
  <2> DEFINE f == [flight[d] EXCEPT !.pc = "presenting", !.nonce = Len(issued) + 1]
  <2>1. FlightOK(flight[d], d) /\ flight[d] \in Flights /\ flight[d].pc = "asking"
    BY <1>6 DEF Challenges, FlightFits, SignInTypeOK
  <2>2. /\ f.pc = "presenting" /\ f.nonce = Len(issued) + 1
        /\ f.signer = flight[d].signer /\ f.signer \in Accounts
        /\ f.token # NoToken => f.token.of = f.signer
    BY <2>1 DEF FlightOK, Flights
  <2>3. flight' = [flight EXCEPT ![d] = f]
    BY <1>6, <2>1 DEF Challenges, Flights, SignInTypeOK
  <2>4. /\ issued' = Append(issued, [of |-> flight[d].signer, to |-> d])
        /\ issued \in Seq([of : Accounts, to : Devices])
    BY <1>6 DEF Challenges, SignInTypeOK
  <2>5. /\ Len(issued) + 1 \in DOMAIN issued'
        /\ issued'[Len(issued) + 1] = [of |-> flight[d].signer, to |-> d]
        /\ \A n \in DOMAIN issued : n \in DOMAIN issued' /\ issued'[n] = issued[n]
    BY <2>1, <2>2, <2>4
  <2> HIDE DEF f
  <2>6. f.nonce \in DOMAIN issued' /\ issued'[f.nonce] = [of |-> f.signer, to |-> d]
    BY <2>2, <2>5
  <2>7. ASSUME NEW e \in Devices, e # d PROVE FlightOK(flight[e], e)'
    <3>1. flight'[e] = flight[e] /\ FlightOK(flight[e], e)  BY <2>3, <2>7 DEF FlightFits, SignInTypeOK
    <3> QED  BY <3>1, <2>5 DEF FlightOK
  <2>8. flight'[d] = f  BY <2>3 DEF SignInTypeOK
  <2> QED  BY <2>2, <2>6, <2>7, <2>8 DEF FlightFits, FlightOK
<1>7. ASSUME NEW d \in Devices, Presents(d) PROVE FlightFits'
  <2>1. CASE challenge[flight[d].signer] = flight[d].nonce
    <3> DEFINE f == [flight[d] EXCEPT !.pc = "minted", !.token = Token(flight[d].signer)]
    <3>1. FlightOK(flight[d], d) /\ flight[d] \in Flights /\ flight[d].pc = "presenting"
      BY <1>7 DEF Presents, FlightFits, SignInTypeOK
    <3>2. /\ f.pc = "minted" /\ f.nonce = flight[d].nonce /\ f.signer = flight[d].signer
          /\ f.token.of = f.signer
      BY <3>1 DEF Flights, Token
    <3>3. flight' = [flight EXCEPT ![d] = f] /\ issued' = issued
      BY <1>7, <2>1, <3>1 DEF Presents, Flights, SignInTypeOK
    <3> HIDE DEF f
    <3> QED  BY <3>1, <3>2, <3>3 DEF FlightFits, FlightOK, SignInTypeOK
  <2>2. CASE challenge[flight[d].signer] # flight[d].nonce
    BY <1>7, <2>2, LandingKeepsFlights DEF Presents
  <2> QED  BY <2>1, <2>2
<1>8. ASSUME NEW d \in Devices, Repeats(d) PROVE FlightFits'
  BY <1>8 DEF Repeats, FlightFits, FlightOK
<1>9. ASSUME NEW d \in Devices, Arrives(d) PROVE FlightFits'
  BY <1>9, LandingKeepsFlights DEF Arrives, ServerKeeps
<1>10. ASSUME NEW d \in Devices, Saves(d) PROVE FlightFits'
  BY <1>10 DEF Saves, ServerKeeps, FlightFits, FlightOK
<1>11. ASSUME NEW d \in Devices, Loses(d) PROVE FlightFits'
  BY <1>11, LandingKeepsFlights DEF Loses, ServerKeeps
<1>12. ASSUME NEW c \in Calls, Asks(c) \/ Answered(c) PROVE FlightFits'
  <2>1. CallsOf[c] \in Devices /\ issued' = issued  BY <1>12 DEF SignInAssumption, Asks, Answered, ServerKeeps
  <2>2. CASE UNCHANGED flight
    BY <2>1, <2>2 DEF FlightFits, FlightOK
  <2>3. CASE Joins(CallsOf[c]) /\ who[CallsOf[c]] # Nobody
    BY <2>1, <2>3, JoinKeepsFlights
  <2> QED  BY <1>12, <2>2, <2>3 DEF Asks, Answered
<1>13. CASE UNCHANGED signInVars
  BY <1>13 DEF signInVars, FlightFits, FlightOK
<1> QED
  BY <1>1, <1>2, <1>3, <1>4, <1>5, <1>6, <1>7, <1>8, <1>9, <1>10, <1>11, <1>12, <1>13
    DEF SignInNext

-------------------------------------------------------------------------------
(* A seal is its session's. *)
LEMMA SealsStayFit ==
  ASSUME SignInAssumption, SignInTypeOK, FlightFits, SealFits, [SignInNext]_signInVars
  PROVE  SealFits'
<1> USE DEF SealOK
<1>1. ASSUME UNCHANGED <<who, seal, switches>> PROVE SealFits'
  BY <1>1 DEF SealFits
<1>2. ASSUME NEW d \in Devices, NEW a \in Accounts \cup {Nobody}, Switches(d, a) PROVE SealFits'
  <2>1. switches \in Nat /\ switches' = switches + 1 /\ who' = [who EXCEPT ![d] = a]
    BY <1>2 DEF Switches, SignInTypeOK, SignInAssumption
  <2>2. CASE d \in Web
    <3> DEFINE s == [seal[d] EXCEPT !.id = IF a = Nobody THEN 0 ELSE switches + 1, !.of = a,
                                    !.copyOf = 0, !.copy = NoToken]
    <3>1. /\ s.id \in {0, switches + 1} /\ s.of = a /\ s.copyOf = 0
          /\ s.saving = seal[d].saving /\ s.saving <= switches
      BY DEF SignInTypeOK, Seals, SealFits
    <3>2. seal' = [seal EXCEPT ![d] = s]  BY <1>2, <2>2 DEF Switches, SignInTypeOK, Seals
    <3>3. s.saving \in Nat  BY <3>1 DEF SignInTypeOK, Seals
    <3> HIDE DEF s
    <3>4. SealOK(seal[d], d)'  BY <2>1, <2>2, <3>1, <3>2, <3>3 DEF SignInTypeOK
    <3>5. ASSUME NEW e \in Devices, e # d PROVE SealOK(seal[e], e)'
      BY <2>1, <3>2, <3>5 DEF SealFits, SignInTypeOK, Seals
    <3> QED  BY <3>4, <3>5 DEF SealFits
  <2>3. CASE d \notin Web
    <3>1. seal' = seal  BY <1>2, <2>3 DEF Switches
    <3> QED  BY <2>1, <2>3, <3>1 DEF SealFits, SignInTypeOK, Seals
  <2> QED  BY <2>2, <2>3
<1>3. ASSUME NEW d \in Devices, Reloads(d) PROVE SealFits'
  <2> DEFINE s == [seal[d] EXCEPT !.saving = 0, !.save = NoToken]
  <2>0. seal' = [seal EXCEPT ![d] = s]
    BY <1>3 DEF Reloads, SignInTypeOK, Seals
  <2>1. switches \in Nat /\ switches' = switches + 1 /\ who' = [who EXCEPT ![d] = seal[d].of]
    BY <1>3 DEF Reloads, SignInTypeOK, SignInAssumption
  <2>2. /\ s.id = seal[d].id /\ s.of = seal[d].of /\ s.copyOf = seal[d].copyOf
        /\ s.copy = seal[d].copy /\ s.saving = 0 /\ s.id \in Nat
    BY DEF SignInTypeOK, Seals
  <2> HIDE DEF s
  <2>3. SealOK(seal[d], d)'  BY <2>0, <2>1, <2>2 DEF SealFits, SignInTypeOK
  <2>4. ASSUME NEW e \in Devices, e # d PROVE SealOK(seal[e], e)'
    BY <2>0, <2>1, <2>4 DEF SealFits, SignInTypeOK, Seals
  <2> QED  BY <2>3, <2>4 DEF SealFits
<1>4. ASSUME NEW d \in Devices, Arrives(d) PROVE SealFits'
  <2>1. CASE seal' = seal
    BY <1>4, <2>1 DEF Arrives, SealFits
  <2>2. CASE seal' # seal
    <3> DEFINE s == [seal[d] EXCEPT !.saving = seal[d].id, !.save = flight[d].token]
    <3>1. /\ seal[d].id # 0 /\ who[d] = flight[d].signer /\ flight[d].token # NoToken
          /\ who' = who /\ switches' = switches
      BY <1>4, <2>2 DEF Arrives, Settled
    <3>2. seal' = [seal EXCEPT ![d] = s]
      BY <1>4, <2>2 DEF Arrives, SignInTypeOK, Seals
    <3>3. flight[d].token.of = flight[d].signer  BY <3>1 DEF FlightFits, FlightOK
    <3>4. /\ s.id = seal[d].id /\ s.of = seal[d].of /\ s.copyOf = seal[d].copyOf
          /\ s.copy = seal[d].copy /\ s.saving = seal[d].id /\ s.save = flight[d].token
      BY DEF SignInTypeOK, Seals
    <3> HIDE DEF s
    <3> QED  BY <3>1, <3>2, <3>3, <3>4 DEF SealFits, SignInTypeOK
  <2> QED  BY <2>1, <2>2
<1>5. ASSUME NEW d \in Devices, Saves(d) PROVE SealFits'
  <2> DEFINE s == [seal[d] EXCEPT !.copyOf = seal[d].saving, !.copy = seal[d].save,
                                  !.saving = 0, !.save = NoToken]
  <2>1. /\ s.id = seal[d].id /\ s.of = seal[d].of /\ s.copyOf = seal[d].saving
        /\ s.copy = seal[d].save /\ s.saving = 0
    BY DEF SignInTypeOK, Seals
  <2>2. seal' = [seal EXCEPT ![d] = s] /\ who' = who /\ switches' = switches
    BY <1>5 DEF Saves, SignInTypeOK, Seals
  <2> HIDE DEF s
  <2>3. switches \in Nat  BY DEF SignInTypeOK, SignInAssumption
  <2> QED  BY <2>1, <2>2, <2>3 DEF SealFits, SignInTypeOK
<1>6. CASE UNCHANGED signInVars
  BY <1>1, <1>6 DEF signInVars
<1> QED
  BY <1>1, <1>2, <1>3, <1>4, <1>5, <1>6
  DEF SignInNext, Forgets, Rotates, SignsIn, Loads, Challenges, Presents, Repeats, Loses, Asks,
     Answered

-------------------------------------------------------------------------------
(* What a device and its requests hold names the user. *)
SessionFits == CallFits /\ TokensNameTheUser

LEMMA LandingNamesTheUser ==
  ASSUME SignInTypeOK, SessionFits, NEW d \in Devices, NEW t \in Tokens, Lands(d, t),
         t # NoToken => t.of = flight[d].signer, who' = who
  PROVE  SessionFits'
<1> DEFINE settled == Settled(d, t)
<1>1. settled # NoToken => settled.of = who[d]  BY DEF Settled
<1>2. /\ token' = IF settled = NoToken THEN token ELSE [token EXCEPT ![d] = settled]
      /\ call' = [c \in Calls |->
          IF c \in On(d) /\ call[c].pc \in {"waiting", "again"}
          THEN [call[c] EXCEPT !.pc = IF settled = NoToken THEN "refused" ELSE "last", !.with = settled]
          ELSE call[c]]
  BY DEF Lands
<1> HIDE DEF settled
<1>3. \A e \in Devices : token'[e] # NoToken => token'[e].of = who'[e]
  BY <1>1, <1>2 DEF SessionFits, TokensNameTheUser, SignInTypeOK
<1>4. ASSUME NEW c \in Calls
      PROVE  /\ Open(c)' /\ ~call'[c].switched => call'[c].by = who'[CallsOf[c]]
             /\ call'[c].with # NoToken /\ ~call'[c].switched => call'[c].with.of = call'[c].by
  <2>1. CASE c \in On(d) /\ call[c].pc \in {"waiting", "again"}
    <3> DEFINE k == [call[c] EXCEPT !.pc = IF settled = NoToken THEN "refused" ELSE "last", !.with = settled]
    <3>1. k.by = call[c].by /\ k.switched = call[c].switched /\ k.with = settled
      BY DEF SignInTypeOK, Asked
    <3>2. call'[c] = k /\ CallsOf[c] = d  BY <1>2, <2>1 DEF On
    <3>3. ~call[c].switched => call[c].by = who[d]
      BY <2>1, <3>2 DEF SessionFits, CallFits, Open
    <3> HIDE DEF k
    <3> QED  BY <1>1, <3>1, <3>2, <3>3
  <2>2. CASE ~(c \in On(d) /\ call[c].pc \in {"waiting", "again"})
    <3>1. call'[c] = call[c]  BY <1>2, <2>2
    <3> QED  BY <3>1 DEF SessionFits, CallFits, TokensNameTheUser, Open
  <2> QED  BY <2>1, <2>2
<1> QED  BY <1>3, <1>4 DEF SessionFits, CallFits, TokensNameTheUser

LEMMA SessionsStayFit ==
  ASSUME SignInAssumption, SignInTypeOK, FlightFits, SealFits, SessionFits, [SignInNext]_signInVars
  PROVE  SessionFits'
<1> USE DEF SessionFits
<1>1. ASSUME UNCHANGED <<who, token, call>> PROVE SessionFits'
  BY <1>1 DEF CallFits, Open, TokensNameTheUser
<1>2. ASSUME NEW d \in Devices, NEW a \in Accounts \cup {Nobody}, Switches(d, a) PROVE SessionFits'
  <2>1. /\ who' = [who EXCEPT ![d] = a] /\ token' = [token EXCEPT ![d] = NoToken]
        /\ call' = [c \in Calls |-> IF c \in On(d) /\ Open(c)
                                     THEN [call[c] EXCEPT !.switched = TRUE] ELSE call[c]]
    BY <1>2 DEF Switches
  <2>2. \A e \in Devices : token'[e] # NoToken => token'[e].of = who'[e]
    BY <2>1 DEF TokensNameTheUser, SignInTypeOK
  <2>3. ASSUME NEW c \in Calls
        PROVE  /\ Open(c)' /\ ~call'[c].switched => call'[c].by = who'[CallsOf[c]]
               /\ call'[c].with # NoToken /\ ~call'[c].switched => call'[c].with.of = call'[c].by
    <3>1. CASE c \in On(d) /\ Open(c)
      <4>1. call'[c].switched  BY <2>1, <3>1 DEF SignInTypeOK, Asked
      <4> QED  BY <4>1
    <3>2. CASE ~(c \in On(d) /\ Open(c))
      <4>1. call'[c] = call[c]  BY <2>1, <3>2
      <4>2. Open(c) => who'[CallsOf[c]] = who[CallsOf[c]]
        BY <2>1, <3>2 DEF On, SignInTypeOK, SignInAssumption
      <4> QED  BY <4>1, <4>2 DEF CallFits, TokensNameTheUser, Open
    <3> QED  BY <3>1, <3>2
  <2> QED  BY <2>2, <2>3 DEF CallFits, TokensNameTheUser
<1>3. ASSUME NEW d \in Devices, Reloads(d) PROVE SessionFits'
  <2>1. /\ who' = [who EXCEPT ![d] = seal[d].of] /\ token' = [token EXCEPT ![d] = NoToken]
        /\ call' = [c \in Calls |-> IF c \in On(d) /\ Open(c) THEN Unasked ELSE call[c]]
    BY <1>3 DEF Reloads
  <2>2. \A e \in Devices : token'[e] # NoToken => token'[e].of = who'[e]
    BY <2>1 DEF TokensNameTheUser, SignInTypeOK
  <2>3. ASSUME NEW c \in Calls
        PROVE  /\ Open(c)' /\ ~call'[c].switched => call'[c].by = who'[CallsOf[c]]
               /\ call'[c].with # NoToken /\ ~call'[c].switched => call'[c].with.of = call'[c].by
    <3>1. CASE c \in On(d) /\ Open(c)
      <4>1. call'[c] = Unasked  BY <2>1, <3>1
      <4> QED  BY <4>1 DEF Open, Unasked
    <3>2. CASE ~(c \in On(d) /\ Open(c))
      <4>1. call'[c] = call[c]  BY <2>1, <3>2
      <4>2. Open(c) => who'[CallsOf[c]] = who[CallsOf[c]]
        BY <2>1, <3>2 DEF On, SignInTypeOK, SignInAssumption
      <4> QED  BY <4>1, <4>2 DEF CallFits, TokensNameTheUser, Open
    <3> QED  BY <3>1, <3>2
  <2> QED  BY <2>2, <2>3 DEF CallFits, TokensNameTheUser
<1>4. ASSUME NEW d \in Devices, Presents(d) PROVE SessionFits'
  <2>1. CASE UNCHANGED <<token, call>>
    BY <1>1, <1>4, <2>1 DEF Presents
  <2>2. CASE Lands(d, NoToken)
    BY <1>4, <2>2, LandingNamesTheUser, Values DEF Presents
  <2> QED  BY <1>4, <2>1, <2>2 DEF Presents
<1>5. ASSUME NEW d \in Devices, Arrives(d) PROVE SessionFits'
  <2>1. flight[d].token \in Tokens /\ (flight[d].token # NoToken => flight[d].token.of = flight[d].signer)
    BY DEF FlightFits, FlightOK, SignInTypeOK, Flights
  <2>2. Lands(d, flight[d].token) /\ who' = who  BY <1>5 DEF Arrives
  <2> QED  BY <2>1, <2>2, LandingNamesTheUser
<1>6. ASSUME NEW d \in Devices, Loses(d) PROVE SessionFits'
  BY <1>6, LandingNamesTheUser, Values DEF Loses
<1>7. ASSUME NEW c \in Calls, Asks(c) PROVE SessionFits'
  <2> DEFINE d == CallsOf[c]
             k == IF token[d] = NoToken THEN [Unasked EXCEPT !.pc = "waiting", !.by = who[d]]
                  ELSE [Unasked EXCEPT !.pc = "sent", !.by = who[d], !.with = token[d]]
  <2>1. d \in Devices  BY DEF SignInAssumption
  <2>2. k.by = who[d] /\ k.with = token[d]  BY DEF Unasked
  <2>3. call' = [call EXCEPT ![c] = k] /\ UNCHANGED <<who, token>>  BY <1>7 DEF Asks
  <2> HIDE DEF k
  <2> QED  BY <2>1, <2>2, <2>3 DEF CallFits, TokensNameTheUser, Open, SignInTypeOK
<1>8. ASSUME NEW c \in Calls, Answered(c) PROVE SessionFits'
  <2>1. PICK pc \in {"served", "refused", "again"} :
          call' = [call EXCEPT ![c].pc = pc] /\ UNCHANGED <<who, token>>
    BY <1>8 DEF Answered
  <2>2. Open(c)  BY <1>8 DEF Answered, Open
  <2>3. ASSUME NEW k \in Calls
        PROVE  /\ call'[k].by = call[k].by /\ call'[k].with = call[k].with
               /\ call'[k].switched = call[k].switched /\ (Open(k)' => Open(k))
    BY <2>1, <2>2 DEF SignInTypeOK, Asked, Open
  <2> QED  BY <2>1, <2>3 DEF CallFits, TokensNameTheUser
<1>9. CASE UNCHANGED signInVars
  BY <1>1, <1>9 DEF signInVars
<1> QED
  BY <1>1, <1>2, <1>3, <1>4, <1>5, <1>6, <1>7, <1>8, <1>9
  DEF SignInNext, Forgets, Rotates, SignsIn, Loads, Challenges, Repeats, Saves

-------------------------------------------------------------------------------
(* A challenge is spent on the presentation that swaps it. *)
ChallengeFits == ChallengesFit /\ ChallengesAreSpent

LEMMA ChallengesStayFit ==
  ASSUME SignInAssumption, SignInTypeOK, FlightFits, ChallengeFits, [SignInNext]_signInVars
  PROVE  ChallengeFits'
<1> USE DEF ChallengeFits
<1>0. NoChallenge = 0 /\ Len(issued) \in Nat /\ DOMAIN issued = 1..Len(issued) /\ MaxChallenges \in Nat
  BY DEF NoChallenge, SignInTypeOK, SignInAssumption
<1>1. ASSUME UNCHANGED <<challenge, issued, minted>> PROVE ChallengeFits'
  BY <1>1 DEF ChallengesFit, ChallengesAreSpent
<1>2. ASSUME \A a \in Accounts : challenge'[a] \in {challenge[a], NoChallenge}, UNCHANGED <<issued, minted>>
      PROVE  ChallengeFits'
  BY <1>2 DEF ChallengesFit, ChallengesAreSpent
<1>3. ASSUME NEW a \in Accounts, NEW n \in 1..MaxChallenges, challenge[a] = n,
             challenge' = [challenge EXCEPT ![a] = NoChallenge],
             minted' = [minted EXCEPT ![n] = @ + 1], issued' = issued
      PROVE  ChallengeFits'
  <2>1. /\ minted[n] = 0 /\ n \in DOMAIN issued /\ issued[n].of = a
        /\ \A m \in 1..MaxChallenges : minted'[m] = IF m = n THEN 1 ELSE minted[m]
    BY <1>0, <1>3 DEF ChallengesFit, SignInTypeOK
  <2>2. ASSUME NEW b \in Accounts, challenge'[b] # NoChallenge
        PROVE  /\ challenge'[b] \in DOMAIN issued' /\ issued'[challenge'[b]].of = b
               /\ minted'[challenge'[b]] = 0
    <3>1. b # a /\ challenge'[b] = challenge[b]  BY <1>3, <2>2 DEF SignInTypeOK
    <3>2. challenge[b] # n  BY <2>1, <2>2, <3>1 DEF ChallengesFit
    <3>3. challenge[b] \in 1..MaxChallenges  BY <1>0, <2>2, <3>1 DEF SignInTypeOK
    <3> QED  BY <1>3, <2>1, <2>2, <3>1, <3>2, <3>3 DEF ChallengesFit
  <2> QED  BY <1>0, <1>3, <2>1, <2>2 DEF ChallengesFit, ChallengesAreSpent
<1>4. CASE Forgets
  BY <1>2, <1>4 DEF Forgets, SignInTypeOK
<1>5. ASSUME NEW d \in Devices, Challenges(d) PROVE ChallengeFits'
  <2> DEFINE n == Len(issued) + 1
             a == flight[d].signer
  <2>1. a \in Accounts  BY <1>5 DEF Challenges, FlightFits, FlightOK
  <2>2. /\ n \in 1..MaxChallenges /\ minted' = minted
        /\ issued' = Append(issued, [of |-> a, to |-> d]) /\ challenge' = [challenge EXCEPT ![a] = n]
    BY <1>0, <1>5 DEF Challenges
  <2>3. /\ Len(issued') = n /\ DOMAIN issued' = 1..n /\ issued'[n].of = a
        /\ \A m \in DOMAIN issued : issued'[m] = issued[m]
    BY <1>0, <2>1, <2>2 DEF SignInTypeOK
  <2>4. minted[n] = 0  BY <1>0, <2>2 DEF ChallengesFit
  <2>5. ASSUME NEW b \in Accounts, challenge'[b] # NoChallenge
        PROVE  /\ challenge'[b] \in DOMAIN issued' /\ issued'[challenge'[b]].of = b
               /\ minted'[challenge'[b]] = 0
    <3>1. CASE b = a
      BY <2>1, <2>2, <2>3, <2>4, <3>1 DEF SignInTypeOK
    <3>2. CASE b # a
      <4>1. challenge'[b] = challenge[b]  BY <2>2, <3>2 DEF SignInTypeOK
      <4> QED  BY <1>0, <2>2, <2>3, <2>5, <4>1 DEF ChallengesFit
    <3> QED  BY <3>1, <3>2
  <2> QED  BY <1>0, <2>2, <2>3, <2>5 DEF ChallengesFit, ChallengesAreSpent
<1>6. ASSUME NEW d \in Devices, Presents(d) PROVE ChallengeFits'
  <2>1. flight[d].signer \in Accounts /\ flight[d].nonce \in 1..MaxChallenges
    BY <1>6, NonceFits DEF Presents
  <2>2. challenge' = [challenge EXCEPT ![flight[d].signer] = NoChallenge] /\ issued' = issued
    BY <1>6 DEF Presents, Spent
  <2>3. CASE challenge[flight[d].signer] = flight[d].nonce
    <3>1. minted' = [minted EXCEPT ![flight[d].nonce] = @ + 1]  BY <1>6, <2>3 DEF Presents
    <3> QED  BY <1>3, <2>1, <2>2, <2>3, <3>1
  <2>4. CASE challenge[flight[d].signer] # flight[d].nonce
    <3>1. minted' = minted  BY <1>6, <2>4 DEF Presents
    <3> QED  BY <1>2, <2>2, <3>1 DEF SignInTypeOK
  <2> QED  BY <2>3, <2>4
<1>7. ASSUME NEW d \in Devices, Repeats(d) PROVE ChallengeFits'
  <2>1. flight[d].signer \in Accounts /\ flight[d].nonce \in 1..MaxChallenges
    BY <1>7, NonceFits DEF Repeats
  <2>2. challenge' = [challenge EXCEPT ![flight[d].signer] = NoChallenge] /\ issued' = issued
    BY <1>7 DEF Repeats, Spent
  <2>3. CASE challenge[flight[d].signer] = flight[d].nonce
    <3>1. minted' = [minted EXCEPT ![flight[d].nonce] = @ + 1]  BY <1>7, <2>3 DEF Repeats
    <3> QED  BY <1>3, <2>1, <2>2, <2>3, <3>1
  <2>4. CASE challenge[flight[d].signer] # flight[d].nonce
    <3>1. minted' = minted  BY <1>7, <2>1, <2>4 DEF Repeats, SignInTypeOK
    <3> QED  BY <1>2, <2>2, <3>1 DEF SignInTypeOK
  <2> QED  BY <2>3, <2>4
<1>8. CASE UNCHANGED signInVars
  BY <1>1, <1>8 DEF signInVars
<1>9. Rotates => ChallengeFits'
  BY <1>1 DEF Rotates
<1>10. ASSUME NEW d \in Devices,
              \/ \E a \in Accounts \cup {Nobody} : Switches(d, a)
              \/ Reloads(d) \/ SignsIn(d) \/ Loads(d) \/ Arrives(d) \/ Saves(d) \/ Loses(d)
       PROVE  ChallengeFits'
  <2>1. UNCHANGED <<challenge, issued, minted>>
    BY <1>10 DEF Switches, Reloads, SignsIn, Loads, Arrives, Saves, Loses, ServerKeeps
  <2> QED BY ONLY <1>1, <2>1
<1>11. ASSUME NEW c \in Calls, Asks(c) \/ Answered(c) PROVE ChallengeFits'
  <2>1. UNCHANGED <<challenge, issued, minted>>
    BY <1>11 DEF Asks, Answered, ServerKeeps
  <2> QED BY ONLY <1>1, <2>1
<1> HIDE DEF ChallengeFits
<1> QED BY <1>4, <1>5, <1>6, <1>7, <1>8, <1>9, <1>10, <1>11 DEF SignInNext

-------------------------------------------------------------------------------
(* Who presents a challenge that is no longer outstanding lost it to a mishap, or
   to another device. *)
Lost(d) == \/ mishaps > 0
           \/ \E n \in DOMAIN issued : issued[n].of = flight[d].signer /\ issued[n].to # d

LEMMA NobodyStaysInTheirWay ==
  ASSUME SignInAssumption, SignInTypeOK, FlightFits, ChallengesFit, NobodyAbandonsTheirOwn,
         [SignInNext]_signInVars
  PROVE  NobodyAbandonsTheirOwn'
<1> SUFFICES ASSUME NEW d \in Devices, flight'[d].pc = "presenting",
                    challenge'[flight'[d].signer] # flight'[d].nonce
             PROVE  Lost(d)'
  BY DEF NobodyAbandonsTheirOwn, Lost
<1>1. /\ mishaps \in Nat /\ mishaps' \in Nat /\ mishaps' >= mishaps
      /\ \A n \in DOMAIN issued : n \in DOMAIN issued' /\ issued'[n] = issued[n]
  <2>1. mishaps \in Nat  BY DEF SignInTypeOK, SignInAssumption
  <2>2. mishaps' = mishaps \/ mishaps' = mishaps + 1
    <3>1. ASSUME NEW e \in Devices, Repeats(e) \/ Loses(e)
          PROVE  mishaps' = mishaps + 1
      BY <3>1 DEF Repeats, Loses, Mishap
    <3>2. ASSUME NEW e \in Devices,
                 \/ \E a \in Accounts \cup {Nobody} : Switches(e, a)
                 \/ Reloads(e) \/ SignsIn(e) \/ Loads(e) \/ Challenges(e)
          PROVE  mishaps' = mishaps
      BY <3>2 DEF Switches, Reloads, SignsIn, Loads, Challenges
    <3>3. ASSUME NEW e \in Devices, Presents(e) \/ Arrives(e) \/ Saves(e)
          PROVE  mishaps' = mishaps
      BY <3>3 DEF Presents, Arrives, Saves
    <3>4. CASE Forgets \/ Rotates \/ UNCHANGED signInVars \/ \E c \in Calls : Asks(c) \/ Answered(c)
      BY <3>4 DEF Forgets, Rotates, signInVars, Asks, Answered, Mishap
    <3> QED  BY <3>1, <3>2, <3>3, <3>4 DEF SignInNext
  <2>3. CASE issued' = issued
    BY <2>1, <2>2, <2>3
  <2>4. ASSUME NEW e \in Devices, Challenges(e)
        PROVE  \A n \in DOMAIN issued : n \in DOMAIN issued' /\ issued'[n] = issued[n]
    <3>1. flight[e].signer \in Accounts  BY <2>4 DEF Challenges, FlightFits, FlightOK
    <3>2. issued' = Append(issued, [of |-> flight[e].signer, to |-> e])  BY <2>4 DEF Challenges
    <3> QED  BY <3>1, <3>2 DEF SignInTypeOK
  <2>5. issued' = issued \/ \E e \in Devices : Challenges(e)
    <3>1. ASSUME NEW e \in Devices,
                 \/ \E a \in Accounts \cup {Nobody} : Switches(e, a)
                 \/ Reloads(e) \/ SignsIn(e) \/ Loads(e) \/ Arrives(e) \/ Saves(e)
          PROVE  issued' = issued
      BY <3>1 DEF Switches, Reloads, SignsIn, Loads, Arrives, Saves, ServerKeeps
    <3>2. ASSUME NEW e \in Devices, Presents(e) \/ Repeats(e) \/ Loses(e)
          PROVE  issued' = issued
      BY <3>2 DEF Presents, Repeats, Loses, ServerKeeps
    <3>3. CASE Forgets \/ Rotates \/ UNCHANGED signInVars \/ \E c \in Calls : Asks(c) \/ Answered(c)
      BY <3>3 DEF Forgets, Rotates, signInVars, Asks, Answered, ServerKeeps
    <3> QED  BY <3>1, <3>2, <3>3 DEF SignInNext
  <2> QED  BY <2>1, <2>2, <2>3, <2>4, <2>5
<1>2. ASSUME flight'[d] = flight[d], challenge'[flight[d].signer] = challenge[flight[d].signer]
      PROVE  Lost(d)'
  <2>1. Lost(d)  BY <1>2 DEF NobodyAbandonsTheirOwn, Lost
  <2>2. CASE mishaps > 0
    <3>1. mishaps' > 0  BY <1>1, <2>2
    <3> QED  BY <3>1 DEF Lost
  <2>3. ASSUME NEW n \in DOMAIN issued, issued[n].of = flight[d].signer, issued[n].to # d PROVE Lost(d)'
    <3>1. n \in DOMAIN issued' /\ issued'[n] = issued[n]  BY <1>1
    <3> QED  BY <1>2, <2>3, <3>1 DEF Lost
  <2> QED  BY <2>1, <2>2, <2>3 DEF Lost
<1>3. ASSUME mishaps' > 0 PROVE Lost(d)'
  BY <1>3 DEF Lost
<1>4. ASSUME NEW e \in Devices, e # d, flight'[d] = flight[d],
             \E n \in DOMAIN issued' : issued'[n] = [of |-> flight[d].signer, to |-> e]
      PROVE  Lost(d)'
  BY <1>4 DEF Lost
<1>5. CASE Forgets \/ \E e \in Devices : Repeats(e)
  BY <1>1, <1>3, <1>5 DEF Forgets, Repeats, Mishap
<1>6. ASSUME NEW e \in Devices, Joins(e), UNCHANGED challenge PROVE Lost(d)'
  <2>1. CASE Taken(e)
    BY <1>2, <1>6, <2>1 DEF Joins
  <2>2. CASE ~Taken(e)
    <3> DEFINE f == [NoFlight EXCEPT !.pc = IF mayReuse[e] THEN "loading" ELSE "asking", !.signer = who[e]]
    <3>1. f.pc # "presenting"                 BY DEF NoFlight
    <3>2. flight' = [flight EXCEPT ![e] = f]  BY <1>6, <2>2 DEF Joins
    <3> HIDE DEF f
    <3>3. flight'[d] = flight[d]  BY <3>1, <3>2 DEF SignInTypeOK
    <3> QED  BY <1>2, <1>6, <3>3
  <2> QED  BY <2>1, <2>2
<1>7. ASSUME NEW e \in Devices, NEW t, Lands(e, t), UNCHANGED challenge PROVE Lost(d)'
  BY <1>2, <1>7 DEF Lands, NoFlight, SignInTypeOK
<1>8. ASSUME NEW e \in Devices, Challenges(e) PROVE Lost(d)'
  <2>1. flight[e].signer \in Accounts /\ Len(issued) \in Nat
    BY <1>8 DEF Challenges, FlightFits, FlightOK, SignInTypeOK
  <2>2. /\ issued' = Append(issued, [of |-> flight[e].signer, to |-> e])
        /\ challenge' = [challenge EXCEPT ![flight[e].signer] = Len(issued) + 1]
    BY <1>8 DEF Challenges
  <2>3. CASE e = d
    <3>1. flight'[d].signer = flight[d].signer /\ flight'[d].nonce = Len(issued) + 1
      BY <1>8, <2>3 DEF Challenges, SignInTypeOK, Flights
    <3> QED  BY <2>1, <2>2, <2>3, <3>1 DEF SignInTypeOK
  <2>4. CASE e # d
    <3>1. flight'[d] = flight[d]  BY <1>8, <2>4 DEF Challenges, SignInTypeOK
    <3>2. CASE flight[e].signer = flight[d].signer
      <4>1. Len(issued) + 1 \in DOMAIN issued'
            /\ issued'[Len(issued) + 1] = [of |-> flight[d].signer, to |-> e]
        BY <2>1, <2>2, <3>2 DEF SignInTypeOK
      <4> QED  BY <1>4, <2>4, <3>1, <4>1
    <3>3. CASE flight[e].signer # flight[d].signer
      BY <1>2, <2>2, <3>1, <3>3 DEF SignInTypeOK
    <3> QED  BY <3>2, <3>3
  <2> QED  BY <2>3, <2>4
<1>9. ASSUME NEW e \in Devices, Presents(e) PROVE Lost(d)'
  <2>1. /\ flight[e].nonce \in DOMAIN issued /\ flight[e].signer \in Accounts
        /\ issued[flight[e].nonce] = [of |-> flight[e].signer, to |-> e]
    BY <1>9, NonceFits DEF Presents
  <2>2. /\ challenge' = [challenge EXCEPT ![flight[e].signer] = NoChallenge] /\ issued' = issued
        /\ \A b \in Devices : b # e => flight'[b] = flight[b]
        /\ flight'[e].pc # "presenting"
    <3>1. CASE challenge[flight[e].signer] = flight[e].nonce
      BY <1>9, <3>1 DEF Presents, Spent, SignInTypeOK, Flights
    <3>2. CASE challenge[flight[e].signer] # flight[e].nonce
      <4>1. NoFlight.pc # "presenting"  BY DEF NoFlight
      <4>2. /\ challenge' = [challenge EXCEPT ![flight[e].signer] = NoChallenge] /\ issued' = issued
            /\ flight' = [flight EXCEPT ![e] = NoFlight]
        BY <1>9, <3>2 DEF Presents, Spent, Lands
      <4> QED  BY <4>1, <4>2 DEF SignInTypeOK
    <3> QED  BY <3>1, <3>2
  <2>3. e # d  BY <2>2
  <2>4. CASE flight[e].signer = flight[d].signer
    BY <1>4, <2>1, <2>2, <2>3, <2>4
  <2>5. CASE flight[e].signer # flight[d].signer
    BY <1>2, <2>2, <2>3, <2>5 DEF SignInTypeOK
  <2> QED  BY <2>4, <2>5
<1>10. ASSUME UNCHANGED <<flight, challenge>> PROVE Lost(d)'
  BY <1>2, <1>10
<1>11. ASSUME NEW e \in Devices, Reloads(e) \/ Loads(e) PROVE Lost(d)'
  <2>1. CASE Reloads(e)
    BY <1>2, <2>1 DEF Reloads, NoFlight, ServerKeeps, SignInTypeOK
  <2>2. CASE Loads(e)
    BY <1>2, <2>2 DEF Loads, ServerKeeps, SignInTypeOK, Flights
  <2> QED  BY <1>11, <2>1, <2>2
<1>12. ASSUME NEW c \in Calls, Asks(c) \/ Answered(c) PROVE Lost(d)'
  <2>1. CallsOf[c] \in Devices /\ challenge' = challenge
    BY <1>12 DEF SignInAssumption, Asks, Answered, ServerKeeps
  <2>2. CASE UNCHANGED flight
    BY <1>10, <2>1, <2>2
  <2>3. CASE Joins(CallsOf[c])
    BY <1>6, <2>1, <2>3
  <2> QED  BY <1>12, <2>2, <2>3 DEF Asks, Answered
<1>13. CASE UNCHANGED signInVars
  BY <1>10, <1>13 DEF signInVars
<1>14. CASE Rotates
  BY <1>10, <1>14 DEF Rotates
<1>15. ASSUME NEW e \in Devices, (\E a \in Accounts \cup {Nobody} : Switches(e, a)) \/ Saves(e)
       PROVE  Lost(d)'
  BY <1>10, <1>15 DEF Switches, Saves, ServerKeeps
<1>16. ASSUME NEW e \in Devices, SignsIn(e) PROVE Lost(d)'
  BY <1>6, <1>16 DEF SignsIn, ServerKeeps
<1>17. ASSUME NEW e \in Devices, Arrives(e) \/ Loses(e) PROVE Lost(d)'
  BY <1>7, <1>17 DEF Arrives, Loses, ServerKeeps
<1> QED
  BY ONLY <1>5, <1>8, <1>9, <1>11, <1>12, <1>13, <1>14, <1>15, <1>16, <1>17,
     [SignInNext]_signInVars
  DEF SignInNext

-------------------------------------------------------------------------------
LEMMA InvStarts ==
  ASSUME SignInAssumption, SignInInit
  PROVE  Inv
<1>1. SignInTypeOK
  <2>1. NoToken \in Tokens           BY DEF NoToken, Tokens
  <2>2. NoFlight \in Flights         BY <2>1 DEF NoFlight, Flights, SignInAssumption
  <2>3. NoSeal \in Seals             BY <2>1 DEF NoSeal, Seals
  <2>4. Unasked \in Asked            BY <2>1 DEF Unasked, Asked
  <2> QED  BY <2>1, <2>2, <2>3, <2>4 DEF SignInInit, SignInTypeOK, NoChallenge, SignInAssumption
<1>2. FlightFits  BY DEF SignInInit, FlightFits, FlightOK, NoFlight
<1>3. SealFits
  <2>1. /\ NoSeal.id = 0 /\ NoSeal.saving = 0 /\ NoSeal.of = Nobody
    BY DEF NoSeal
  <2>2. ASSUME NEW d \in Devices PROVE SealOK(seal[d], d)
    <3>1. seal[d] = NoSeal /\ who[d] = Nobody /\ switches = 0  BY DEF SignInInit
    <3> QED  BY <2>1, <3>1 DEF SealOK
  <2> QED  BY <2>2 DEF SealFits
<1>4. CallFits    BY DEF SignInInit, CallFits, Open, Unasked
<1>5. ChallengesFit
  BY DEF SignInInit, ChallengesFit, NoChallenge, SignInAssumption
<1>6. TokensNameTheUser       BY DEF SignInInit, TokensNameTheUser, Unasked
<1>7. ChallengesAreSpent      BY DEF SignInInit, ChallengesAreSpent
<1>8. NobodyAbandonsTheirOwn  BY DEF SignInInit, NobodyAbandonsTheirOwn, NoFlight
<1> QED  BY <1>1, <1>2, <1>3, <1>4, <1>5, <1>6, <1>7, <1>8 DEF Inv

LEMMA InvIsKept ==
  ASSUME SignInAssumption, Inv, [SignInNext]_signInVars
  PROVE  Inv'
BY TypesHold, FlightsStayFit, SealsStayFit, SessionsStayFit, ChallengesStayFit,
   NobodyStaysInTheirWay
DEF Inv, SessionFits, ChallengeFits

(* What holds of every reachable state: the types, and how attempts, seals,
   requests and challenges fit (session/auth.ts:168, challenge.ts:107). *)
THEOREM InvHolds ==
  ASSUME SignInAssumption
  PROVE  SignInSpec => []Inv
BY InvStarts, InvIsKept, PTL DEF SignInSpec

(* A device holds, and sends, only tokens of the account that is signed in on it;
   a challenge is swapped for one token at most; and only another device, or a
   loss, makes a signature come too late (session/auth.ts:171 and :183,
   challenge.ts:107). *)
THEOREM SessionsStayTrue ==
  ASSUME SignInAssumption
  PROVE  SignInSpec => []SessionsAreTrue
<1>1. Inv => SessionsAreTrue  BY DEF Inv, SessionsAreTrue
<1> QED  BY <1>1, InvHolds, PTL

-------------------------------------------------------------------------------
(* The deposits. *)

(* A request that is at key, between the reservation and the log's answer. *)
AppendsKey(h, key) == handler[h].pc = "appending" /\ This(h) = key

(* Where a request is in its payload; what it appends is of an agent. *)
PlaceFits ==
  \A h \in Handlers : LET length == Len(Carries[handler[h].payload])
                      IN /\ handler[h].at \in 1..(length + 1)
                         /\ handler[h].pc = "appending" =>
                              handler[h].at <= length /\ AgentOf[This(h).transfer] \in Agents

(* A key the memory never lost was appended once at most, and then is
   remembered, as it is while its only append is under way. *)
MemoryFits ==
  \A key \in AllKeys \ forgotten :
    /\ log[key] <= 1
    /\ log[key] = 1 => key \in ToSet(seen)
    /\ \A h \in Handlers : AppendsKey(h, key) =>
         /\ log[key] = 0 /\ key \in ToSet(seen)
         /\ \A g \in Handlers : AppendsKey(g, key) => g = h

(* What no log is to have. *)
Skipped == {key \in AllKeys : key.transfer \notin Described}

Accounted == Logged \cup Appending \cup unlogged \cup cutOff \cup Skipped

(* What a request is past is accounted for, but for what it could not read. *)
PassedFits ==
  \A h \in Handlers : handler[h].pc # "free" /\ handler[h].payload \in Legible =>
    \A i \in 1..(handler[h].at - 1) : Key(handler[h].payload, i) \in Accounted

DepositInv == DepositTypeOK /\ PlaceFits /\ MemoryFits /\ PassedFits /\ NothingIsMislaid

-------------------------------------------------------------------------------
(* The memory: a sequence of keys without repetition. *)

LEMMA MemoryTakes ==
  ASSUME NEW S, NEW s \in Seq(S), IsInjective(s), NEW e \in S, e \notin ToSet(s)
  PROVE  /\ Append(s, e) \in Seq(S) /\ IsInjective(Append(s, e))
         /\ ToSet(Append(s, e)) = ToSet(s) \cup {e} /\ Len(Append(s, e)) = Len(s) + 1
<1>1. /\ Append(s, e) \in Seq(S) /\ Len(Append(s, e)) = Len(s) + 1 /\ Len(s) \in Nat
      /\ DOMAIN Append(s, e) = 1..(Len(s) + 1) /\ DOMAIN s = 1..Len(s)
      /\ Append(s, e)[Len(s) + 1] = e /\ \A i \in 1..Len(s) : Append(s, e)[i] = s[i]
  OBVIOUS
<1>2. \A i \in 1..Len(s) : s[i] # e
  BY <1>1 DEF ToSet
<1>3. IsInjective(Append(s, e))
  BY <1>1, <1>2 DEF IsInjective
<1>4. ToSet(Append(s, e)) = ToSet(s) \cup {e}
  BY <1>1 DEF ToSet
<1> QED BY <1>1, <1>3, <1>4

LEMMA MemoryRolls ==
  ASSUME NEW S, NEW s \in Seq(S), IsInjective(s), s # <<>>
  PROVE  /\ Tail(s) \in Seq(S) /\ IsInjective(Tail(s)) /\ Head(s) \in S
         /\ ToSet(Tail(s)) = ToSet(s) \ {Head(s)} /\ Len(Tail(s)) = Len(s) - 1
<1>1. /\ Tail(s) \in Seq(S) /\ Len(Tail(s)) = Len(s) - 1 /\ Len(s) \in Nat /\ Len(s) > 0
      /\ DOMAIN Tail(s) = 1..(Len(s) - 1) /\ DOMAIN s = 1..Len(s)
      /\ Head(s) = s[1] /\ s[1] \in S /\ \A i \in 1..(Len(s) - 1) : Tail(s)[i] = s[i + 1]
  OBVIOUS
<1>2. IsInjective(Tail(s))
  BY <1>1 DEF IsInjective
<1>3. ASSUME NEW x \in ToSet(Tail(s))
      PROVE  x \in ToSet(s) /\ x # s[1]
  <2>1. PICK i \in 1..(Len(s) - 1) : x = s[i + 1]
    BY <1>1, <1>3 DEF ToSet
  <2>2. i + 1 \in DOMAIN s /\ 1 \in DOMAIN s /\ i + 1 # 1
    BY <1>1
  <2> QED BY <2>1, <2>2 DEF ToSet, IsInjective
<1>4. ASSUME NEW x \in ToSet(s), x # s[1]
      PROVE  x \in ToSet(Tail(s))
  <2>1. PICK i \in 1..Len(s) : x = s[i]
    BY <1>1, <1>4 DEF ToSet
  <2>2. i - 1 \in 1..(Len(s) - 1) /\ Tail(s)[i - 1] = x
    BY <1>1, <1>4, <2>1
  <2> QED BY <1>1, <2>2 DEF ToSet
<1> QED BY <1>1, <1>2, <1>3, <1>4

(* A sequence without one of its places. *)
LEMMA Removed ==
  ASSUME NEW S, NEW s \in Seq(S), NEW k \in 1..Len(s)
  PROVE  /\ RemoveAt(s, k) \in Seq(S) /\ Len(RemoveAt(s, k)) = Len(s) - 1
         /\ \A i \in 1..(Len(s) - 1) : RemoveAt(s, k)[i] = IF i < k THEN s[i] ELSE s[i + 1]
<1> DEFINE r == RemoveAt(s, k)
           a == SubSeq(s, 1, k - 1)
           b == SubSeq(s, k + 1, Len(s))
<1>1. Len(s) \in Nat /\ \A i \in 1..Len(s) : s[i] \in S
  OBVIOUS
<1>2. a \in Seq(S) /\ Len(a) = k - 1 /\ \A i \in 1..(k - 1) : a[i] = s[i]
  BY <1>1
<1>3. b \in Seq(S) /\ Len(b) = Len(s) - k /\ \A i \in 1..(Len(s) - k) : b[i] = s[k + i]
  <2>1. k + 1 \in Int /\ Len(s) \in Int /\ \A i \in (k + 1)..Len(s) : s[i] \in S
    BY <1>1
  <2>2. /\ b \in Seq(S) /\ Len(b) = (IF k + 1 <= Len(s) THEN Len(s) - (k + 1) + 1 ELSE 0)
        /\ \A i \in 1..(Len(s) - (k + 1) + 1) : b[i] = s[(k + 1) + i - 1]
    BY <2>1, SubSeqProperties
  <2> HIDE DEF b
  <2>3. Len(b) = Len(s) - k
    <3>1. Len(b) = IF k + 1 <= Len(s) THEN Len(s) - (k + 1) + 1 ELSE 0
      BY <2>2
    <3>2. k \in 1..Len(s) /\ Len(s) \in Nat
      BY <1>1
    <3> QED BY <3>1, <3>2
  <2>4. ASSUME NEW i \in 1..(Len(s) - k)
        PROVE  b[i] = s[k + i]
    <3>1. i \in 1..(Len(s) - (k + 1) + 1) /\ (k + 1) + i - 1 = k + i
      BY <1>1
    <3> QED BY <2>2, <3>1
  <2> QED BY <2>2, <2>3, <2>4
<1>4. r = a \o b
  BY DEF RemoveAt
<1> HIDE DEF a, b, r
<1>5. r \in Seq(S) /\ Len(r) = Len(a) + Len(b)
  BY <1>2, <1>3, <1>4, ConcatProperties
<1>6. \A i \in 1..(Len(a) + Len(b)) : r[i] = IF i <= Len(a) THEN a[i] ELSE b[i - Len(a)]
  BY <1>2, <1>3, <1>4, ConcatProperties
<1>7. ASSUME NEW i \in 1..(Len(s) - 1)
      PROVE  r[i] = IF i < k THEN s[i] ELSE s[i + 1]
  <2>1. CASE i < k
    <3>1. i \in 1..(Len(a) + Len(b)) /\ i <= Len(a) /\ i \in 1..(k - 1)
      BY <1>1, <1>2, <1>3, <2>1
    <3> QED BY <1>2, <1>6, <2>1, <3>1
  <2>2. CASE ~(i < k)
    <3>1. i - (k - 1) \in 1..(Len(s) - k) /\ k + (i - (k - 1)) = i + 1
      BY <1>1, <2>2
    <3>2. r[i] = b[i - (k - 1)]
      <4>1. i \in 1..(Len(a) + Len(b)) /\ ~(i <= Len(a)) /\ i - Len(a) = i - (k - 1)
        BY <1>1, <1>2, <1>3, <2>2
      <4> QED BY ONLY <1>6, <4>1
    <3> QED BY <1>3, <2>2, <3>1, <3>2
  <2> QED BY <2>1, <2>2
<1>8. Len(a) + Len(b) = Len(s) - 1
  BY <1>1, <1>2, <1>3
<1> QED BY <1>5, <1>7, <1>8 DEF r

LEMMA MemoryFrees ==
  ASSUME NEW S, NEW s \in Seq(S), IsInjective(s), NEW e
  PROVE  /\ RemoveFirst(s, e) \in Seq(S) /\ IsInjective(RemoveFirst(s, e))
         /\ ToSet(RemoveFirst(s, e)) = ToSet(s) \ {e} /\ Len(RemoveFirst(s, e)) <= Len(s)
<1>1. Len(s) \in Nat /\ DOMAIN s = 1..Len(s) /\ \A i \in 1..Len(s) : s[i] \in S
  OBVIOUS
<1>2. CASE ~\E i \in 1..Len(s) : s[i] = e
  BY <1>1, <1>2 DEF RemoveFirst, ToSet
<1>3. CASE \E i \in 1..Len(s) : s[i] = e
  <2>1. PICK k \in 1..Len(s) : s[k] = e
    BY <1>3
  <2>2. {i \in 1..Len(s) : s[i] = e} = {k}
    BY <1>1, <2>1 DEF IsInjective
  <2>3. Min({k}) = k
    BY <1>1 DEF Min
  <2>4. SelectInSeq(s, LAMBDA v : v = e) = k
    BY <2>2, <2>3 DEF SelectInSeq
  <2> DEFINE r == RemoveAt(s, k)
  <2>5. RemoveFirst(s, e) = r
    BY <1>3, <2>4 DEF RemoveFirst
  <2>7. /\ r \in Seq(S) /\ Len(r) = Len(s) - 1
        /\ \A i \in 1..(Len(s) - 1) : r[i] = IF i < k THEN s[i] ELSE s[i + 1]
    BY <2>1, Removed
  <2> HIDE DEF r
  <2>8. DOMAIN r = 1..(Len(s) - 1)
    BY <2>7, <1>1
  <2>9. IsInjective(r)
    BY <1>1, <2>7, <2>8 DEF IsInjective
  <2>10. ASSUME NEW x \in ToSet(r)
         PROVE  x \in ToSet(s) /\ x # e
    <3>1. PICK i \in 1..(Len(s) - 1) : x = r[i]
      BY <2>8, <2>10 DEF ToSet
    <3>2. PICK j \in 1..Len(s) : x = s[j] /\ j # k
      BY <1>1, <2>7, <3>1
    <3> QED BY <1>1, <2>1, <3>2 DEF ToSet, IsInjective
  <2>11. ASSUME NEW x \in ToSet(s), x # e
         PROVE  x \in ToSet(r)
    <3>1. PICK j \in 1..Len(s) : x = s[j]
      BY <1>1, <2>11 DEF ToSet
    <3>2. PICK i \in 1..(Len(s) - 1) : r[i] = x
      <4>1. CASE j < k
        BY <1>1, <2>7, <3>1, <4>1
      <4>2. CASE j > k
        <5>1. j - 1 \in 1..(Len(s) - 1) /\ ~(j - 1 < k)
          BY <1>1, <4>2
        <5>2. r[j - 1] = s[(j - 1) + 1] /\ (j - 1) + 1 = j
          BY <1>1, <2>7, <5>1
        <5> QED BY <3>1, <5>1, <5>2
      <4> QED BY <1>1, <2>1, <2>11, <3>1, <4>1, <4>2
    <3> QED BY <2>8, <3>2 DEF ToSet
  <2> QED BY <2>5, <2>7, <2>9, <2>10, <2>11
<1> QED BY <1>2, <1>3

-------------------------------------------------------------------------------
(* A request that moves: what it is at, and what the others are at. *)

Places == [pc : {"free", "next", "appending"}, payload : Payloads, at : Nat]

LEMMA PlacePasses ==
  ASSUME NEW place \in Places
  PROVE  LET past == [place EXCEPT !.pc = "next", !.at = @ + 1]
         IN past \in Places /\ past.pc = "next" /\ past.payload = place.payload /\ past.at = place.at + 1
<1>1. place.at + 1 \in Nat /\ "next" \in {"free", "next", "appending"}
  BY DEF Places
<1> DEFINE n == place.at + 1
<1>2. n \in Nat
  BY <1>1
<1> HIDE DEF n
<1>3. /\ [place EXCEPT !.pc = "next", !.at = n] \in Places
      /\ [place EXCEPT !.pc = "next", !.at = n].pc = "next"
      /\ [place EXCEPT !.pc = "next", !.at = n].at = n
      /\ [place EXCEPT !.pc = "next", !.at = n].payload = place.payload
  BY <1>2 DEF Places
<1> QED BY <1>3 DEF n

LEMMA ThisIsAKey ==
  ASSUME DepositAssumption, DepositTypeOK, PlaceFits, NEW h \in Handlers
  PROVE  /\ handler[h].at <= Len(Carries[handler[h].payload]) =>
              This(h) \in AllKeys /\ This(h) \in KeysOf(handler[h].payload)
         /\ \A i \in 1..(handler[h].at - 1) : Key(handler[h].payload, i) \in KeysOf(handler[h].payload)
         /\ KeysOf(handler[h].payload) \subseteq AllKeys
<1>1. /\ handler[h].payload \in Payloads /\ handler[h].at \in Nat \ {0}
      /\ handler[h].at <= Len(Carries[handler[h].payload]) + 1
      /\ Carries[handler[h].payload] \in Seq(Transfers)
  BY DEF DepositTypeOK, PlaceFits, DepositAssumption
<1>2. /\ Len(Carries[handler[h].payload]) \in Nat
      /\ DOMAIN Carries[handler[h].payload] = 1..Len(Carries[handler[h].payload])
  BY <1>1
<1>3. KeysOf(handler[h].payload) \subseteq AllKeys
  BY <1>1 DEF AllKeys
<1> QED BY <1>1, <1>2, <1>3 DEF KeysOf, This

LEMMA HandlerMoves ==
  ASSUME DepositTypeOK, NEW h \in Handlers, NEW r \in Places, handler' = [handler EXCEPT ![h] = r]
  PROVE  /\ handler' \in [Handlers -> Places] /\ handler'[h] = r
         /\ This(h)' = Key(r.payload, r.at)
         /\ \A g \in Handlers \ {h} : handler'[g] = handler[g] /\ This(g)' = This(g)
         /\ \A g \in Handlers \ {h}, key \in AllKeys : AppendsKey(g, key)' <=> AppendsKey(g, key)
<1>1. handler' \in [Handlers -> Places] /\ handler'[h] = r /\ \A g \in Handlers \ {h} : handler'[g] = handler[g]
  BY DEF DepositTypeOK, Places
<1>2. This(h)' = Key(r.payload, r.at) /\ \A g \in Handlers \ {h} : This(g)' = This(g)
  BY <1>1 DEF This
<1>3. \A g \in Handlers \ {h}, key \in AllKeys : AppendsKey(g, key)' <=> AppendsKey(g, key)
  BY <1>1, <1>2 DEF AppendsKey
<1> QED BY <1>1, <1>2, <1>3

LEMMA AppendingMoves ==
  ASSUME DepositTypeOK, NEW h \in Handlers, NEW r \in Places, handler' = [handler EXCEPT ![h] = r]
  PROVE  /\ r.pc # "appending" => Appending' \subseteq Appending
         /\ r.pc = "appending" => Key(r.payload, r.at) \in Appending'
         /\ handler[h].pc # "appending" => Appending \subseteq Appending'
         /\ Appending \subseteq Appending' \cup {This(h)}
<1>1. /\ handler'[h] = r /\ This(h)' = Key(r.payload, r.at)
      /\ \A g \in Handlers \ {h} : handler'[g] = handler[g] /\ This(g)' = This(g)
  BY HandlerMoves
<1>2. ASSUME NEW key \in Appending'
      PROVE  key \in Appending \/ (r.pc = "appending" /\ key = Key(r.payload, r.at))
  <2>1. PICK g \in Handlers : handler'[g].pc = "appending" /\ key = This(g)'
    BY <1>2 DEF Appending
  <2> QED BY <1>1, <2>1 DEF Appending
<1>3. ASSUME NEW key \in Appending
      PROVE  key \in Appending' \/ (handler[h].pc = "appending" /\ key = This(h))
  <2>1. PICK g \in Handlers : handler[g].pc = "appending" /\ key = This(g)
    BY <1>3 DEF Appending
  <2>2. CASE g # h
    <3>1. handler'[g].pc = "appending" /\ key = This(g)'
      BY <1>1, <2>1, <2>2
    <3> QED BY <3>1 DEF Appending
  <2> QED BY <2>1, <2>2
<1>4. r.pc = "appending" => Key(r.payload, r.at) \in Appending'
  <2> SUFFICES ASSUME r.pc = "appending" PROVE Key(r.payload, r.at) \in Appending'
    OBVIOUS
  <2>1. handler'[h].pc = "appending"
    BY <1>1
  <2> QED BY <1>1, <2>1 DEF Appending
<1> QED BY <1>2, <1>3, <1>4

LEMMA PlaceMoves ==
  ASSUME DepositTypeOK, PlaceFits, NEW h \in Handlers, NEW r \in Places,
         handler' = [handler EXCEPT ![h] = r],
         r.at \in 1..(Len(Carries[r.payload]) + 1),
         r.pc = "appending" => r.at <= Len(Carries[r.payload])
                               /\ AgentOf[Key(r.payload, r.at).transfer] \in Agents
  PROVE  PlaceFits'
<1>1. /\ handler'[h] = r /\ This(h)' = Key(r.payload, r.at)
      /\ \A g \in Handlers \ {h} : handler'[g] = handler[g] /\ This(g)' = This(g)
  BY HandlerMoves
<1> QED BY <1>1 DEF PlaceFits

(* What another request is past stays accounted for, when what is stays. *)
LEMMA PassedMoves ==
  ASSUME DepositAssumption, DepositTypeOK, PlaceFits, PassedFits, NEW h \in Handlers, NEW r \in Places,
         handler' = [handler EXCEPT ![h] = r], Accounted \subseteq Accounted',
         r.pc # "free" /\ r.payload \in Legible =>
           \A i \in 1..(r.at - 1) : Key(r.payload, i) \in Accounted'
  PROVE  PassedFits'
<1>1. handler'[h] = r /\ \A g \in Handlers \ {h} : handler'[g] = handler[g]
  BY HandlerMoves
<1> QED BY <1>1 DEF PassedFits, Key

LEMMA OwedIs ==
  ASSUME DepositAssumption, NothingIsMislaid
  PROVE  \A p \in Legible \ owed : KeysOf(p) \subseteq Accounted
<1>1. \A p \in Legible : KeysOf(p) \subseteq AllKeys  BY DEF DepositAssumption, AllKeys
<1> QED BY <1>1 DEF NothingIsMislaid, Accounted, Skipped

LEMMA OwedMoves ==
  ASSUME DepositAssumption, NothingIsMislaid, Accounted \subseteq Accounted', owed' = owed
  PROVE  \A p \in Legible \ owed' : \A key \in KeysOf(p) : key \in Accounted'
  BY OwedIs

-------------------------------------------------------------------------------
(* The steps. *)

LEMMA RestingFits ==
  ASSUME DepositAssumption
  PROVE  Resting \in Places /\ Resting.pc = "free" /\ Resting.at = 1 /\ Resting.payload \in Payloads
  BY DEF DepositAssumption, Resting, Places

(* A request moves that was not appending and is not: at most the transfers it
   passes are nobody's, and what is no longer owed is accounted for. *)
LEMMA Walks ==
  ASSUME DepositAssumption, DepositInv, NEW h \in Handlers, NEW r \in Places,
         handler' = [handler EXCEPT ![h] = r],
         handler[h].pc # "appending", r.pc # "appending",
         r.at \in 1..(Len(Carries[r.payload]) + 1),
         UNCHANGED <<seen, log, forgotten, kicked, active, cutOff>>,
         unlogged \subseteq unlogged', unlogged' \subseteq AllKeys, upsets' \in 0..MaxUpsets,
         owed' \subseteq owed, \A p \in Legible \cap (owed \ owed') : KeysOf(p) \subseteq Accounted,
         r.pc # "free" /\ r.payload \in Legible =>
           \A i \in 1..(r.at - 1) : Key(r.payload, i) \in Accounted \cup unlogged'
  PROVE  DepositInv'
<1>1. DepositTypeOK /\ PlaceFits /\ MemoryFits /\ PassedFits /\ NothingIsMislaid
  BY DEF DepositInv
<1>2. /\ handler' \in [Handlers -> Places] /\ handler'[h] = r
      /\ \A g \in Handlers \ {h}, key \in AllKeys : AppendsKey(g, key)' <=> AppendsKey(g, key)
  BY <1>1, HandlerMoves
<1>3. Appending' = Appending
  BY <1>1, AppendingMoves
<1>4. Logged' = Logged
  BY DEF Logged
<1>5. Accounted \cup unlogged' = Accounted'
  BY <1>3, <1>4 DEF Accounted
<1>6. DepositTypeOK'
  BY <1>1, <1>2 DEF DepositTypeOK, Places
<1>7. PlaceFits'
  BY <1>1, PlaceMoves
<1>8. \A g \in Handlers, key \in AllKeys : AppendsKey(g, key)' <=> AppendsKey(g, key)
  BY <1>2 DEF AppendsKey
<1>9. MemoryFits'
  BY <1>1, <1>8 DEF MemoryFits
<1>10. PassedFits'
  BY <1>1, <1>5, PassedMoves
<1>11. \A p \in Legible \ owed' : \A key \in KeysOf(p) : key \in Accounted'
  <2>1. \A p \in Legible \ owed : KeysOf(p) \subseteq Accounted
    BY <1>1, OwedIs
  <2> QED BY <1>5, <2>1
<1>12. NothingIsMislaid'
  <2>1. (ToSet(seen) \subseteq Logged \cup Appending)'
    BY <1>1, <1>3, <1>4 DEF NothingIsMislaid
  <2>2. (\A key \in Logged : AgentOf[key.transfer] \in kicked \/ key \in cutOff)'
    BY <1>1, <1>4 DEF NothingIsMislaid
  <2>3. (\A p \in Legible \ owed : \A key \in KeysOf(p) : key \in Accounted)'
    BY <1>11 DEF KeysOf, Key
  <2> QED BY <2>1, <2>2, <2>3 DEF NothingIsMislaid, Accounted, Skipped
<1> QED BY <1>6, <1>7, <1>9, <1>10, <1>12 DEF DepositInv

LEMMA DeliversKeeps ==
  ASSUME DepositAssumption, DepositInv, NEW h \in Handlers, NEW p \in Payloads, Delivers(h, p)
  PROVE  DepositInv'
<1> DEFINE first == IF p \in Legible THEN 1 ELSE Len(Carries[p]) + 1
           r == [pc |-> "next", payload |-> p, at |-> first]
<1>0. Len(Carries[p]) \in Nat /\ first \in 1..(Len(Carries[p]) + 1)
  <2>1. Carries[p] \in Seq(Transfers)  BY DEF DepositAssumption
  <2>2. Len(Carries[p]) \in Nat  BY <2>1
  <2> QED BY <2>2
<1>1. DepositTypeOK /\ handler[h].pc = "free" /\ r \in Places /\ r.pc = "next" /\ r.at = first /\ r.payload = p
  BY <1>0 DEF DepositInv, Delivers, Places
<1>2. UNCHANGED <<owed, seen, log, active, kicked, forgotten, unlogged, cutOff>> /\ upsets' \in 0..MaxUpsets
  BY <1>1 DEF Delivers, Upset, DepositTypeOK, DepositAssumption
<1>4. CASE handler' = [handler EXCEPT ![h] = r]
  <2>2. handler' = [handler EXCEPT ![h] = r]
    BY <1>4
  <2>3. r.pc = "next" /\ r.payload = p /\ r.at \in 1..(Len(Carries[p]) + 1) /\ (p \in Legible => r.at = 1)
    BY <1>0, <1>1
  <2> HIDE DEF r
  <2>4. /\ r.at \in 1..(Len(Carries[r.payload]) + 1)
        /\ r.payload \in Legible =>
             \A i \in 1..(r.at - 1) : Key(r.payload, i) \in Accounted \cup unlogged'
        /\ handler[h].pc # "appending" /\ r.pc # "appending"
    BY <1>1, <2>3
  <2>5. unlogged' \subseteq AllKeys /\ unlogged \subseteq unlogged' /\ owed' = owed
    BY <1>1, <1>2 DEF DepositTypeOK
  <2> QED BY <1>1, <1>2, <2>2, <2>4, <2>5, Walks
<1>5. CASE UNCHANGED handler
  <2>1. handler' = [handler EXCEPT ![h] = handler[h]] /\ handler[h] \in Places
    BY <1>1, <1>5 DEF DepositTypeOK, Places
  <2>2. handler[h].at \in 1..(Len(Carries[handler[h].payload]) + 1)
    BY DEF DepositInv, PlaceFits
  <2> QED BY <1>1, <1>2, <2>1, <2>2, Walks DEF DepositTypeOK
<1> QED BY <1>4, <1>5 DEF Delivers

LEMMA AcknowledgesKeeps ==
  ASSUME DepositAssumption, DepositInv, NEW h \in Handlers, Acknowledges(h)
  PROVE  DepositInv'
<1>1. /\ DepositTypeOK /\ PlaceFits /\ handler[h].pc = "next"
      /\ handler' = [handler EXCEPT ![h] = Resting]
      /\ UNCHANGED <<seen, log, active, kicked, forgotten, unlogged, cutOff>>
  BY DEF DepositInv, Acknowledges
<1>2. upsets' \in 0..MaxUpsets /\ owed' \subseteq owed /\ owed \ owed' \subseteq {handler[h].payload}
  BY <1>1 DEF Acknowledges, Upset, DepositTypeOK, DepositAssumption
<1>3. handler[h].at = Len(Carries[handler[h].payload]) + 1
  <2>1. /\ handler[h].at \in 1..(Len(Carries[handler[h].payload]) + 1)
        /\ Carries[handler[h].payload] \in Seq(Transfers)
    BY <1>1 DEF PlaceFits, DepositTypeOK, DepositAssumption
  <2>2. ~(handler[h].at <= Len(Carries[handler[h].payload]))
    BY <1>1 DEF Acknowledges, More
  <2>3. Len(Carries[handler[h].payload]) \in Nat
    BY <2>1
  <2> QED BY <2>1, <2>2, <2>3
<1>4. handler[h].payload \in Legible => KeysOf(handler[h].payload) \subseteq Accounted
  <2>1. /\ Len(Carries[handler[h].payload]) \in Nat
        /\ DOMAIN Carries[handler[h].payload] = 1..Len(Carries[handler[h].payload])
    <3>1. Carries[handler[h].payload] \in Seq(Transfers)
      BY <1>1 DEF DepositTypeOK, DepositAssumption
    <3> QED BY <3>1
  <2>2. handler[h].payload \in Legible =>
          \A i \in 1..(handler[h].at - 1) : Key(handler[h].payload, i) \in Accounted
    BY <1>1 DEF DepositInv, PassedFits
  <2> QED BY <1>3, <2>1, <2>2 DEF KeysOf
<1>5. \A p \in Legible \cap (owed \ owed') : KeysOf(p) \subseteq Accounted
  BY <1>2, <1>4
<1>6. Resting.at \in 1..(Len(Carries[Resting.payload]) + 1)
  <2>1. Carries[Resting.payload] \in Seq(Transfers)
    BY RestingFits DEF DepositAssumption
  <2> QED BY <2>1, RestingFits
<1> QED BY <1>1, <1>2, <1>5, <1>6, RestingFits, Walks DEF DepositTypeOK

LEMMA LooksKeeps ==
  ASSUME DepositAssumption, DepositInv, NEW h \in Handlers, Looks(h)
  PROVE  DepositInv'
<1> DEFINE p == handler[h].payload
           n == handler[h].at
           k == This(h)
           past == [handler[h] EXCEPT !.at = @ + 1]
           reserved == [handler[h] EXCEPT !.pc = "appending"]
<1>1. DepositTypeOK /\ PlaceFits /\ MemoryFits /\ PassedFits /\ NothingIsMislaid
  BY DEF DepositInv
<1>2. /\ handler[h].pc = "next" /\ n <= Len(Carries[p]) /\ n \in Nat \ {0} /\ p \in Payloads
      /\ Len(Carries[p]) \in Nat
  <2>1. handler[h] \in Places /\ handler[h].pc = "next" /\ n <= Len(Carries[p])
    BY <1>1 DEF Looks, More, DepositTypeOK, Places
  <2>2. Carries[p] \in Seq(Transfers)
    BY <2>1 DEF Places, DepositAssumption
  <2>3. n \in 1..(Len(Carries[p]) + 1)
    BY <1>1 DEF PlaceFits
  <2> QED BY <2>1, <2>2, <2>3 DEF Places
<1>3. k \in AllKeys /\ k = Key(p, n)
  BY <1>1, <1>2, ThisIsAKey DEF This
<1>4. /\ past \in Places /\ past.pc = "next" /\ past.payload = p /\ past.at = n + 1
      /\ reserved \in Places /\ reserved.pc = "appending" /\ reserved.payload = p /\ reserved.at = n
  BY <1>1, <1>2 DEF Places, DepositTypeOK
<1>5. UNCHANGED <<owed, log, active, kicked, cutOff, upsets>>
  BY DEF Looks
<1>6. p \in Legible => \A i \in 1..(n - 1) : Key(p, i) \in Accounted
  BY <1>1, <1>2 DEF PassedFits
<1>7. CASE /\ handler' = [handler EXCEPT ![h].at = @ + 1]
           /\ UNCHANGED <<seen, forgotten>> /\ unlogged' \subseteq AllKeys /\ unlogged \subseteq unlogged'
           /\ k \in Accounted \cup unlogged'
  <2>1. handler' = [handler EXCEPT ![h] = past]
    BY <1>2, <1>7
  <2>2. /\ past.at \in 1..(Len(Carries[past.payload]) + 1) /\ past.pc = "next"
        /\ past.payload \in Legible =>
             \A i \in 1..(past.at - 1) : Key(past.payload, i) \in Accounted \cup unlogged'
    <3>1. past.at = n + 1 /\ past.payload = p /\ past.pc = "next"
      BY <1>4
    <3> HIDE DEF past, p, n
    <3>2. \A i \in 1..((n + 1) - 1) : i \in 1..(n - 1) \/ i = n
      BY <1>2
    <3> QED BY <1>2, <1>3, <1>6, <1>7, <3>1, <3>2
  <2>3. upsets' \in 0..MaxUpsets /\ past.pc # "appending" /\ handler[h].pc # "appending"
    BY <1>1, <1>2, <1>5 DEF DepositTypeOK
  <2> HIDE DEF past
  <2> QED BY <1>1, <1>4, <1>5, <1>7, <2>1, <2>2, <2>3, Walks
<1>8. CASE /\ AgentOf[k.transfer] \in active /\ ~Contains(seen, k) /\ k.transfer \in Described
           /\ handler' = [handler EXCEPT ![h].pc = "appending"]
           /\ Remember(k) /\ UNCHANGED unlogged
  <2>1. handler' = [handler EXCEPT ![h] = reserved]
    BY <1>2, <1>8
  <2>2. reserved.pc = "appending" /\ reserved.payload = p /\ reserved.at = n
    BY <1>4
  <2>3. k \notin ToSet(seen)
    <3>1. seen \in Seq(AllKeys)
      BY <1>1 DEF DepositTypeOK
    <3>2. DOMAIN seen = 1..Len(seen)
      BY <3>1
    <3> QED BY <1>8, <3>2 DEF Contains, ToSet
  <2>4. /\ seen' \in Seq(AllKeys) /\ IsInjective(seen') /\ Len(seen') <= SeenMax
        /\ forgotten' \subseteq AllKeys /\ forgotten \subseteq forgotten'
        /\ ToSet(seen') \subseteq ToSet(seen) \cup {k}
        /\ k \in ToSet(seen') /\ ToSet(seen) \subseteq ToSet(seen') \cup forgotten'
    <3>1. /\ seen \in Seq(AllKeys) /\ IsInjective(seen) /\ Len(seen) <= SeenMax /\ Len(seen) \in Nat
          /\ SeenMax \in Nat /\ SeenMax > 0 /\ forgotten \subseteq AllKeys
      BY <1>1 DEF DepositTypeOK, DepositAssumption
    <3> HIDE DEF k
    <3>2. CASE Len(seen) < SeenMax
      <4>1. seen' = Append(seen, k) /\ forgotten' = forgotten
        BY <1>8, <3>2 DEF Remember
      <4> QED BY <1>3, <2>3, <3>1, <3>2, <4>1, MemoryTakes
    <3>3. CASE ~(Len(seen) < SeenMax)
      <4>1. seen' = Append(Tail(seen), k) /\ forgotten' = forgotten \cup {Head(seen)}
        BY <1>8, <3>3 DEF Remember
      <4>2. seen # <<>> /\ Len(seen) = SeenMax
        BY <3>1, <3>3
      <4>3. /\ Tail(seen) \in Seq(AllKeys) /\ IsInjective(Tail(seen)) /\ Head(seen) \in AllKeys
            /\ ToSet(Tail(seen)) = ToSet(seen) \ {Head(seen)} /\ Len(Tail(seen)) = Len(seen) - 1
        BY <3>1, <4>2, MemoryRolls
      <4>4. k \notin ToSet(Tail(seen))
        BY <2>3, <4>3
      <4>5. /\ seen' \in Seq(AllKeys) /\ IsInjective(seen')
            /\ ToSet(seen') = ToSet(Tail(seen)) \cup {k} /\ Len(seen') = Len(Tail(seen)) + 1
        <5> DEFINE rest == Tail(seen)
        <5>1. rest \in Seq(AllKeys) /\ IsInjective(rest) /\ k \notin ToSet(rest) /\ seen' = Append(rest, k)
          BY <4>1, <4>3, <4>4
        <5> HIDE DEF rest
        <5>2. /\ seen' \in Seq(AllKeys) /\ IsInjective(seen')
              /\ ToSet(seen') = ToSet(rest) \cup {k} /\ Len(seen') = Len(rest) + 1
          BY <1>3, <5>1, MemoryTakes
        <5> QED BY <5>2 DEF rest
      <4>6. Len(seen') <= SeenMax
        BY <3>1, <4>2, <4>3, <4>5
      <4> QED BY <3>1, <4>1, <4>3, <4>5, <4>6
    <3> QED BY <3>2, <3>3
  <2> HIDE DEF reserved
  <2>5. /\ handler' \in [Handlers -> Places] /\ handler'[h] = reserved /\ This(h)' = k
        /\ \A g \in Handlers \ {h}, key \in AllKeys : AppendsKey(g, key)' <=> AppendsKey(g, key)
    BY <1>1, <1>3, <1>4, <2>1, <2>2, HandlerMoves
  <2>6. Appending \subseteq Appending' /\ k \in Appending' /\ Logged' = Logged
    <3>1. handler[h].pc # "appending" /\ reserved \in Places
      BY <1>2, <1>4
    <3>2. Appending \subseteq Appending' /\ k \in Appending'
      BY <1>1, <1>3, <2>1, <2>2, <3>1, AppendingMoves
    <3> QED BY <1>5, <3>2 DEF Logged
  <2>7. Accounted \subseteq Accounted'
    BY <1>5, <1>8, <2>4, <2>6 DEF Accounted
  <2>8. DepositTypeOK'
    BY <1>1, <1>5, <1>8, <2>4, <2>5 DEF DepositTypeOK, Places
  <2>9. PlaceFits'
    <3>1. AgentOf[k.transfer] \in Agents
      BY <1>1, <1>8 DEF DepositTypeOK
    <3>2. reserved.at \in 1..(Len(Carries[reserved.payload]) + 1) /\ reserved.at <= Len(Carries[reserved.payload])
      BY <1>2, <2>2
    <3>3. Key(reserved.payload, reserved.at) = k
      BY <1>3, <2>2
    <3> QED BY <1>1, <1>4, <2>1, <3>1, <3>2, <3>3, PlaceMoves
  <2>10. MemoryFits'
    <3> SUFFICES ASSUME NEW key \in AllKeys \ forgotten'
                 PROVE  /\ log'[key] <= 1
                        /\ log'[key] = 1 => key \in ToSet(seen')
                        /\ \A g \in Handlers : AppendsKey(g, key)' =>
                             /\ log'[key] = 0 /\ key \in ToSet(seen')
                             /\ \A f \in Handlers : AppendsKey(f, key)' => f = g
      BY DEF MemoryFits, AppendsKey, This, Key
    <3>1. key \in AllKeys \ forgotten /\ log'[key] = log[key] /\ log[key] \in Nat
      BY <1>1, <1>5, <2>4 DEF DepositTypeOK
    <3>2. CASE key = k
      <4>1. log[key] = 0 /\ \A g \in Handlers : ~AppendsKey(g, key)
        BY <1>1, <2>3, <3>1, <3>2 DEF MemoryFits
      <4>2. \A g \in Handlers : AppendsKey(g, key)' => g = h
        BY <2>5, <4>1
      <4> QED BY <2>4, <3>1, <3>2, <4>1, <4>2
    <3>3. CASE key # k
      <4>1. ~AppendsKey(h, key)' /\ \A g \in Handlers : AppendsKey(g, key)' => AppendsKey(g, key)
        BY <2>5, <3>3 DEF AppendsKey
      <4> QED BY <1>1, <2>4, <3>1, <4>1 DEF MemoryFits
    <3> QED BY <3>2, <3>3
  <2>11. PassedFits'
    <3>1. reserved.payload \in Legible =>
            \A i \in 1..(reserved.at - 1) : Key(reserved.payload, i) \in Accounted'
      BY <1>6, <2>2, <2>7
    <3> QED BY <1>1, <1>4, <2>1, <2>7, <3>1, PassedMoves
  <2>12. NothingIsMislaid'
    <3>1. \A q \in Legible \ owed' : \A key \in KeysOf(q) : key \in Accounted'
      BY <1>1, <1>5, <2>7, OwedMoves
    <3>2. (\A q \in Legible \ owed : \A key \in KeysOf(q) : key \in Accounted)'
      BY <3>1 DEF KeysOf, Key
    <3>3. (ToSet(seen) \subseteq Logged \cup Appending)'
      BY <1>1, <2>4, <2>6 DEF NothingIsMislaid
    <3>4. (\A key \in Logged : AgentOf[key.transfer] \in kicked \/ key \in cutOff)'
      BY <1>1, <1>5, <2>4, <2>6 DEF NothingIsMislaid
    <3> QED BY <3>2, <3>3, <3>4 DEF NothingIsMislaid, Accounted, Skipped
  <2> QED BY <2>8, <2>9, <2>10, <2>11, <2>12 DEF DepositInv
<1>9. CASE AgentOf[k.transfer] \notin active
  BY <1>1, <1>3, <1>7, <1>9 DEF Looks, DepositTypeOK
<1>10. CASE AgentOf[k.transfer] \in active /\ Contains(seen, k)
  <2>1. k \in Accounted
    <3>1. seen \in Seq(AllKeys)
      BY <1>1 DEF DepositTypeOK
    <3>2. k \in ToSet(seen)
      BY <1>10, <3>1 DEF Contains, ToSet
    <3> QED BY <1>1, <3>2 DEF NothingIsMislaid, Accounted, Skipped
  <2> QED BY <1>1, <1>7, <1>10, <2>1 DEF Looks, DepositTypeOK
<1>11. CASE AgentOf[k.transfer] \in active /\ ~Contains(seen, k) /\ k.transfer \in Described
  BY <1>8, <1>11 DEF Looks
<1>12. CASE AgentOf[k.transfer] \in active /\ ~Contains(seen, k) /\ k.transfer \notin Described
  <2>1. k \in Accounted
    BY <1>3, <1>12 DEF Accounted, Skipped
  <2> QED BY <1>1, <1>7, <1>12, <2>1 DEF Looks, DepositTypeOK
<1> QED BY <1>9, <1>10, <1>11, <1>12

(* A request stops appending: the key it was at is on the log now, or it is
   released and nothing of it is. *)
LEMMA AppendsKeeps ==
  ASSUME DepositAssumption, DepositInv, NEW h \in Handlers, Appends(h)
  PROVE  DepositInv'
<1> DEFINE p == handler[h].payload
           n == handler[h].at
           k == This(h)
           past == [handler[h] EXCEPT !.pc = "next", !.at = @ + 1]
<1>1. DepositTypeOK /\ PlaceFits /\ MemoryFits /\ PassedFits /\ NothingIsMislaid
  BY DEF DepositInv
<1>2. /\ handler[h].pc = "appending" /\ n \in Nat \ {0} /\ p \in Payloads
      /\ n <= Len(Carries[p]) /\ AgentOf[k.transfer] \in Agents /\ Len(Carries[p]) \in Nat
  <2>1. handler[h] \in Places /\ handler[h].pc = "appending"
    BY <1>1 DEF Appends, DepositTypeOK, Places
  <2>2. Carries[p] \in Seq(Transfers)
    BY <2>1 DEF Places, DepositAssumption
  <2>3. n \in 1..(Len(Carries[p]) + 1) /\ n <= Len(Carries[p]) /\ AgentOf[k.transfer] \in Agents
    BY <1>1, <2>1 DEF PlaceFits
  <2> QED BY <2>1, <2>2, <2>3 DEF Places
<1>3. k \in AllKeys /\ k = Key(p, n) /\ AppendsKey(h, k) /\ k \in Appending
  BY <1>1, <1>2, ThisIsAKey DEF This, AppendsKey, Appending
<1>4. past \in Places /\ past.pc = "next" /\ past.payload = p /\ past.at = n + 1
  <2>2. handler[h] \in Places
    BY <1>1 DEF Places, DepositTypeOK
  <2> QED BY <1>2, <2>2, PlacePasses
<1>5. UNCHANGED <<owed, active, forgotten, cutOff>> /\ handler' = [handler EXCEPT ![h] = past]
  BY DEF Appends
<1>6. p \in Legible => \A i \in 1..(n - 1) : Key(p, i) \in Accounted
  BY <1>1, <1>2 DEF PassedFits
<1> HIDE DEF past
<1>7. /\ handler' \in [Handlers -> Places] /\ handler'[h] = past
      /\ \A g \in Handlers \ {h}, key \in AllKeys : AppendsKey(g, key)' <=> AppendsKey(g, key)
  BY <1>1, <1>4, <1>5, HandlerMoves
<1>8. \A g \in Handlers, key \in AllKeys : AppendsKey(g, key)' <=> g # h /\ AppendsKey(g, key)
  BY <1>4, <1>7 DEF AppendsKey
<1>9. Appending \subseteq Appending' \cup {k}
  BY <1>1, <1>4, <1>5, AppendingMoves
<1>10. PlaceFits'
  <2>1. past.at \in 1..(Len(Carries[past.payload]) + 1) /\ past.pc # "appending"
    <3> HIDE DEF p, n
    <3> QED BY <1>2, <1>4
  <2> QED BY <1>1, <1>4, <1>5, <2>1, PlaceMoves
<1>11. ASSUME Accounted \subseteq Accounted'
       PROVE  PassedFits' /\ (\A q \in Legible \ owed : \A key \in KeysOf(q) : key \in Accounted)'
  <2>1. past.payload \in Legible => \A i \in 1..(past.at - 1) : Key(past.payload, i) \in Accounted'
    <3>1. \A i \in 1..((n + 1) - 1) : i \in 1..(n - 1) \/ i = n
      BY <1>2
    <3>2. Key(p, n) \in Accounted
      BY <1>3 DEF Accounted
    <3> HIDE DEF p, n
    <3> QED BY <1>4, <1>6, <1>11, <3>1, <3>2
  <2>2. PassedFits'
    BY <1>1, <1>4, <1>5, <1>11, <2>1, PassedMoves
  <2>3. \A q \in Legible \ owed' : \A key \in KeysOf(q) : key \in Accounted'
    BY <1>1, <1>5, <1>11, OwedMoves
  <2> QED BY <2>2, <2>3 DEF KeysOf, Key
<1>12. CASE /\ log' = [log EXCEPT ![k] = @ + 1] /\ kicked' = kicked \cup {AgentOf[k.transfer]}
            /\ UNCHANGED <<seen, unlogged, upsets>>
  <2>1. /\ log' \in [AllKeys -> Nat] /\ log'[k] = log[k] + 1 /\ log[k] \in Nat
        /\ \A key \in AllKeys \ {k} : log'[key] = log[key]
    BY <1>1, <1>3, <1>12 DEF DepositTypeOK
  <2>2. Logged' = Logged \cup {k}
    BY <1>3, <2>1 DEF Logged
  <2>3. Accounted \subseteq Accounted'
    BY <1>5, <1>9, <1>12, <2>2 DEF Accounted
  <2>4. DepositTypeOK'
    BY <1>1, <1>2, <1>5, <1>7, <1>12, <2>1 DEF DepositTypeOK, Places
  <2>5. MemoryFits'
    <3> SUFFICES ASSUME NEW key \in AllKeys \ forgotten'
                 PROVE  /\ log'[key] <= 1
                        /\ log'[key] = 1 => key \in ToSet(seen')
                        /\ \A g \in Handlers : AppendsKey(g, key)' =>
                             /\ log'[key] = 0 /\ key \in ToSet(seen')
                             /\ \A f \in Handlers : AppendsKey(f, key)' => f = g
      BY DEF MemoryFits, AppendsKey, This, Key
    <3>1. key \in AllKeys \ forgotten /\ seen' = seen
      BY <1>5, <1>12
    <3>2. CASE key = k
      BY <1>1, <1>3, <1>8, <2>1, <3>1, <3>2 DEF MemoryFits
    <3>3. CASE key # k
      BY <1>1, <1>8, <2>1, <3>1, <3>3 DEF MemoryFits
    <3> QED BY <3>2, <3>3
  <2>6. NothingIsMislaid'
    <3>1. (ToSet(seen) \subseteq Logged \cup Appending)'
      BY <1>1, <1>9, <1>12, <2>2 DEF NothingIsMislaid
    <3>2. (\A key \in Logged : AgentOf[key.transfer] \in kicked \/ key \in cutOff)'
      BY <1>1, <1>5, <1>12, <2>2 DEF NothingIsMislaid
    <3> QED BY <1>11, <2>3, <3>1, <3>2 DEF NothingIsMislaid, Accounted, Skipped
  <2> QED BY <1>10, <1>11, <2>3, <2>4, <2>5, <2>6 DEF DepositInv
<1>13. CASE /\ Upset("append") /\ seen' = RemoveFirst(seen, k) /\ unlogged' = unlogged \cup {k}
            /\ UNCHANGED <<log, kicked>>
  <2>1. /\ seen' \in Seq(AllKeys) /\ IsInjective(seen') /\ ToSet(seen') = ToSet(seen) \ {k}
        /\ Len(seen') <= Len(seen)
    BY <1>1, <1>13, MemoryFrees DEF DepositTypeOK
  <2>2. Logged' = Logged
    BY <1>13 DEF Logged
  <2>3. Accounted \subseteq Accounted'
    BY <1>5, <1>9, <1>13, <2>2 DEF Accounted
  <2>4. DepositTypeOK'
    <3>1. Len(seen') <= SeenMax
      <4>1. Len(seen) <= SeenMax /\ Len(seen) \in Nat /\ Len(seen') \in Nat /\ SeenMax \in Nat
        <5>1. seen \in Seq(AllKeys) /\ Len(seen) <= SeenMax
          BY <1>1 DEF DepositTypeOK
        <5> QED BY <2>1, <5>1, LenProperties DEF DepositAssumption
      <4> QED BY <2>1, <4>1
    <3>2. upsets' \in 0..MaxUpsets
      BY <1>1, <1>13 DEF Upset, DepositTypeOK, DepositAssumption
    <3> QED BY <1>1, <1>3, <1>5, <1>7, <1>13, <2>1, <3>1, <3>2 DEF DepositTypeOK, Places
  <2>5. MemoryFits'
    <3> SUFFICES ASSUME NEW key \in AllKeys \ forgotten'
                 PROVE  /\ log'[key] <= 1
                        /\ log'[key] = 1 => key \in ToSet(seen')
                        /\ \A g \in Handlers : AppendsKey(g, key)' =>
                             /\ log'[key] = 0 /\ key \in ToSet(seen')
                             /\ \A f \in Handlers : AppendsKey(f, key)' => f = g
      BY DEF MemoryFits, AppendsKey, This, Key
    <3>1. key \in AllKeys \ forgotten /\ log' = log
      BY <1>5, <1>13
    <3>2. CASE key = k
      BY <1>1, <1>3, <1>8, <3>1, <3>2 DEF MemoryFits
    <3>3. CASE key # k
      BY <1>1, <1>8, <2>1, <3>1, <3>3 DEF MemoryFits
    <3> QED BY <3>2, <3>3
  <2>6. NothingIsMislaid'
    <3>1. (ToSet(seen) \subseteq Logged \cup Appending)'
      BY <1>1, <1>9, <2>1, <2>2 DEF NothingIsMislaid
    <3>2. (\A key \in Logged : AgentOf[key.transfer] \in kicked \/ key \in cutOff)'
      BY <1>1, <1>5, <1>13, <2>2 DEF NothingIsMislaid
    <3> QED BY <1>11, <2>3, <3>1, <3>2 DEF NothingIsMislaid, Accounted, Skipped
  <2> QED BY <1>10, <1>11, <2>3, <2>4, <2>5, <2>6 DEF DepositInv
<1> QED BY <1>12, <1>13 DEF Appends

LEMMA RestartsKeeps ==
  ASSUME DepositAssumption, DepositInv, Restarts
  PROVE  DepositInv'
<1>1. DepositTypeOK /\ PlaceFits /\ MemoryFits /\ PassedFits /\ NothingIsMislaid
  BY DEF DepositInv
<1>2. PICK written \in SUBSET Appending :
        log' = [key \in AllKeys |-> IF key \in written THEN log[key] + 1 ELSE log[key]]
  BY DEF Restarts
<1>3. /\ handler' = [h \in Handlers |-> Resting] /\ seen' = <<>> /\ forgotten' = forgotten \cup ToSet(seen)
      /\ cutOff' = cutOff \cup Appending /\ UNCHANGED <<owed, active, kicked, unlogged>>
      /\ upsets' \in 0..MaxUpsets
  BY <1>1 DEF Restarts, Upset, DepositTypeOK, DepositAssumption
<1>4. /\ handler' \in [Handlers -> Places] /\ \A h \in Handlers : handler'[h] = Resting
      /\ \A h \in Handlers, key \in AllKeys : ~AppendsKey(h, key)'
  BY <1>3, RestingFits DEF AppendsKey
<1>5. ToSet(seen) \subseteq AllKeys
  <2>1. seen \in Seq(AllKeys)
    BY <1>1 DEF DepositTypeOK
  <2>2. \A i \in DOMAIN seen : seen[i] \in AllKeys
    BY <2>1
  <2> QED BY <2>2 DEF ToSet
<1>6. ToSet(seen') = {} /\ seen' \in Seq(AllKeys) /\ IsInjective(seen') /\ Len(seen') = 0
  BY <1>3 DEF ToSet, IsInjective
<1>7. log' \in [AllKeys -> Nat] /\ \A key \in AllKeys : log'[key] = log[key] \/ key \in Appending
  BY <1>1, <1>2 DEF DepositTypeOK
<1>8. Appending \subseteq forgotten'
  <2> SUFFICES ASSUME NEW h \in Handlers, handler[h].pc = "appending"
               PROVE  This(h) \in forgotten'
    BY DEF Appending
  <2>1. This(h) \in AllKeys /\ AppendsKey(h, This(h))
    BY <1>1, ThisIsAKey DEF PlaceFits, AppendsKey
  <2> QED BY <1>1, <1>3, <2>1 DEF MemoryFits
<1>9. \A key \in AllKeys \ forgotten' : log[key] = 0 /\ log'[key] = 0
  <2> SUFFICES ASSUME NEW key \in AllKeys \ forgotten'
               PROVE  log[key] = 0 /\ log'[key] = 0
    OBVIOUS
  <2>1. key \notin forgotten /\ key \notin ToSet(seen) /\ key \notin Appending
    BY <1>3, <1>8
  <2>2. log[key] \in Nat /\ log[key] <= 1 /\ (log[key] = 1 => key \in ToSet(seen))
    BY <1>1, <2>1 DEF MemoryFits, DepositTypeOK
  <2> QED BY <1>7, <2>1, <2>2
<1>10. Logged \subseteq Logged' /\ Logged' \subseteq Logged \cup Appending
  <2>1. \A key \in AllKeys : log[key] \in Nat /\ log'[key] \in Nat /\ log'[key] >= log[key]
    BY <1>1, <1>2 DEF DepositTypeOK
  <2> QED BY <1>7, <2>1 DEF Logged
<1>11. Accounted \subseteq Accounted'
  BY <1>3, <1>10 DEF Accounted
<1>17. Appending \subseteq AllKeys
  <2> SUFFICES ASSUME NEW h \in Handlers, handler[h].pc = "appending"
               PROVE  This(h) \in AllKeys
    BY DEF Appending
  <2> QED BY <1>1, ThisIsAKey DEF PlaceFits
<1>12. DepositTypeOK'
  BY <1>1, <1>3, <1>4, <1>5, <1>6, <1>7, <1>17 DEF DepositTypeOK, Places, DepositAssumption
<1>13. PlaceFits'
  <2>1. Len(Carries[Resting.payload]) \in Nat
    <3>1. Carries[Resting.payload] \in Seq(Transfers)
      BY RestingFits DEF DepositAssumption
    <3> QED BY <3>1
  <2> QED BY <1>4, <2>1, RestingFits DEF PlaceFits
<1>14. MemoryFits'
  <2> SUFFICES ASSUME NEW key \in AllKeys \ forgotten'
               PROVE  /\ log'[key] <= 1
                      /\ log'[key] = 1 => key \in ToSet(seen')
                      /\ \A g \in Handlers : ~AppendsKey(g, key)'
    BY DEF MemoryFits, AppendsKey, This, Key
  <2> QED BY <1>4, <1>9
<1>15. PassedFits'
  BY <1>4, RestingFits DEF PassedFits
<1>16. NothingIsMislaid'
  <2>1. \A q \in Legible \ owed' : \A key \in KeysOf(q) : key \in Accounted'
    BY <1>1, <1>3, <1>11, OwedMoves
  <2>2. (\A q \in Legible \ owed : \A key \in KeysOf(q) : key \in Accounted)'
    BY <2>1 DEF KeysOf, Key
  <2>3. (ToSet(seen) \subseteq Logged \cup Appending)'
    BY <1>6
  <2>4. (\A key \in Logged : AgentOf[key.transfer] \in kicked \/ key \in cutOff)'
    BY <1>1, <1>3, <1>10 DEF NothingIsMislaid
  <2> QED BY <2>2, <2>3, <2>4 DEF NothingIsMislaid, Accounted, Skipped
<1> QED BY <1>12, <1>13, <1>14, <1>15, <1>16 DEF DepositInv

LEMMA DepositStands ==
  ASSUME DepositAssumption, DepositInv, 
         UNCHANGED <<owed, handler, seen, log, kicked, forgotten, unlogged, cutOff, upsets>>,
         active' \subseteq active
  PROVE  DepositInv'
<1>1. Logged' = Logged /\ Appending' = Appending
  BY DEF Logged, Appending, This, Key
<1>2. Accounted' = Accounted
  BY <1>1 DEF Accounted
<1>3. DepositTypeOK' /\ PlaceFits'
  BY DEF DepositInv, DepositTypeOK, PlaceFits, This, Key
<1>4. MemoryFits'
  BY DEF DepositInv, MemoryFits, AppendsKey, This, Key
<1>5. PassedFits'
  BY <1>2 DEF DepositInv, PassedFits, Key
<1>6. NothingIsMislaid'
  BY <1>1 DEF DepositInv, NothingIsMislaid, KeysOf, Key
<1> QED BY <1>3, <1>4, <1>5, <1>6 DEF DepositInv

LEMMA DepositInitHolds ==
  ASSUME DepositAssumption, DepositInit
  PROVE  DepositInv
<1>1. /\ owed = Payloads /\ handler = [h \in Handlers |-> Resting] /\ seen = <<>>
      /\ log = [key \in AllKeys |-> 0] /\ active = Agents
      /\ kicked = {} /\ forgotten = {} /\ unlogged = {} /\ cutOff = {} /\ upsets = 0
  BY DEF DepositInit
<1>2. /\ handler \in [Handlers -> Places] /\ \A h \in Handlers : handler[h] = Resting
  BY <1>1, RestingFits
<1>3. ToSet(seen) = {} /\ seen \in Seq(AllKeys) /\ IsInjective(seen) /\ Len(seen) = 0
  BY <1>1 DEF ToSet, IsInjective
<1>4. DepositTypeOK
  BY <1>1, <1>2, <1>3 DEF DepositTypeOK, Places, DepositAssumption
<1>5. PlaceFits
  <2>1. Len(Carries[Resting.payload]) \in Nat
    <3>1. Carries[Resting.payload] \in Seq(Transfers)
      BY RestingFits DEF DepositAssumption
    <3> QED BY <3>1
  <2> QED BY <1>2, <2>1, RestingFits DEF PlaceFits
<1>6. MemoryFits /\ PassedFits
  BY <1>1, <1>2, RestingFits DEF MemoryFits, PassedFits, AppendsKey
<1>7. NothingIsMislaid
  BY <1>1, <1>3 DEF NothingIsMislaid, Logged, DepositAssumption
<1> QED BY <1>4, <1>5, <1>6, <1>7 DEF DepositInv

(* Of any payloads, requests, agents and memory, through lost answers, failed
   appends, evictions and restarts: a transfer is on its agent's log once unless
   the memory of it was lost; and what Alchemy stops delivering is there, or about
   to be, but for a body that does not parse, a transfer that cannot be described,
   a revoke, a failed append, and an append that a restart cut off
   (webhooks.service.ts:99 and :167). *)
THEOREM DepositsStayTrue ==
  ASSUME DepositAssumption
  PROVE  DepositSpec => []DepositsAreTrue
<1>1. DepositInit => DepositInv
  BY DepositInitHolds
<1>2. DepositInv /\ [DepositNext]_depositVars => DepositInv'
  <2> SUFFICES ASSUME DepositInv, [DepositNext]_depositVars PROVE DepositInv'
    OBVIOUS
  <2>1. CASE Restarts
    BY <2>1, RestartsKeeps
  <2>2. ASSUME NEW agent \in Agents, Revokes(agent) PROVE DepositInv'
    BY <2>2, DepositStands DEF Revokes
  <2>3. ASSUME NEW h \in Handlers, Looks(h) \/ Appends(h) \/ Acknowledges(h) PROVE DepositInv'
    BY <2>3, LooksKeeps, AppendsKeeps, AcknowledgesKeeps
  <2>4. ASSUME NEW h \in Handlers, NEW p \in Payloads, Delivers(h, p) PROVE DepositInv'
    BY <2>4, DeliversKeeps
  <2>5. CASE UNCHANGED depositVars
    BY <2>5, DepositStands DEF depositVars
  <2> QED BY <2>1, <2>2, <2>3, <2>4, <2>5 DEF DepositNext
<1>3. DepositInv => DepositsAreTrue
  BY DEF DepositInv, DepositsAreTrue, MemoryFits, LoggedOnce
<1> QED BY <1>1, <1>2, <1>3, PTL DEF DepositSpec


-------------------------------------------------------------------------------
(* The order books. *)

(* What a frame says of a market. *)
Grants(f, m) == f.kind = "reply" /\ m \in f.markets
Denies(f, m) == f.kind = "reply" /\ m \in f.no
Brings(f, m) == f.kind = "snapshot" /\ m \in f.markets
Alters(f, m) == f.kind = "delta" /\ m \in f.markets

(* Once the first i frames are taken, the stream of a market is mapped and its
   last subscription was not refused. *)
Vouched(i, m) ==
  \/ m \in streams \ refused /\ \A k \in 1..i : ~Denies(inbox[k], m)
  \/ \E j \in 1..i : Grants(inbox[j], m) /\ \A k \in (j + 1)..i : ~Denies(inbox[k], m)

(* The books as of the i-th frame, the last one taken being the 0th. *)
AsOf(i) == IF i = 0 THEN shown ELSE inbox[i].books

(* From the i-th frame on a snapshot comes before any delta does. *)
Comes(i, m) == \E j \in i..Len(inbox) :
                 /\ Brings(inbox[j], m)
                 /\ \A k \in i..j : ~Alters(inbox[k], m)

(* Snapshots and deltas are about one market. *)
OneEach ==
  \A i \in 1..Len(inbox) :
    inbox[i].kind \in {"snapshot", "delta"} => \E m \in MarketIds : inbox[i].markets = {m}

(* No frame is of earlier books than one before it, a delta is of later ones, and
   what is held is of no later ones than the last frame taken. *)
Forward ==
  \A m \in MarketIds :
    /\ kept[m].shows <= shown[m]
    /\ \A j \in 0..Len(inbox) :
         AsOf(j)[m] <= books[m] /\ \A i \in 0..j : AsOf(i)[m] <= AsOf(j)[m]
    /\ \A i \in 1..Len(inbox) : Alters(inbox[i], m) => AsOf(i - 1)[m] < inbox[i].books[m]

(* Between two frames a market that is vouched for changes by the delta that
   tells of it. *)
Chained ==
  \A m \in MarketIds : \A i \in 1..Len(inbox) :
    Vouched(i - 1, m) =>
      inbox[i].books[m] = AsOf(i - 1)[m] + (IF Alters(inbox[i], m) THEN 1 ELSE 0)

(* A market that comes to be vouched for is served, and has not changed since the
   last frame. *)
UpToDate ==
  \A m \in MarketIds :
    Vouched(Len(inbox), m) => m \in served /\ books[m] = AsOf(Len(inbox))[m]

(* What a reply grants, a snapshot follows before any delta does. *)
GrantsBring ==
  \A m \in MarketIds : \A i \in 1..Len(inbox) : Grants(inbox[i], m) => Comes(i + 1, m)

(* A mapped market that was not refused shows every change, or a snapshot comes
   before any delta. *)
Synced ==
  \A m \in streams \ refused : \/ kept[m].any /\ kept[m].shows = shown[m]
                               \/ Comes(1, m)

(* Requests are kept oldest first. *)
OldestFirst == \A i, j \in 1..Len(sent) : i <= j => sent[j] <= sent[i]

Chain   == OneEach /\ Forward /\ Chained /\ UpToDate /\ GrantsBring /\ Synced
FeedInv == FeedTypeOK /\ Chain /\ OldestFirst /\ BudgetIsKept /\ NobodyIsLeft

(* The invariant says what a reader may take for granted: a book that none is
   awaited for, and that was not refused, shows every change. *)
LEMMA BooksFollow ==
  ASSUME FeedInv
  PROVE  BooksAreTrue
<1>1. ASSUME NEW m \in MarketIds, m \in streams, m \notin refused, ~Awaited(m)
      PROVE  kept[m].shows = shown[m]
  <2>1. inbox \in Seq(Frames)  BY DEF FeedInv, FeedTypeOK
  <2>2. ASSUME Comes(1, m)
        PROVE  FALSE
    <3>1. PICK j \in 1..Len(inbox) : Brings(inbox[j], m) /\ \A k \in 1..j : ~Alters(inbox[k], m)
      BY <2>2 DEF Comes
    <3>2. j \in DOMAIN inbox /\ \A k \in 1..(j - 1) : k \in 1..j  BY <2>1, <3>1
    <3> QED  BY <1>1, <3>1, <3>2 DEF Brings, Alters, Awaited
  <2> QED  BY <1>1, <2>2 DEF FeedInv, Chain, Synced
<1>2. NothingIsMadeUp  BY DEF FeedInv, Chain, Forward, NothingIsMadeUp
<1> QED  BY <1>1, <1>2 DEF FeedInv, BooksAreTrue, FreshIsTrue, Live

(* Nothing of the chain moves. *)
LEMMA ChainRests ==
  ASSUME Chain, FeedTypeOK, UNCHANGED <<streams, refused, inbox, shown, served, books>>,
         \A m \in MarketIds : kept'[m].any = kept[m].any /\ kept'[m].shows = kept[m].shows
  PROVE  Chain'
<1>1. /\ streams' = streams /\ refused' = refused /\ inbox' = inbox /\ shown' = shown
      /\ served' = served /\ books' = books
  OBVIOUS
<1>2. \A i, m : Vouched(i, m)' <=> Vouched(i, m)  BY <1>1 DEF Vouched
<1>3. \A i : AsOf(i)' = AsOf(i)  BY <1>1 DEF AsOf
<1>4. \A i, m : Comes(i, m)' <=> Comes(i, m)  BY <1>1 DEF Comes
<1>5. OneEach'  BY <1>1 DEF Chain, OneEach
<1>10. Forward'  BY <1>1, <1>3 DEF Chain, Forward
<1>6. Chained'  BY <1>1, <1>2, <1>3 DEF Chain, Chained
<1>7. UpToDate'  BY <1>1, <1>2, <1>3 DEF Chain, UpToDate
<1>8. GrantsBring'  BY <1>1, <1>4 DEF Chain, GrantsBring
<1>9. Synced'
  <2>1. streams \subseteq MarketIds  BY DEF FeedTypeOK
  <2> QED  BY <1>1, <1>4, <2>1 DEF Chain, Synced
<1> QED  BY <1>5, <1>6, <1>7, <1>8, <1>9, <1>10 DEF Chain

(* A socket that goes takes its streams and its frames with it. *)
LEMMA ChainClears ==
  ASSUME Chain, FeedTypeOK, streams' = {}, inbox' = <<>>, UNCHANGED <<shown, kept, books>>
  PROVE  Chain'
<1>1. Len(inbox') = 0 /\ 1..Len(inbox') = {}  OBVIOUS
<1>2. \A m : ~Vouched(0, m)'  BY <1>1 DEF Vouched
<1>3. UpToDate'  BY <1>1, <1>2 DEF UpToDate
<1>4. OneEach' /\ Chained' /\ GrantsBring'  BY <1>1 DEF OneEach, Chained, GrantsBring
<1>5. Synced'  BY DEF Synced
<1>6. Forward'
  <2>1. \A m \in MarketIds : kept[m].shows <= shown[m] /\ shown[m] <= books[m]
    <3>1. 0 \in 0..Len(inbox) /\ AsOf(0) = shown  BY DEF AsOf, FeedTypeOK
    <3> QED  BY <3>1 DEF Chain, Forward
  <2>2. 0..Len(inbox') = {0} /\ AsOf(0)' = shown  BY <1>1 DEF AsOf
  <2>3. \A m \in MarketIds : shown[m] \in Nat  BY DEF FeedTypeOK
  <2>4. ASSUME NEW m \in MarketIds, NEW j \in 0..Len(inbox')
        PROVE  AsOf(j)'[m] <= books'[m] /\ \A i \in 0..j : AsOf(i)'[m] <= AsOf(j)'[m]
    BY <2>1, <2>2, <2>3
  <2> QED  BY <1>1, <2>1, <2>4 DEF Forward
<1> QED  BY <1>3, <1>4, <1>5, <1>6 DEF Chain

-------------------------------------------------------------------------------
(* Frames are added at the end: no frame before them says anything else. *)
LEMMA Grown ==
  ASSUME FeedTypeOK, streams' = streams, refused' = refused, shown' = shown,
         inbox' \in Seq(Frames), Len(inbox') >= Len(inbox),
         \A i \in 1..Len(inbox) : inbox'[i] = inbox[i]
  PROVE  /\ \A m : \A i \in 0..Len(inbox) : Vouched(i, m)' <=> Vouched(i, m)
         /\ \A i \in 0..Len(inbox) : AsOf(i)' = AsOf(i)
         /\ \A m : \A i \in 1..(Len(inbox) + 1) : Comes(i, m) => Comes(i, m)'
<1>1. Len(inbox) \in Nat /\ Len(inbox') \in Nat  BY DEF FeedTypeOK
<1>2. ASSUME NEW m, NEW i \in 0..Len(inbox)
      PROVE  Vouched(i, m)' <=> Vouched(i, m)
  <2>1. \A j \in 1..i : inbox'[j] = inbox[j]  BY <1>1
  <2>2. \A j \in 1..i : \A k \in (j + 1)..i : k \in 1..i  OBVIOUS
  <2> QED  BY <2>1, <2>2 DEF Vouched
<1>3. ASSUME NEW i \in 0..Len(inbox)
      PROVE  AsOf(i)' = AsOf(i)
  <2>1. i # 0 => inbox'[i] = inbox[i]  BY <1>1
  <2> QED  BY <2>1 DEF AsOf
<1>4. ASSUME NEW m, NEW i \in 1..(Len(inbox) + 1), Comes(i, m)
      PROVE  Comes(i, m)'
  <2>1. PICK j \in i..Len(inbox) : Brings(inbox[j], m) /\ \A k \in i..j : ~Alters(inbox[k], m)
    BY <1>4 DEF Comes
  <2>2. j \in i..Len(inbox')  BY <1>1
  <2>3. \A k \in i..j : inbox'[k] = inbox[k]  BY <1>1
  <2>4. Brings(inbox'[j], m)  BY <2>1, <2>3, <1>1
  <2>5. \A k \in i..j : ~Alters(inbox'[k], m)  BY <2>1, <2>3
  <2> QED  BY <2>2, <2>4, <2>5 DEF Comes
<1> QED  BY <1>2, <1>3, <1>4

(* What is synced stays so, when a book keeps what it shows. *)
LEMMA SyncedGrows ==
  ASSUME FeedTypeOK, Chain, streams' = streams, refused' = refused, shown' = shown, kept' = kept,
         inbox' \in Seq(Frames), Len(inbox') >= Len(inbox),
         \A i \in 1..Len(inbox) : inbox'[i] = inbox[i]
  PROVE  Synced'
<1>1. Len(inbox) \in Nat  BY DEF FeedTypeOK
<1>2. \A m : Comes(1, m) => Comes(1, m)'  BY <1>1, Grown
<1> QED  BY <1>2 DEF Chain, Synced

(* Frames that show the books as they are, none of them a delta: what they grant
   is served, and they bring it. *)
LEMMA ChainGrows ==
  ASSUME FeedTypeOK, Chain, UNCHANGED <<streams, refused, shown, kept, books>>,
         \A m \in served \ served' : \E i \in (Len(inbox) + 1)..Len(inbox') : Denies(inbox'[i], m),
         inbox' \in Seq(Frames), Len(inbox') > Len(inbox),
         \A i \in 1..Len(inbox) : inbox'[i] = inbox[i],
         \A i \in (Len(inbox) + 1)..Len(inbox') :
           /\ inbox'[i].books = books /\ inbox'[i].kind # "delta"
           /\ inbox'[i].kind = "snapshot" => \E m \in MarketIds : inbox'[i].markets = {m}
           /\ \A m : Grants(inbox'[i], m) =>
                m \in served' /\ \E j \in (i + 1)..Len(inbox') : Brings(inbox'[j], m)
  PROVE  Chain'
<1>1. Len(inbox) \in Nat /\ Len(inbox') \in Nat  BY DEF FeedTypeOK
<1>0. PICK L, M : L = Len(inbox) /\ M = Len(inbox')  OBVIOUS
<1>2. L \in Nat /\ M \in Nat /\ M > L /\ L = Len(inbox) /\ M = Len(inbox')  BY <1>0, <1>1
<1>3. /\ \A m : \A i \in 0..L : Vouched(i, m)' <=> Vouched(i, m)
      /\ \A i \in 0..L : AsOf(i)' = AsOf(i)
      /\ \A m : \A i \in 1..(L + 1) : Comes(i, m) => Comes(i, m)'
  BY Grown, <1>2
<1>4. \A i \in 1..M : i \in 1..L \/ i \in (L + 1)..M  BY <1>2
<1>5. \A i \in (L + 1)..M : AsOf(i)' = books  BY <1>2 DEF AsOf
<1>6. OneEach'
  <2>1. ASSUME NEW i \in 1..M, inbox'[i].kind \in {"snapshot", "delta"}
        PROVE  \E m \in MarketIds : inbox'[i].markets = {m}
    <3>1. CASE i \in 1..L  BY <1>2, <3>1, <2>1 DEF Chain, OneEach
    <3>2. CASE i \in (L + 1)..M  BY <1>2, <3>2, <2>1
    <3> QED  BY <3>1, <3>2, <1>4
  <2> QED  BY <1>2, <2>1 DEF OneEach
<1>7. ASSUME NEW m \in MarketIds, Vouched(L, m)
      PROVE  books[m] = AsOf(L)'[m]
  BY <1>7, <1>2, <1>3 DEF Chain, UpToDate
<1>8. Chained'
  <2>1. ASSUME NEW m \in MarketIds, NEW i \in 1..M, Vouched(i - 1, m)'
        PROVE  inbox'[i].books[m] = AsOf(i - 1)'[m] + (IF Alters(inbox'[i], m) THEN 1 ELSE 0)
    <3>1. CASE i \in 1..L
      <4>1. i - 1 \in 0..L /\ inbox'[i] = inbox[i]  BY <3>1, <1>2
      <4>2. Vouched(i - 1, m) /\ AsOf(i - 1)' = AsOf(i - 1)  BY <4>1, <2>1, <1>3
      <4> QED  BY <1>2, <4>1, <4>2, <3>1 DEF Chain, Chained
    <3>2. CASE i \in (L + 1)..M
      <4>1. inbox'[i].books = books /\ ~Alters(inbox'[i], m)  BY <1>2, <3>2 DEF Alters
      <4>2. AsOf(i - 1)'[m] = books[m]
        <5>1. CASE i = L + 1
          <6>1. i - 1 = L  BY <5>1, <1>2
          <6>2. Vouched(L, m)  BY <6>1, <2>1, <1>2, <1>3
          <6> QED  BY <6>1, <6>2, <1>7
        <5>2. CASE i # L + 1
          <6>1. i - 1 \in (L + 1)..M  BY <5>2, <3>2, <1>2
          <6> QED  BY <6>1, <1>5
        <5> QED  BY <5>1, <5>2
      <4>3. books[m] \in Nat  BY DEF FeedTypeOK
      <4> QED  BY <4>1, <4>2, <4>3
    <3> QED  BY <3>1, <3>2, <1>4
  <2> QED  BY <1>2, <2>1 DEF Chained
<1>9. UpToDate'
  <2>1. ASSUME NEW m \in MarketIds, Vouched(M, m)'
        PROVE  m \in served' /\ books[m] = AsOf(M)'[m]
    <3>1. books[m] = AsOf(M)'[m]
      <4>1. M \in (L + 1)..M  BY <1>2
      <4> QED  BY <4>1, <1>5
    <3>2. CASE \E j \in (L + 1)..M : Grants(inbox'[j], m)  BY <1>2, <3>1, <3>2
    <3>3. CASE \A j \in (L + 1)..M : ~Grants(inbox'[j], m)
      <4>1. \A k \in 1..M : k \in 1..L => inbox'[k] = inbox[k]  BY <1>2
      <4>2. \A k \in 1..L : k \in 1..M  BY <1>2
      <4>3. \A k \in (L + 1)..M : k \in 1..M  BY <1>2
      <4>4. CASE m \in streams' \ refused' /\ \A k \in 1..M : ~Denies(inbox'[k], m)
        <5>1. Vouched(L, m)' /\ \A k \in (L + 1)..M : ~Denies(inbox'[k], m)
          BY <4>2, <4>3, <4>4 DEF Vouched
        <5>2. Vouched(L, m)  BY <5>1, <1>2, <1>3
        <5> QED  BY <5>1, <5>2, <1>2, <3>1 DEF Chain, UpToDate
      <4>5. ASSUME NEW j \in 1..M, Grants(inbox'[j], m), \A k \in (j + 1)..M : ~Denies(inbox'[k], m)
            PROVE  m \in served'
        <5>1. j \in 1..L  BY <4>5, <3>3, <1>4
        <5>2. \A k \in (j + 1)..L : k \in (j + 1)..M  BY <1>2
        <5>3. \A k \in (L + 1)..M : k \in (j + 1)..M  BY <1>2, <5>1
        <5>4. Vouched(L, m)'  BY <4>5, <5>1, <5>2 DEF Vouched
        <5>5. Vouched(L, m)  BY <5>4, <1>2, <1>3
        <5> QED  BY <4>5, <5>3, <5>5, <1>2 DEF Chain, UpToDate
      <4> QED  BY <4>4, <4>5, <3>1, <2>1 DEF Vouched
    <3> QED  BY <3>2, <3>3
  <2> QED  BY <1>2, <2>1 DEF UpToDate
<1>10. GrantsBring'
  <2>1. ASSUME NEW m \in MarketIds, NEW i \in 1..M, Grants(inbox'[i], m)
        PROVE  Comes(i + 1, m)'
    <3>1. CASE i \in 1..L
      <4>1. Comes(i + 1, m)  BY <1>2, <2>1, <3>1 DEF Chain, GrantsBring
      <4>2. i + 1 \in 1..(L + 1)  BY <3>1, <1>2
      <4> QED  BY <4>1, <4>2, <1>3
    <3>2. CASE i \in (L + 1)..M
      <4>1. PICK j \in (i + 1)..M : Brings(inbox'[j], m)  BY <1>2, <3>2, <2>1
      <4>2. \A k \in (i + 1)..j : k \in (L + 1)..M  BY <3>2, <4>1, <1>2
      <4>3. \A k \in (i + 1)..j : ~Alters(inbox'[k], m)  BY <1>2, <4>2 DEF Alters
      <4> QED  BY <1>2, <4>1, <4>3 DEF Comes
    <3> QED  BY <3>1, <3>2, <1>4
  <2> QED  BY <1>2, <2>1 DEF GrantsBring
<1>11. Synced'  BY SyncedGrows, <1>2
<1>12. Forward'
  <2>1. \A i \in 0..M : i \in 0..L \/ i \in (L + 1)..M  BY <1>2
  <2>2. ASSUME NEW m \in MarketIds
        PROVE  \A i \in 0..L : AsOf(i)[m] <= books[m]
    BY <1>2 DEF Chain, Forward
  <2>3. ASSUME NEW m \in MarketIds, NEW j \in 0..M
        PROVE  AsOf(j)'[m] <= books'[m] /\ \A i \in 0..j : AsOf(i)'[m] <= AsOf(j)'[m]
    <3>1. CASE j \in 0..L
      <4>1. \A i \in 0..j : i \in 0..L  BY <3>1, <1>2
      <4> QED  BY <3>1, <4>1, <1>2, <1>3 DEF Chain, Forward
    <3>2. CASE j \in (L + 1)..M
      <4>1. AsOf(j)' = books /\ books[m] \in Nat  BY <3>2, <1>5 DEF FeedTypeOK
      <4>2. \A i \in 0..j : i \in 0..L \/ i \in (L + 1)..M  BY <3>2, <1>2
      <4>3. \A i \in 0..j : AsOf(i)'[m] <= books[m]  BY <4>1, <4>2, <2>2, <1>3, <1>5
      <4> QED  BY <4>1, <4>3
    <3> QED  BY <3>1, <3>2, <2>1
  <2>4. ASSUME NEW m \in MarketIds, NEW i \in 1..M, Alters(inbox'[i], m)
        PROVE  AsOf(i - 1)'[m] < inbox'[i].books[m]
    <3>1. i \in 1..L  BY <2>4, <1>2, <1>4 DEF Alters
    <3>2. i - 1 \in 0..L /\ inbox'[i] = inbox[i]  BY <3>1, <1>2
    <3> QED  BY <2>4, <3>1, <3>2, <1>2, <1>3 DEF Chain, Forward
  <2>5. \A m \in MarketIds : kept'[m].shows <= shown'[m]  BY DEF Chain, Forward
  <2> QED  BY <1>2, <2>3, <2>4, <2>5 DEF Forward
<1> QED  BY <1>6, <1>8, <1>9, <1>10, <1>11, <1>12 DEF Chain

(* The books of a frame are numbers of changes. *)
LEMMA BooksAreBooks ==
  ASSUME FeedTypeOK
  PROVE  \A i \in 0..Len(inbox) : \A m \in MarketIds : AsOf(i)[m] \in Nat
<1>1. inbox \in Seq(Frames) /\ shown \in [MarketIds -> 0..MaxChanges]  BY DEF FeedTypeOK
<1>2. \A i \in 0..Len(inbox) : i = 0 \/ i \in 1..Len(inbox)  OBVIOUS
<1>3. \A i \in 1..Len(inbox) : inbox[i] \in Frames  BY <1>1
<1> QED  BY <1>1, <1>2, <1>3 DEF AsOf, Frames

(* A market changes: who serves it tells of it, and nobody else is vouched for. *)
LEMMA ChainChanges ==
  ASSUME FeedAssumption, FeedTypeOK, Chain, NEW n \in MarketIds, Changes(n)
  PROVE  Chain'
<1>1. /\ UNCHANGED <<streams, refused, shown, kept, served>>
      /\ books[n] < MaxChanges /\ books' = [books EXCEPT ![n] = @ + 1]
      /\ books \in [MarketIds -> 0..MaxChanges] /\ inbox \in Seq(Frames)
  BY DEF Changes, memory, FeedTypeOK
<1>2. \A m \in MarketIds : books'[m] = books[m] + (IF m = n THEN 1 ELSE 0)  BY <1>1
<1>3. CASE n \notin served
  <2>1. inbox' = inbox  BY <1>3 DEF Changes
  <2>2. \A i, m : Vouched(i, m)' <=> Vouched(i, m)  BY <1>1, <2>1 DEF Vouched
  <2>3. \A i : AsOf(i)' = AsOf(i)  BY <1>1, <2>1 DEF AsOf
  <2>4. \A i, m : Comes(i, m)' <=> Comes(i, m)  BY <2>1 DEF Comes
  <2>5. OneEach'  BY <2>1 DEF Chain, OneEach
  <2>6. Chained'  BY <2>1, <2>2, <2>3 DEF Chain, Chained
  <2>7. UpToDate'
    <3>1. ASSUME NEW m \in MarketIds, Vouched(Len(inbox), m)
          PROVE  m \in served /\ books'[m] = AsOf(Len(inbox))[m]
      <4>1. m \in served /\ books[m] = AsOf(Len(inbox))[m]  BY <3>1 DEF Chain, UpToDate
      <4>2. m # n  BY <4>1, <1>3
      <4> QED  BY <4>1, <4>2, <1>1
    <3> QED  BY <3>1, <2>1, <2>2, <2>3, <1>1 DEF UpToDate
  <2>8. GrantsBring'  BY <2>1, <2>4 DEF Chain, GrantsBring
  <2>9. Synced'  BY <1>1, <2>4 DEF Chain, Synced
  <2>10. Forward'
    <3>1. ASSUME NEW m \in MarketIds, NEW j \in 0..Len(inbox)
          PROVE  AsOf(j)[m] <= books'[m]
      <4>1. AsOf(j)[m] <= books[m]  BY DEF Chain, Forward
      <4>2. AsOf(j)[m] \in Nat  BY <1>1, BooksAreBooks
      <4> QED  BY <4>1, <4>2, <1>1, <1>2
    <3> QED  BY <3>1, <1>1, <2>1, <2>3 DEF Chain, Forward
  <2> QED  BY <2>5, <2>6, <2>7, <2>8, <2>9, <2>10 DEF Chain
<1>4. CASE n \in served
  <2>1. PICK L : L = Len(inbox)  OBVIOUS
  <2>2. PICK f : f = [Frame("delta", {n}) EXCEPT !.books = books']  OBVIOUS
  <2>3. f.kind = "delta" /\ f.markets = {n} /\ f.books = books'  BY <2>2 DEF Frame
  <2>4. inbox' = Append(inbox, f)  BY <1>4, <2>2 DEF Changes
  <2>5. /\ L \in Nat /\ L = Len(inbox) /\ L + 1 = Len(inbox') /\ inbox'[L + 1] = f
        /\ \A i \in 1..L : inbox'[i] = inbox[i]
    BY <2>1, <2>4, <1>1
  <2>6. inbox' \in Seq(Frames)
    <3>1. books' \in [MarketIds -> 0..MaxChanges]
      <4>1. books[n] + 1 \in 0..MaxChanges  BY <1>1 DEF FeedAssumption
      <4> QED  BY <1>1, <4>1
    <3>2. f \in Frames  BY <2>2, <3>1 DEF Frame, Frames
    <3> QED  BY <3>2, <2>4, <1>1
  <2>7. /\ \A m : \A i \in 0..L : Vouched(i, m)' <=> Vouched(i, m)
        /\ \A i \in 0..L : AsOf(i)' = AsOf(i)
        /\ \A m : \A i \in 1..(L + 1) : Comes(i, m) => Comes(i, m)'
    BY Grown, <2>5, <2>6, <1>1
  <2>8. \A i \in 1..(L + 1) : i \in 1..L \/ i = L + 1  BY <2>5
  <2>9. \A m : ~Grants(f, m)  BY <2>3 DEF Grants
  <2>10. OneEach'
    <3>1. ASSUME NEW i \in 1..(L + 1), inbox'[i].kind \in {"snapshot", "delta"}
          PROVE  \E m \in MarketIds : inbox'[i].markets = {m}
      <4>1. CASE i \in 1..L  BY <2>5, <4>1, <3>1 DEF Chain, OneEach
      <4>2. CASE i = L + 1  BY <2>5, <4>2, <2>3
      <4> QED  BY <4>1, <4>2, <2>8
    <3> QED  BY <3>1, <2>5 DEF OneEach
  <2>11. Chained'
    <3>1. ASSUME NEW m \in MarketIds, NEW i \in 1..(L + 1), Vouched(i - 1, m)'
          PROVE  inbox'[i].books[m] = AsOf(i - 1)'[m] + (IF Alters(inbox'[i], m) THEN 1 ELSE 0)
      <4>1. i - 1 \in 0..L  BY <2>5
      <4>2. Vouched(i - 1, m) /\ AsOf(i - 1)' = AsOf(i - 1)  BY <4>1, <3>1, <2>7
      <4>3. CASE i \in 1..L
        <5>1. inbox'[i] = inbox[i]  BY <4>3, <2>5
        <5> QED  BY <4>2, <4>3, <5>1, <2>5 DEF Chain, Chained
      <4>4. CASE i = L + 1
        <5>1. i - 1 = L  BY <4>4, <2>5
        <5>2. books[m] = AsOf(L)[m]  BY <4>2, <5>1, <2>5 DEF Chain, UpToDate
        <5>3. AsOf(i - 1)'[m] = books[m]  BY <4>2, <5>1, <5>2
        <5>4. inbox'[i].books[m] = books[m] + (IF m = n THEN 1 ELSE 0)  BY <4>4, <2>3, <2>5, <1>2
        <5>5. Alters(inbox'[i], m) <=> m = n  BY <4>4, <2>3, <2>5 DEF Alters
        <5> QED  BY <5>3, <5>4, <5>5
      <4> QED  BY <4>3, <4>4, <2>8
    <3> QED  BY <3>1, <2>5 DEF Chained
  <2>12. UpToDate'
    <3>1. ASSUME NEW m \in MarketIds, Vouched(L + 1, m)'
          PROVE  m \in served /\ books'[m] = AsOf(L + 1)'[m]
      <4>1. Vouched(L, m)'
        <5>1. \A j \in 1..(L + 1) : Grants(inbox'[j], m) => j \in 1..L  BY <2>5, <2>8, <2>9
        <5>2. \A k \in 1..L : k \in 1..(L + 1)  BY <2>5
        <5>3. \A j \in 1..L : \A k \in (j + 1)..L : k \in (j + 1)..(L + 1)  BY <2>5
        <5> QED  BY <5>1, <5>2, <5>3, <3>1 DEF Vouched
      <4>2. Vouched(L, m)  BY <4>1, <2>5, <2>7
      <4>3. m \in served  BY <4>2, <2>5 DEF Chain, UpToDate
      <4>4. AsOf(L + 1)' = books'  BY <2>3, <2>5 DEF AsOf
      <4> QED  BY <4>3, <4>4
    <3> QED  BY <3>1, <2>5, <1>1 DEF UpToDate
  <2>13. GrantsBring'
    <3>1. ASSUME NEW m \in MarketIds, NEW i \in 1..(L + 1), Grants(inbox'[i], m)
          PROVE  Comes(i + 1, m)'
      <4>1. i \in 1..L /\ inbox'[i] = inbox[i]  BY <3>1, <2>5, <2>8, <2>9
      <4>2. Comes(i + 1, m)  BY <3>1, <4>1, <2>5 DEF Chain, GrantsBring
      <4>3. i + 1 \in 1..(L + 1)  BY <4>1, <2>5
      <4> QED  BY <4>2, <4>3, <2>7
    <3> QED  BY <3>1, <2>5 DEF GrantsBring
  <2>14. Synced'  BY SyncedGrows, <2>5, <2>6, <1>1
  <2>15. Forward'
    <3>1. AsOf(L + 1)' = books'  BY <2>3, <2>5 DEF AsOf
    <3>2. \A i \in 0..(L + 1) : i \in 0..L \/ i = L + 1  BY <2>5
    <3>3. ASSUME NEW m \in MarketIds
          PROVE  /\ \A i \in 0..L : AsOf(i)'[m] <= books[m] /\ AsOf(i)'[m] <= books'[m]
                 /\ books[m] \in Nat /\ books'[m] \in Nat
      <4>1. \A i \in 0..L : AsOf(i)[m] <= books[m] /\ AsOf(i)[m] \in Nat
        BY <2>5, <1>1, BooksAreBooks DEF Chain, Forward
      <4>2. books[m] \in Nat /\ books'[m] \in Nat /\ books[m] <= books'[m]  BY <1>1, <1>2
      <4> QED  BY <4>1, <4>2, <2>7
    <3>4. ASSUME NEW m \in MarketIds, NEW j \in 0..(L + 1)
          PROVE  AsOf(j)'[m] <= books'[m] /\ \A i \in 0..j : AsOf(i)'[m] <= AsOf(j)'[m]
      <4>1. CASE j \in 0..L
        <5>1. \A i \in 0..j : i \in 0..L  BY <4>1, <2>5
        <5>2. \A i \in 0..j : AsOf(i)[m] <= AsOf(j)[m]  BY <4>1, <2>5 DEF Chain, Forward
        <5> QED  BY <4>1, <5>1, <5>2, <3>3, <2>7
      <4>2. CASE j = L + 1
        <5>1. \A i \in 0..j : i \in 0..L \/ i = L + 1  BY <4>2, <2>5
        <5> QED  BY <4>2, <5>1, <3>1, <3>3
      <4> QED  BY <4>1, <4>2, <3>2
    <3>5. ASSUME NEW m \in MarketIds, NEW i \in 1..(L + 1), Alters(inbox'[i], m)
          PROVE  AsOf(i - 1)'[m] < inbox'[i].books[m]
      <4>1. i - 1 \in 0..L  BY <2>5
      <4>2. CASE i \in 1..L
        <5>1. inbox'[i] = inbox[i] /\ AsOf(i - 1)' = AsOf(i - 1)  BY <4>1, <4>2, <2>5, <2>7
        <5> QED  BY <3>5, <4>2, <5>1, <2>5 DEF Chain, Forward
      <4>3. CASE i = L + 1
        <5>1. m = n /\ inbox'[i].books = books'  BY <3>5, <4>3, <2>3, <2>5 DEF Alters
        <5>2. AsOf(i - 1)'[m] <= books[m] /\ AsOf(i - 1)'[m] \in Nat
          <6>1. AsOf(i - 1)[m] \in Nat  BY <4>1, <2>5, <1>1, BooksAreBooks
          <6> QED  BY <4>1, <3>3, <6>1, <2>7
        <5> QED  BY <5>1, <5>2, <3>3, <1>2
      <4> QED  BY <4>2, <4>3, <2>8
    <3>6. \A m \in MarketIds : kept'[m].shows <= shown'[m]  BY <1>1 DEF Chain, Forward
    <3> QED  BY <3>4, <3>5, <3>6, <2>5 DEF Forward
  <2> QED  BY <2>10, <2>11, <2>12, <2>13, <2>14, <2>15 DEF Chain
<1> QED  BY <1>3, <1>4

-------------------------------------------------------------------------------
(* The first frame is taken. *)
LEMMA FrameIsFirst ==
  ASSUME FeedTypeOK, TakesFrame
  PROVE  /\ inbox[1] \in Frames /\ Head(inbox) = inbox[1] /\ shown' = inbox[1].books
         /\ inbox' \in Seq(Frames) /\ Len(inbox) \in Nat \ {0} /\ Len(inbox') = Len(inbox) - 1
         /\ \A i \in 1..(Len(inbox) - 1) : inbox'[i] = inbox[i + 1]
<1>1. inbox \in Seq(Frames) /\ inbox # <<>> /\ inbox' = Tail(inbox) /\ shown' = Head(inbox).books
  BY DEF FeedTypeOK, TakesFrame
<1>2. Len(inbox) \in Nat \ {0} /\ Head(inbox) = inbox[1] /\ inbox[1] \in Frames  BY <1>1
<1>3. /\ Tail(inbox) \in Seq(Frames) /\ Len(Tail(inbox)) = Len(inbox) - 1
      /\ \A i \in 1..Len(Tail(inbox)) : Tail(inbox)[i] = inbox[i + 1]
  BY <1>1, HeadTailProperties
<1> QED  BY <1>1, <1>2, <1>3

(* What the first frame leaves of one market's book. *)
LEMMA FrameStores ==
  ASSUME FeedTypeOK, Chain, TakesFrame
  PROVE  /\ \A m \in streams' : m \in streams \/ Grants(inbox[1], m)
         /\ \A m \in streams' \ refused' :
              ~Denies(inbox[1], m) /\ (m \in streams \ refused \/ Grants(inbox[1], m))
         /\ \A m \in MarketIds :
              kept'[m] = IF m \in streams /\ Brings(inbox[1], m)
                         THEN [any |-> TRUE, shows |-> inbox[1].books[m], age |-> 0]
                         ELSE IF m \in streams /\ Alters(inbox[1], m) /\ kept[m].any
                              THEN [any |-> TRUE, shows |-> kept[m].shows + 1, age |-> 0]
                              ELSE kept[m]
         /\ kept' = [m \in MarketIds |-> kept'[m]]
<1>1. PICK f : f = inbox[1]  OBVIOUS
<1>2. /\ f \in Frames /\ Len(inbox) \in Nat \ {0}
      /\ TakesReply(f) \/ TakesSnapshot(f) \/ TakesDelta(f) \/ TakesHeartbeat(f)
  BY <1>1, FrameIsFirst DEF TakesFrame
<1>3. f.kind \in {"snapshot", "delta"} => \E m \in MarketIds : f.markets = {m}
  BY <1>1, <1>2 DEF Chain, OneEach
<1>4. DOMAIN kept = MarketIds /\ kept = [m \in MarketIds |-> kept[m]]  BY DEF FeedTypeOK
<1>5. CASE TakesReply(f)
  <2>1. /\ f.kind = "reply" /\ kept' = kept /\ streams' = streams \cup f.markets
        /\ refused' = (refused \ f.markets) \cup f.no
    BY <1>5 DEF TakesReply
  <2>2. \A m : ~Brings(f, m) /\ ~Alters(f, m)  BY <2>1 DEF Brings, Alters
  <2> QED  BY <1>1, <1>4, <2>1, <2>2 DEF Grants, Denies
<1>6. CASE TakesSnapshot(f)
  <2>1. /\ f.kind = "snapshot" /\ streams' = streams /\ refused' = refused
        /\ \A m : ~Denies(f, m)
    BY <1>6 DEF TakesSnapshot, Denies
  <2>2. PICK n \in MarketIds : f.markets = {n}  BY <1>3, <2>1
  <2>3. IF n \in streams THEN Stores(n, f.books[n]) ELSE kept' = kept
    BY <1>6, <2>2 DEF TakesSnapshot
  <2>4. \A m : (Brings(f, m) <=> m = n) /\ ~Alters(f, m)  BY <2>1, <2>2 DEF Brings, Alters
  <2>5. CASE n \in streams
    <3>1. kept' = [kept EXCEPT ![n] = [any |-> TRUE, shows |-> f.books[n], age |-> 0]]
      BY <2>3, <2>5 DEF Stores
    <3> QED  BY <1>1, <1>4, <2>1, <2>2, <2>4, <2>5, <3>1
  <2>6. CASE n \notin streams  BY <1>1, <1>4, <2>1, <2>3, <2>4, <2>6
  <2> QED  BY <2>5, <2>6
<1>7. CASE TakesDelta(f)
  <2>1. /\ f.kind = "delta" /\ streams' = streams /\ refused' = refused
        /\ \A m : ~Denies(f, m)
    BY <1>7 DEF TakesDelta, Denies
  <2>2. PICK n \in MarketIds : f.markets = {n}  BY <1>3, <2>1
  <2>3. IF n \in streams /\ kept[n].any THEN Stores(n, kept[n].shows + 1) ELSE kept' = kept
    BY <1>7, <2>2 DEF TakesDelta
  <2>4. \A m : (Alters(f, m) <=> m = n) /\ ~Brings(f, m)  BY <2>1, <2>2 DEF Brings, Alters
  <2>5. CASE n \in streams /\ kept[n].any
    <3>1. kept' = [kept EXCEPT ![n] = [any |-> TRUE, shows |-> kept[n].shows + 1, age |-> 0]]
      BY <2>3, <2>5 DEF Stores
    <3> QED  BY <1>1, <1>4, <2>1, <2>2, <2>4, <2>5, <3>1
  <2>6. CASE ~(n \in streams /\ kept[n].any)  BY <1>1, <1>4, <2>1, <2>3, <2>4, <2>6
  <2> QED  BY <2>5, <2>6
<1>8. CASE TakesHeartbeat(f)
  <2>1. /\ f.kind = "heartbeat" /\ streams' = streams /\ refused' = refused /\ kept' = kept
        /\ \A m : ~Denies(f, m)
    BY <1>8 DEF TakesHeartbeat, Denies
  <2>2. \A m : ~Brings(f, m) /\ ~Alters(f, m)  BY <2>1 DEF Brings, Alters
  <2> QED  BY <1>1, <1>4, <2>1, <2>2
<1> QED  BY <1>2, <1>5, <1>6, <1>7, <1>8

(* A book that is synced shows what the frame says; so does one a snapshot is in. *)
LEMMA FrameSyncs ==
  ASSUME FeedTypeOK, Chain, TakesFrame, NEW m \in streams \ refused,
         (kept[m].any /\ kept[m].shows = shown[m]) \/ Brings(inbox[1], m)
  PROVE  kept'[m].any /\ kept'[m].shows = inbox[1].books[m]
<1>1. PICK f : f = inbox[1]  OBVIOUS
<1>2. m \in MarketIds /\ kept[m].shows \in Nat /\ shown[m] \in Nat /\ 1 \in 1..Len(inbox)
  <2>1. m \in MarketIds  BY DEF FeedTypeOK
  <2> QED  BY <2>1, FrameIsFirst DEF FeedTypeOK
<1>3. CASE Brings(f, m)  BY <1>1, <1>2, <1>3, FrameStores
<1>4. CASE ~Brings(f, m)
  <2>1. kept[m].any /\ kept[m].shows = shown[m]  BY <1>1, <1>4
  <2>2. f.books[m] = shown[m] + (IF Alters(f, m) THEN 1 ELSE 0)
    <3>1. Vouched(1 - 1, m) /\ AsOf(1 - 1) = shown  BY DEF Vouched, AsOf
    <3> QED  BY <1>1, <1>2, <3>1 DEF Chain, Chained
  <2>3. kept'[m] = IF Alters(f, m)
                   THEN [any |-> TRUE, shows |-> kept[m].shows + 1, age |-> 0]
                   ELSE kept[m]
    BY <1>1, <1>2, <1>4, <2>1, FrameStores
  <2>4. CASE Alters(f, m)  BY <1>1, <1>2, <2>1, <2>2, <2>3, <2>4
  <2>5. CASE ~Alters(f, m)  BY <1>1, <1>2, <2>1, <2>2, <2>3, <2>5
  <2> QED  BY <2>4, <2>5
<1> QED  BY <1>3, <1>4

LEMMA ChainTakes ==
  ASSUME FeedTypeOK, Chain, TakesFrame
  PROVE  Chain'
<1>1. PICK L : L = Len(inbox)  OBVIOUS
<1>2. /\ L \in Nat \ {0} /\ L = Len(inbox) /\ Len(inbox') = L - 1
      /\ \A i \in 1..(L - 1) : inbox'[i] = inbox[i + 1]
      /\ shown' = inbox[1].books
  BY <1>1, FrameIsFirst
<1>3. books' = books /\ served' = served /\ streams \subseteq MarketIds
  BY DEF TakesFrame, FeedTypeOK
<1>4. ASSUME NEW m, NEW i \in 0..(L - 1), Vouched(i, m)'
      PROVE  Vouched(i + 1, m)
  <2>1. ASSUME NEW k \in 2..(i + 1)
        PROVE  inbox[k] = inbox'[k - 1] /\ k - 1 \in 1..i
    <3>1. k - 1 \in 1..(L - 1) /\ k - 1 \in 1..i /\ (k - 1) + 1 = k  BY <1>2
    <3> QED  BY <3>1, <1>2
  <2>2. CASE m \in streams' \ refused' /\ \A k \in 1..i : ~Denies(inbox'[k], m)
    <3>1. ~Denies(inbox[1], m) /\ (m \in streams \ refused \/ Grants(inbox[1], m))
      BY <2>2, FrameStores
    <3>2. \A k \in 2..(i + 1) : ~Denies(inbox[k], m)  BY <2>1, <2>2
    <3>3. \A k \in 1..(i + 1) : k = 1 \/ k \in 2..(i + 1)  BY <1>2
    <3>4. 1 \in 1..(i + 1) /\ 1 + 1 = 2  BY <1>2
    <3> QED  BY <3>1, <3>2, <3>3, <3>4 DEF Vouched
  <2>3. ASSUME NEW j \in 1..i, Grants(inbox'[j], m), \A k \in (j + 1)..i : ~Denies(inbox'[k], m)
        PROVE  Vouched(i + 1, m)
    <3>1. j + 1 \in 1..(i + 1) /\ inbox'[j] = inbox[j + 1]  BY <1>2
    <3>2. ASSUME NEW k \in ((j + 1) + 1)..(i + 1)
          PROVE  ~Denies(inbox[k], m)
      <4>1. k \in 2..(i + 1) /\ k - 1 \in (j + 1)..i  BY <1>2
      <4> QED  BY <4>1, <2>1, <2>3
    <3> QED  BY <2>3, <3>1, <3>2 DEF Vouched
  <2> QED  BY <1>4, <2>2, <2>3 DEF Vouched
<1>5. ASSUME NEW i \in 0..(L - 1)
      PROVE  AsOf(i)' = AsOf(i + 1)
  <2>1. CASE i = 0  BY <2>1, <1>2 DEF AsOf
  <2>2. CASE i # 0
    <3>1. i \in 1..(L - 1) /\ i + 1 # 0  BY <2>2, <1>2
    <3> QED  BY <3>1, <2>2, <1>2 DEF AsOf
  <2> QED  BY <2>1, <2>2
<1>6. ASSUME NEW m, NEW i \in 1..L, Comes(i + 1, m)
      PROVE  Comes(i, m)'
  <2>1. PICK j \in (i + 1)..L : Brings(inbox[j], m) /\ \A k \in (i + 1)..j : ~Alters(inbox[k], m)
    BY <1>2, <1>6 DEF Comes
  <2>2. PICK h : h = j - 1  OBVIOUS
  <2>3. h \in i..(L - 1) /\ h + 1 = j /\ inbox'[h] = inbox[j]  BY <1>2, <2>2
  <2>4. ASSUME NEW k \in i..h
        PROVE  ~Alters(inbox'[k], m)
    <3>1. k + 1 \in (i + 1)..j /\ inbox'[k] = inbox[k + 1]  BY <1>2, <2>3
    <3> QED  BY <3>1, <2>1
  <2> QED  BY <1>2, <2>1, <2>3, <2>4 DEF Comes
<1>7. OneEach'
  <2>1. ASSUME NEW i \in 1..(L - 1), inbox'[i].kind \in {"snapshot", "delta"}
        PROVE  \E m \in MarketIds : inbox'[i].markets = {m}
    <3>1. i + 1 \in 1..L /\ inbox'[i] = inbox[i + 1]  BY <1>2
    <3> QED  BY <3>1, <2>1, <1>2 DEF Chain, OneEach
  <2> QED  BY <2>1, <1>2 DEF OneEach
<1>8. Chained'
  <2>1. ASSUME NEW m \in MarketIds, NEW i \in 1..(L - 1), Vouched(i - 1, m)'
        PROVE  inbox'[i].books[m] = AsOf(i - 1)'[m] + (IF Alters(inbox'[i], m) THEN 1 ELSE 0)
    <3>1. /\ i + 1 \in 1..L /\ i - 1 \in 0..(L - 1) /\ (i - 1) + 1 = i /\ (i + 1) - 1 = i
          /\ inbox'[i] = inbox[i + 1]
      BY <1>2
    <3>2. Vouched(i, m)  BY <3>1, <2>1, <1>4
    <3>3. AsOf(i - 1)' = AsOf(i)  BY <3>1, <1>5
    <3>4. inbox[i + 1].books[m] = AsOf(i)[m] + (IF Alters(inbox[i + 1], m) THEN 1 ELSE 0)
      BY <3>1, <3>2, <1>2 DEF Chain, Chained
    <3> QED  BY <3>1, <3>3, <3>4
  <2> QED  BY <2>1, <1>2 DEF Chained
<1>9. UpToDate'
  <2>1. ASSUME NEW m \in MarketIds, Vouched(L - 1, m)'
        PROVE  m \in served /\ books[m] = AsOf(L - 1)'[m]
    <3>1. L - 1 \in 0..(L - 1) /\ (L - 1) + 1 = L  BY <1>2
    <3>2. Vouched(L, m) /\ AsOf(L - 1)' = AsOf(L)  BY <3>1, <2>1, <1>4, <1>5
    <3> QED  BY <3>2, <1>2 DEF Chain, UpToDate
  <2> QED  BY <2>1, <1>2, <1>3 DEF UpToDate
<1>10. GrantsBring'
  <2>1. ASSUME NEW m \in MarketIds, NEW i \in 1..(L - 1), Grants(inbox'[i], m)
        PROVE  Comes(i + 1, m)'
    <3>1. i + 1 \in 1..L /\ inbox'[i] = inbox[i + 1]  BY <1>2
    <3>2. Comes((i + 1) + 1, m)  BY <3>1, <2>1, <1>2 DEF Chain, GrantsBring
    <3> QED  BY <3>1, <3>2, <1>6
  <2> QED  BY <2>1, <1>2 DEF GrantsBring
<1>11. Synced'
  <2>1. ASSUME NEW m \in streams' \ refused'
        PROVE  (kept'[m].any /\ kept'[m].shows = shown'[m]) \/ Comes(1, m)'
    <3>1. 1 \in 1..L /\ 1 + 1 = 2  BY <1>2
    <3>2. CASE m \in streams \ refused /\ ((kept[m].any /\ kept[m].shows = shown[m]) \/ Brings(inbox[1], m))
      BY <3>2, <1>2, FrameSyncs
    <3>3. CASE m \in streams \ refused /\ ~((kept[m].any /\ kept[m].shows = shown[m]) \/ Brings(inbox[1], m))
      <4>1. PICK j \in 1..L : Brings(inbox[j], m) /\ \A k \in 1..j : ~Alters(inbox[k], m)
        BY <3>3, <1>2 DEF Chain, Synced, Comes
      <4>2. j \in 2..L /\ \A k \in 2..j : k \in 1..j  BY <4>1, <3>3, <1>2
      <4>3. Comes(1 + 1, m)  BY <4>1, <4>2, <1>2, <3>1 DEF Comes
      <4> QED  BY <4>3, <3>1, <1>6
    <3>4. CASE m \notin streams \ refused
      <4>1. Grants(inbox[1], m)  BY <3>4, FrameStores
      <4>2. m \in MarketIds
        <5>1. inbox[1] \in Frames  BY FrameIsFirst
        <5> QED  BY <4>1, <5>1 DEF Grants, Frames
      <4>3. Comes(1 + 1, m)  BY <4>1, <4>2, <3>1, <1>2 DEF Chain, GrantsBring
      <4> QED  BY <4>3, <3>1, <1>6
    <3> QED  BY <3>2, <3>3, <3>4
  <2> QED  BY <2>1 DEF Synced
<1>12. Forward'
  <2>1. ASSUME NEW m \in MarketIds
        PROVE  kept'[m].shows <= shown'[m]
    <3>1. /\ kept[m].shows \in Nat /\ shown[m] \in Nat /\ inbox[1].books[m] \in Nat
          /\ kept[m].shows <= shown[m] /\ AsOf(0) = shown /\ AsOf(1) = inbox[1].books
      BY FrameIsFirst DEF FeedTypeOK, Frames, Chain, Forward, AsOf
    <3>2. 1 \in 0..L /\ 0 \in 0..1 /\ 1 \in 1..L /\ 1 - 1 = 0  BY <1>2
    <3>3. shown[m] <= inbox[1].books[m]  BY <3>1, <3>2, <1>2 DEF Chain, Forward
    <3>4. Alters(inbox[1], m) => shown[m] < inbox[1].books[m]
      BY <3>1, <3>2, <1>2 DEF Chain, Forward
    <3>5. \/ kept'[m].shows = inbox[1].books[m]
          \/ Alters(inbox[1], m) /\ kept'[m].shows = kept[m].shows + 1
          \/ kept'[m] = kept[m]
      BY FrameStores
    <3> QED  BY <3>1, <3>3, <3>4, <3>5, <1>2
  <2>2. ASSUME NEW m \in MarketIds, NEW j \in 0..(L - 1)
        PROVE  AsOf(j)'[m] <= books'[m] /\ \A i \in 0..j : AsOf(i)'[m] <= AsOf(j)'[m]
    <3>1. j + 1 \in 0..L /\ \A i \in 0..j : i \in 0..(L - 1) /\ i + 1 \in 0..(j + 1)  BY <1>2
    <3> QED  BY <3>1, <1>2, <1>3, <1>5 DEF Chain, Forward
  <2>3. ASSUME NEW m \in MarketIds, NEW i \in 1..(L - 1), Alters(inbox'[i], m)
        PROVE  AsOf(i - 1)'[m] < inbox'[i].books[m]
    <3>1. /\ i + 1 \in 1..L /\ i - 1 \in 0..(L - 1) /\ (i - 1) + 1 = i /\ (i + 1) - 1 = i
          /\ inbox'[i] = inbox[i + 1]
      BY <1>2
    <3>2. AsOf(i - 1)' = AsOf(i)  BY <3>1, <1>5
    <3> QED  BY <2>3, <3>1, <3>2, <1>2 DEF Chain, Forward
  <2> QED  BY <1>2, <2>1, <2>2, <2>3 DEF Forward
<1> QED  BY <1>7, <1>8, <1>9, <1>10, <1>11, <1>12 DEF Chain

-------------------------------------------------------------------------------
(* A subscription: the reply, and after it a snapshot of each market granted. *)
LEMMA SubscriptionAdds ==
  ASSUME FeedAssumption, FeedTypeOK, NEW markets \in SUBSET MarketIds, Subscribes(markets)
  PROVE  /\ inbox' \in Seq(Frames) /\ Len(inbox') > Len(inbox)
         /\ \A i \in 1..Len(inbox) : inbox'[i] = inbox[i]
         /\ served' \subseteq MarketIds
         /\ \A m \in served \ served' :
              \E i \in (Len(inbox) + 1)..Len(inbox') : Denies(inbox'[i], m)
         /\ spoilt' \in 0..MaxFeedTroubles
         /\ \A i \in (Len(inbox) + 1)..Len(inbox') :
              /\ inbox'[i].books = books /\ inbox'[i].kind # "delta"
              /\ inbox'[i].kind = "snapshot" => \E m \in MarketIds : inbox'[i].markets = {m}
              /\ \A m : Grants(inbox'[i], m) =>
                   m \in served' /\ \E j \in (i + 1)..Len(inbox') : Brings(inbox'[j], m)
<1>1. PICK no \in {{}} \cup {{m} : m \in markets} :
        /\ IF no = {} THEN NoTrouble ELSE FeedTrouble("refused")
        /\ served' = (served \ no) \cup (markets \ no)
        /\ \E order \in InOrder(markets \ no) :
             inbox' = inbox \o <<Reply(markets \ no, no)>> \o Snapshots(order)
  BY DEF Subscribes
<1>2. PICK yes : yes = markets \ no  OBVIOUS
<1>3. PICK order \in InOrder(yes) : inbox' = inbox \o <<Reply(yes, no)>> \o Snapshots(order)
  BY <1>1, <1>2
<1>4. PICK r, s, n, L : r = Reply(yes, no) /\ s = Snapshots(order) /\ n = Cardinality(yes)
                        /\ L = Len(inbox)
  OBVIOUS
<1>5. n \in Nat
  <2>1. IsFiniteSet(yes)  BY <1>2, FS_Subset DEF FeedAssumption
  <2> QED  BY <1>4, <2>1, FS_CardinalityType
<1>6. /\ yes \in SUBSET MarketIds /\ no \in SUBSET MarketIds
      /\ served \in SUBSET MarketIds /\ books \in [MarketIds -> 0..MaxChanges]
      /\ inbox \in Seq(Frames) /\ L = Len(inbox) /\ L \in Nat
      /\ spoilt \in 0..MaxFeedTroubles
  BY <1>1, <1>2, <1>4 DEF FeedTypeOK
<1>7. r \in Frames /\ r.kind = "reply" /\ r.markets = yes /\ r.no = no /\ r.books = books
  BY <1>4, <1>6 DEF Reply, Frame, Frames
<1>8. /\ order \in [1..n -> yes] /\ DOMAIN order = 1..n
      /\ \A m \in yes : \E i \in 1..n : order[i] = m
  BY <1>3, <1>4 DEF InOrder
<1>9. s = [i \in 1..n |-> Frame("snapshot", {order[i]})]  BY <1>4, <1>8 DEF Snapshots
<1>10. \A i \in 1..n : /\ s[i] \in Frames /\ s[i].kind = "snapshot" /\ s[i].books = books
                       /\ s[i].markets = {order[i]} /\ order[i] \in yes
  BY <1>6, <1>8, <1>9 DEF Frame, Frames
<1>11. s \in Seq(Frames) /\ Len(s) = n
  <2>1. s \in [1..n -> Frames]  BY <1>9, <1>10
  <2> QED  BY <2>1, <1>5
<1>12. PICK p : p = inbox \o <<r>>  OBVIOUS
<1>13. /\ p \in Seq(Frames) /\ Len(p) = L + 1 /\ p[L + 1] = r
       /\ \A i \in 1..L : p[i] = inbox[i]
  <2>1. /\ <<r>> \in Seq(Frames) /\ Len(<<r>>) = 1 /\ <<r>>[1] = r  BY <1>7
  <2>2. /\ inbox \o <<r>> \in Seq(Frames) /\ Len(inbox \o <<r>>) = L + 1
        /\ \A i \in 1..(L + 1) : (inbox \o <<r>>)[i] = IF i <= L THEN inbox[i] ELSE <<r>>[i - L]
    BY <1>6, <2>1, ConcatProperties
  <2>3. L + 1 \in 1..(L + 1) /\ ~(L + 1 <= L) /\ (L + 1) - L = 1  BY <1>6
  <2>4. \A i \in 1..L : i \in 1..(L + 1) /\ i <= L  BY <1>6
  <2> QED  BY <1>12, <2>1, <2>2, <2>3, <2>4
<1>14. /\ inbox' \in Seq(Frames) /\ Len(inbox') = L + 1 + n
       /\ \A i \in 1..(L + 1) : inbox'[i] = p[i]
       /\ \A i \in 1..n : inbox'[L + 1 + i] = s[i]
  <2>1. inbox' = p \o s  BY <1>3, <1>4, <1>12
  <2>2. /\ p \o s \in Seq(Frames) /\ Len(p \o s) = (L + 1) + n
        /\ \A i \in 1..((L + 1) + n) : (p \o s)[i] = IF i <= L + 1 THEN p[i] ELSE s[i - (L + 1)]
    <3>1. /\ p \o s \in Seq(Frames) /\ Len(p \o s) = Len(p) + Len(s)
          /\ \A i \in 1..(Len(p) + Len(s)) :
               (p \o s)[i] = IF i <= Len(p) THEN p[i] ELSE s[i - Len(p)]
      <4>1. p \in Seq(Frames) /\ s \in Seq(Frames)  BY <1>11, <1>13
      <4> QED  BY <4>1, ConcatProperties
    <3>2. Len(p) = L + 1 /\ Len(s) = n  BY <1>11, <1>13
    <3> QED  BY <3>1, <3>2
  <2>3. \A i \in 1..(L + 1) : i \in 1..((L + 1) + n) /\ i <= L + 1  BY <1>5, <1>6
  <2>4. \A i \in 1..n : /\ L + 1 + i \in 1..((L + 1) + n) /\ ~(L + 1 + i <= L + 1)
                        /\ (L + 1 + i) - (L + 1) = i
    BY <1>5, <1>6
  <2> QED  BY <2>1, <2>2, <2>3, <2>4
<1>15. \A i \in 1..L : inbox'[i] = inbox[i]
  <2>1. \A i \in 1..L : i \in 1..(L + 1)  BY <1>6
  <2> QED  BY <2>1, <1>13, <1>14
<1>16. inbox'[L + 1] = r
  <2>1. L + 1 \in 1..(L + 1)  BY <1>6
  <2> QED  BY <2>1, <1>13, <1>14
<1>17. ASSUME NEW i \in (L + 1)..(L + 1 + n)
       PROVE  i = L + 1 \/ \E j \in 1..n : i = L + 1 + j
  <2>1. CASE i # L + 1
    <3>1. i - (L + 1) \in 1..n /\ i = L + 1 + (i - (L + 1))  BY <2>1, <1>5, <1>6
    <3> QED  BY <3>1
  <2> QED  BY <2>1
<1>18. ASSUME NEW i \in (L + 1)..(L + 1 + n)
       PROVE  /\ inbox'[i].books = books /\ inbox'[i].kind # "delta"
              /\ inbox'[i].kind = "snapshot" => \E m \in MarketIds : inbox'[i].markets = {m}
              /\ \A m : Grants(inbox'[i], m) =>
                   m \in served' /\ \E j \in (i + 1)..(L + 1 + n) : Brings(inbox'[j], m)
  <2>1. CASE i = L + 1
    <3>1. inbox'[i] = r  BY <2>1, <1>16
    <3>2. ASSUME NEW m, Grants(r, m)
          PROVE  m \in served' /\ \E j \in (i + 1)..(L + 1 + n) : Brings(inbox'[j], m)
      <4>1. m \in yes  BY <3>2, <1>7 DEF Grants
      <4>2. PICK k \in 1..n : order[k] = m  BY <4>1, <1>8
      <4>3. L + 1 + k \in (i + 1)..(L + 1 + n)  BY <2>1, <1>5, <1>6
      <4>4. Brings(inbox'[L + 1 + k], m)  BY <4>2, <1>10, <1>14 DEF Brings
      <4> QED  BY <4>1, <4>3, <4>4, <1>1, <1>2
    <3> QED  BY <3>1, <3>2, <1>7
  <2>2. ASSUME NEW k \in 1..n, i = L + 1 + k
        PROVE  /\ inbox'[i].books = books /\ inbox'[i].kind = "snapshot"
               /\ inbox'[i].markets = {order[k]} /\ order[k] \in MarketIds
    BY <2>2, <1>6, <1>10, <1>14
  <2>3. CASE i # L + 1
    <3>1. PICK k \in 1..n : i = L + 1 + k  BY <2>3, <1>17
    <3>2. /\ inbox'[i].books = books /\ inbox'[i].kind = "snapshot"
          /\ inbox'[i].markets = {order[k]} /\ order[k] \in MarketIds
      BY <3>1, <2>2
    <3>3. \A m : ~Grants(inbox'[i], m)  BY <3>2 DEF Grants
    <3> QED  BY <3>2, <3>3
  <2> QED  BY <2>1, <2>3
<1>19. spoilt' \in 0..MaxFeedTroubles
  BY <1>1, <1>6 DEF NoTrouble, FeedTrouble, FeedAssumption
<1>20. served' \subseteq MarketIds  BY <1>1, <1>2, <1>6
<1>22. ASSUME NEW m \in served \ served'
       PROVE  \E i \in (L + 1)..(L + 1 + n) : Denies(inbox'[i], m)
  <2>1. m \in no  BY <1>1
  <2>2. L + 1 \in (L + 1)..(L + 1 + n)  BY <1>5, <1>6
  <2> QED  BY <2>1, <2>2, <1>7, <1>16 DEF Denies
<1>21. L + 1 + n > L  BY <1>5, <1>6
<1> QED  BY <1>4, <1>14, <1>15, <1>18, <1>19, <1>20, <1>21, <1>22

(* A request more, while there is room for it. *)
LEMMA RequestAdds ==
  ASSUME FeedAssumption, FeedTypeOK, OldestFirst, BudgetIsKept, MayRequest,
         sent' = Append(sent, 0)
  PROVE  sent' \in Seq(0..Window) /\ OldestFirst' /\ BudgetIsKept'
<1>1. PICK L : L = Len(sent)  OBVIOUS
<1>2. /\ sent \in Seq(0..Window) /\ L = Len(sent) /\ L \in Nat /\ 0 \in 0..Window
      /\ Window \in Nat /\ MaxRequests \in Nat /\ L < MaxRequests
  BY <1>1 DEF FeedTypeOK, FeedAssumption, MayRequest
<1>3. /\ sent' \in Seq(0..Window) /\ Len(sent') = L + 1
      /\ \A i \in 1..L : sent'[i] = sent[i]
      /\ sent'[L + 1] = 0
  BY <1>2, AppendProperties
<1>4. BudgetIsKept'
  <2>1. L + 1 <= MaxRequests  BY <1>2
  <2> QED  BY <2>1, <1>3 DEF BudgetIsKept
<1>5. OldestFirst'
  <2>1. ASSUME NEW i \in 1..(L + 1), NEW j \in 1..(L + 1), i <= j
        PROVE  sent'[j] <= sent'[i]
    <3>1. sent'[i] \in Nat
      <4>1. CASE i \in 1..L
        <5>1. sent[i] \in 0..Window /\ sent'[i] = sent[i]  BY <4>1, <1>2, <1>3
        <5> QED  BY <5>1, <1>2
      <4>2. CASE i = L + 1  BY <4>2, <1>3
      <4> QED  BY <4>1, <4>2, <1>2
    <3>2. CASE j = L + 1  BY <3>1, <3>2, <1>3
    <3>3. CASE j # L + 1
      <4>1. i \in 1..L /\ j \in 1..L  BY <3>3, <2>1, <1>2
      <4>2. sent[j] <= sent[i]  BY <4>1, <2>1, <1>2 DEF OldestFirst
      <4> QED  BY <4>1, <4>2, <1>3
    <3> QED  BY <3>2, <3>3
  <2> QED  BY <2>1, <1>3 DEF OldestFirst
<1> QED  BY <1>3, <1>4, <1>5

(* A moment more: what is left of the requests is still of this minute. *)
LEMMA ShiftsKeep ==
  ASSUME FeedAssumption, FeedTypeOK, OldestFirst, BudgetIsKept, Shifts
  PROVE  sent' \in Seq(0..Window) /\ OldestFirst' /\ BudgetIsKept'
<1>1. PICK n \in 0..Len(sent) :
        /\ n < Len(sent) => sent[n + 1] + 1 < Window
        /\ sent' = [i \in 1..(Len(sent) - n) |-> sent[n + i] + 1]
  BY DEF Shifts
<1>2. PICK L : L = Len(sent)  OBVIOUS
<1>3. /\ sent \in Seq(0..Window) /\ L = Len(sent) /\ L \in Nat /\ n \in 0..L
      /\ Window \in Nat /\ MaxRequests \in Nat /\ L <= MaxRequests
  BY <1>1, <1>2 DEF FeedTypeOK, FeedAssumption, BudgetIsKept
<1>4. \A i \in 1..L : sent[i] \in Nat  BY <1>3
<1>5. sent' = [i \in 1..(L - n) |-> sent[n + i] + 1] /\ L - n \in Nat  BY <1>1, <1>3
<1>6. ASSUME NEW i \in 1..(L - n)
      PROVE  n + i \in 1..L /\ sent[n + i] + 1 \in 0..Window
  <2>1. n + i \in 1..L /\ n + 1 \in 1..L /\ n + 1 <= n + i /\ n < L  BY <1>3
  <2>2. sent[n + i] <= sent[n + 1]  BY <2>1, <1>3 DEF OldestFirst
  <2>3. sent[n + 1] + 1 < Window  BY <2>1, <1>1, <1>3
  <2>4. sent[n + i] \in Nat /\ sent[n + 1] \in Nat  BY <2>1, <1>4
  <2> QED  BY <2>1, <2>2, <2>3, <2>4, <1>3
<1>7. sent' \in Seq(0..Window) /\ Len(sent') = L - n
  <2>1. PICK d : d = L - n  OBVIOUS
  <2>2. sent' \in [1..d -> 0..Window]  BY <2>1, <1>5, <1>6
  <2>3. d \in Nat  BY <2>1, <1>5
  <2>4. ASSUME NEW S, NEW s \in [1..d -> S]
        PROVE  s \in Seq(S) /\ Len(s) = d
    BY <2>3
  <2>5. sent' \in Seq(0..Window) /\ Len(sent') = d  BY <2>2, <2>4
  <2> QED  BY <2>1, <2>5
<1>8. BudgetIsKept'
  <2>1. L - n <= MaxRequests  BY <1>3
  <2> QED  BY <2>1, <1>7 DEF BudgetIsKept
<1>9. OldestFirst'
  <2>1. ASSUME NEW i \in 1..(L - n), NEW j \in 1..(L - n), i <= j
        PROVE  sent'[j] <= sent'[i]
    <3>1. n + i \in 1..L /\ n + j \in 1..L /\ n + i <= n + j  BY <2>1, <1>3
    <3>2. sent[n + j] <= sent[n + i]  BY <3>1, <1>3 DEF OldestFirst
    <3>3. sent[n + j] \in Nat /\ sent[n + i] \in Nat  BY <3>1, <1>4
    <3>4. sent'[i] = sent[n + i] + 1 /\ sent'[j] = sent[n + j] + 1  BY <1>5
    <3> QED  BY <3>2, <3>3, <3>4
  <2> QED  BY <2>1, <1>7 DEF OldestFirst
<1> QED  BY <1>7, <1>8, <1>9

-------------------------------------------------------------------------------
(* The steps that ask nothing of Perpl and take nothing from it leave the
   requests as they are. *)
LEMMA RequestsRest ==
  ASSUME OldestFirst, BudgetIsKept, sent' = sent
  PROVE  OldestFirst' /\ BudgetIsKept'
BY DEF OldestFirst, BudgetIsKept

LEMMA ReadHolds ==
  ASSUME FeedAssumption, FeedInv, NEW m \in MarketIds, Read(m)
  PROVE  FeedInv'
<1>1. FeedTypeOK /\ Chain /\ OldestFirst /\ BudgetIsKept  BY DEF FeedInv
<1>2. /\ lastRead' = 0 /\ watching' = TRUE
      /\ link' \in {"none", "connecting", "asking", "open"}
      /\ UNCHANGED <<retrying, wanted, streams, kept, heard, refused, shown, books>>
  BY <1>1 DEF Read, memory, FeedTypeOK
<1>3. NobodyIsLeft'  BY <1>2 DEF NobodyIsLeft
<1>4. refreshed' \in [MarketIds -> Ages(RefreshMin)]
  <2>1. 0 \in Ages(RefreshMin)  BY DEF Ages, FeedAssumption
  <2> QED  BY <1>1, <2>1 DEF Read, FeedTypeOK
<1>5. lastRead' \in Ages(IdleAfter)  BY <1>2 DEF Ages, FeedAssumption
<1>6. CASE MayRequest /\ sent' = Append(sent, 0) /\ Subscribes({m})
  <2>1. sent' \in Seq(0..Window) /\ OldestFirst' /\ BudgetIsKept'  BY <1>1, <1>6, RequestAdds
  <2>2. {m} \in SUBSET MarketIds  OBVIOUS
  <2>3. inbox' \in Seq(Frames) /\ served' \subseteq MarketIds /\ spoilt' \in 0..MaxFeedTroubles
    BY <1>1, <1>6, <2>2, SubscriptionAdds
  <2>4. FeedTypeOK'  BY <1>1, <1>2, <1>4, <1>5, <2>1, <2>3 DEF FeedTypeOK
  <2>5. Chain'  BY <1>1, <1>2, <1>6, <2>2, SubscriptionAdds, ChainGrows
  <2> QED  BY <1>3, <2>1, <2>4, <2>5 DEF FeedInv
<1>7. CASE Silent
  <2>1. sent' = sent /\ served' = served /\ inbox' = inbox /\ spoilt' = spoilt
    BY <1>7 DEF Silent, NoTrouble
  <2>2. FeedTypeOK'  BY <1>1, <1>2, <1>4, <1>5, <2>1 DEF FeedTypeOK
  <2>3. Chain'  BY <1>1, <1>2, <2>1, ChainRests
  <2> QED  BY <1>1, <1>3, <2>1, <2>2, <2>3, RequestsRest DEF FeedInv
<1> QED  BY <1>6, <1>7 DEF Read, Subscribes

LEMMA FlushHolds ==
  ASSUME FeedAssumption, FeedInv, Flushes
  PROVE  FeedInv'
<1>1. FeedTypeOK /\ Chain /\ OldestFirst /\ BudgetIsKept  BY DEF FeedInv
<1>2. /\ MayRequest /\ Subscribes(wanted) /\ sent' = Append(sent, 0) /\ wanted' = {}
      /\ UNCHANGED <<link, retrying, streams, watching, lastRead, refreshed,
                     kept, heard, refused, shown, books>>
  BY DEF Flushes, MayFlush, Subscribes, reading, memory
<1>3. wanted \in SUBSET MarketIds  BY <1>1 DEF FeedTypeOK
<1>4. sent' \in Seq(0..Window) /\ OldestFirst' /\ BudgetIsKept'  BY <1>1, <1>2, RequestAdds
<1>5. inbox' \in Seq(Frames) /\ served' \subseteq MarketIds /\ spoilt' \in 0..MaxFeedTroubles
  BY <1>1, <1>2, <1>3, SubscriptionAdds
<1>6. FeedTypeOK'  BY <1>1, <1>2, <1>4, <1>5 DEF FeedTypeOK
<1>7. Chain'  BY <1>1, <1>2, <1>3, SubscriptionAdds, ChainGrows
<1>8. NobodyIsLeft'  BY <1>2 DEF FeedInv, NobodyIsLeft
<1> QED  BY <1>4, <1>6, <1>7, <1>8 DEF FeedInv

(* The socket goes, whoever closes it. *)
LEMMA DisconnectHolds ==
  ASSUME FeedAssumption, FeedInv, Disconnects,
         UNCHANGED <<lastRead, refreshed, kept, heard, refused, shown, books>>,
         {retrying', watching'} \subseteq BOOLEAN, retrying' => watching',
         spoilt' \in 0..MaxFeedTroubles
  PROVE  FeedInv'
<1>1. FeedTypeOK /\ Chain /\ OldestFirst /\ BudgetIsKept  BY DEF FeedInv
<1>2. /\ link' = "none" /\ wanted' = {} /\ streams' = {} /\ served' = {} /\ inbox' = <<>>
      /\ sent' = sent
  BY DEF Disconnects
<1>3. inbox' \in Seq(Frames)  BY <1>2
<1>4. FeedTypeOK'  BY <1>1, <1>2, <1>3 DEF FeedTypeOK
<1>5. NobodyIsLeft'  BY <1>2 DEF NobodyIsLeft
<1> QED  BY <1>1, <1>2, <1>4, <1>5, ChainClears, RequestsRest DEF FeedInv

LEMMA TakeHolds ==
  ASSUME FeedAssumption, FeedInv, TakesFrame
  PROVE  FeedInv'
<1>1. FeedTypeOK /\ Chain /\ OldestFirst /\ BudgetIsKept  BY DEF FeedInv
<1>2. /\ heard' = 0 /\ UNCHANGED <<link, retrying, wanted, sent, watching, lastRead, refreshed,
                                  served, books, spoilt>>
  BY DEF TakesFrame, reading
<1>3. inbox[1] \in Frames /\ shown' = inbox[1].books /\ inbox' \in Seq(Frames)
  BY <1>1, FrameIsFirst
<1>4. shown' \in [MarketIds -> 0..MaxChanges]  BY <1>3 DEF Frames
<1>5. heard' \in Ages(StaleAfter)  BY <1>2 DEF Ages, FeedAssumption
<1>6. streams' \subseteq MarketIds
  <2>1. ASSUME NEW m \in streams'
        PROVE  m \in MarketIds
    <3>1. m \in streams \/ Grants(inbox[1], m)  BY <1>1, FrameStores
    <3> QED  BY <3>1, <1>1, <1>3 DEF FeedTypeOK, Grants, Frames
  <2> QED  BY <2>1
<1>7. refused' \subseteq MarketIds
  <2>1. PICK f : f = inbox[1]  OBVIOUS
  <2>2. TakesReply(f) \/ refused' = refused
    BY <1>1, <2>1, FrameIsFirst DEF TakesFrame, TakesSnapshot, TakesDelta, TakesHeartbeat
  <2>3. f.no \subseteq MarketIds  BY <1>3, <2>1 DEF Frames
  <2>4. refused \subseteq MarketIds  BY <1>1 DEF FeedTypeOK
  <2> QED  BY <2>2, <2>3, <2>4 DEF TakesReply
<1>8. kept' \in [MarketIds -> [any : BOOLEAN, shows : 0..MaxChanges, age : Ages(StaleAfter)]]
  <2>1. ASSUME NEW m \in MarketIds
        PROVE  kept'[m] \in [any : BOOLEAN, shows : 0..MaxChanges, age : Ages(StaleAfter)]
    <3>1. kept[m] \in [any : BOOLEAN, shows : 0..MaxChanges, age : Ages(StaleAfter)]
      BY <1>1 DEF FeedTypeOK
    <3>2. 0 \in Ages(StaleAfter) /\ inbox[1].books[m] \in 0..MaxChanges
      BY <1>3 DEF Ages, FeedAssumption, Frames
    <3>3. CASE m \in streams /\ Brings(inbox[1], m)
      <4>1. kept'[m] = [any |-> TRUE, shows |-> inbox[1].books[m], age |-> 0]
        BY <3>3, <1>1, FrameStores
      <4> QED  BY <4>1, <3>2
    <3>4. CASE m \in streams /\ Alters(inbox[1], m) /\ kept[m].any /\ ~Brings(inbox[1], m)
      <4>1. kept'[m] = [any |-> TRUE, shows |-> kept[m].shows + 1, age |-> 0]
        BY <3>4, <1>1, FrameStores
      <4>2. kept'[m].shows <= shown'[m]  BY <1>1, <1>2, ChainTakes DEF Chain, Forward
      <4>3. kept'[m].shows = kept[m].shows + 1 /\ shown'[m] \in 0..MaxChanges
        BY <4>1, <3>2, <1>3
      <4>4. kept[m].shows + 1 \in 0..MaxChanges  BY <4>2, <4>3, <3>1 DEF FeedAssumption
      <4> QED  BY <4>1, <4>4, <3>2
    <3>5. CASE ~(m \in streams /\ Brings(inbox[1], m))
               /\ ~(m \in streams /\ Alters(inbox[1], m) /\ kept[m].any)
      <4>1. kept'[m] = kept[m]  BY <3>5, <1>1, FrameStores
      <4> QED  BY <4>1, <3>1
    <3> QED  BY <3>3, <3>4, <3>5
  <2>2. kept' = [m \in MarketIds |-> kept'[m]]  BY <1>1, FrameStores
  <2> QED  BY <2>1, <2>2
<1>9. FeedTypeOK'  BY <1>1, <1>2, <1>3, <1>4, <1>5, <1>6, <1>7, <1>8 DEF FeedTypeOK
<1>10. NobodyIsLeft'  BY <1>2 DEF FeedInv, NobodyIsLeft
<1> QED  BY <1>1, <1>2, <1>9, <1>10, ChainTakes, RequestsRest DEF FeedInv

LEMMA ChangeHolds ==
  ASSUME FeedAssumption, FeedInv, NEW n \in MarketIds, Changes(n)
  PROVE  FeedInv'
<1>1. FeedTypeOK /\ Chain /\ OldestFirst /\ BudgetIsKept  BY DEF FeedInv
<1>2. UNCHANGED <<link, retrying, wanted, sent, streams, watching, lastRead, refreshed,
                  kept, heard, refused, shown, served, spoilt>>
  BY DEF Changes, reading, memory
<1>3. books' \in [MarketIds -> 0..MaxChanges]
  <2>1. books \in [MarketIds -> 0..MaxChanges] /\ books[n] < MaxChanges
        /\ books' = [books EXCEPT ![n] = @ + 1]
    BY <1>1 DEF FeedTypeOK, Changes
  <2>2. books[n] + 1 \in 0..MaxChanges  BY <2>1 DEF FeedAssumption
  <2> QED  BY <2>1, <2>2
<1>4. inbox' \in Seq(Frames)
  <2>1. [Frame("delta", {n}) EXCEPT !.books = books'] \in Frames  BY <1>3 DEF Frame, Frames
  <2>2. inbox \in Seq(Frames)  BY <1>1 DEF FeedTypeOK
  <2> QED  BY <2>1, <2>2 DEF Changes
<1>5. FeedTypeOK'  BY <1>1, <1>2, <1>3, <1>4 DEF FeedTypeOK
<1>6. NobodyIsLeft'  BY <1>2 DEF FeedInv, NobodyIsLeft
<1> QED  BY <1>1, <1>2, <1>5, <1>6, ChainChanges, RequestsRest DEF FeedInv

LEMMA BeatHolds ==
  ASSUME FeedAssumption, FeedInv, Beats
  PROVE  FeedInv'
<1>1. FeedTypeOK /\ Chain /\ OldestFirst /\ BudgetIsKept  BY DEF FeedInv
<1>2. /\ UNCHANGED <<link, retrying, wanted, sent, streams, watching, lastRead, refreshed,
                     kept, heard, refused, shown, served, books, spoilt>>
      /\ inbox' = Append(inbox, Frame("heartbeat", {}))
  BY DEF Beats, reading, memory
<1>3. PICK f, L : f = Frame("heartbeat", {}) /\ L = Len(inbox)  OBVIOUS
<1>4. f \in Frames /\ f.kind = "heartbeat" /\ f.books = books
  BY <1>1, <1>3 DEF Frame, Frames, FeedTypeOK
<1>5. inbox \in Seq(Frames) /\ L \in Nat /\ L = Len(inbox)  BY <1>1, <1>3 DEF FeedTypeOK
<1>6. /\ inbox' \in Seq(Frames) /\ Len(inbox') = L + 1 /\ inbox'[L + 1] = f
      /\ \A i \in 1..L : inbox'[i] = inbox[i]
  BY <1>2, <1>3, <1>4, <1>5, AppendProperties
<1>7. \A i \in (L + 1)..(L + 1) : i = L + 1  BY <1>5
<1>8. \A m : ~Grants(f, m)  BY <1>4 DEF Grants
<1>9. \A i \in (L + 1)..(L + 1) :
        /\ inbox'[i].books = books /\ inbox'[i].kind # "delta"
        /\ inbox'[i].kind = "snapshot" => \E m \in MarketIds : inbox'[i].markets = {m}
        /\ \A m : Grants(inbox'[i], m) =>
             m \in served' /\ \E j \in (i + 1)..(L + 1) : Brings(inbox'[j], m)
  BY <1>4, <1>6, <1>7, <1>8
<1>10. Len(inbox') > Len(inbox)  BY <1>5, <1>6
<1>11. Chain'  BY <1>1, <1>2, <1>5, <1>6, <1>9, <1>10, ChainGrows
<1>12. FeedTypeOK'  BY <1>1, <1>2, <1>6 DEF FeedTypeOK
<1>13. NobodyIsLeft'  BY <1>2 DEF FeedInv, NobodyIsLeft
<1> QED  BY <1>1, <1>2, <1>11, <1>12, <1>13, RequestsRest DEF FeedInv

LEMMA GrowsOlder ==
  ASSUME NEW bound \in Nat, NEW age \in Ages(bound)
  PROVE  Older(age, bound) \in Ages(bound)
BY DEF Ages, Older

LEMMA PassHolds ==
  ASSUME FeedAssumption, FeedInv, Passes
  PROVE  FeedInv'
<1>1. FeedTypeOK /\ Chain /\ OldestFirst /\ BudgetIsKept  BY DEF FeedInv
<1>2. /\ Shifts
      /\ kept' = [m \in MarketIds |-> [kept[m] EXCEPT !.age = Older(@, StaleAfter)]]
      /\ heard' = Older(heard, StaleAfter) /\ lastRead' = Older(lastRead, IdleAfter)
      /\ refreshed' = [m \in MarketIds |-> Older(refreshed[m], RefreshMin)]
      /\ UNCHANGED <<link, retrying, watching, wanted, streams, refused, served, inbox, books,
                     shown, spoilt>>
  BY DEF Passes
<1>3. StaleAfter \in Nat /\ IdleAfter \in Nat /\ RefreshMin \in Nat  BY DEF FeedAssumption
<1>4. sent' \in Seq(0..Window) /\ OldestFirst' /\ BudgetIsKept'  BY <1>1, <1>2, ShiftsKeep
<1>5. heard' \in Ages(StaleAfter) /\ lastRead' \in Ages(IdleAfter)
  BY <1>1, <1>2, <1>3, GrowsOlder DEF FeedTypeOK
<1>6. refreshed' \in [MarketIds -> Ages(RefreshMin)]
  BY <1>1, <1>2, <1>3, GrowsOlder DEF FeedTypeOK
<1>7. ASSUME NEW m \in MarketIds
      PROVE  /\ kept'[m] \in [any : BOOLEAN, shows : 0..MaxChanges, age : Ages(StaleAfter)]
             /\ kept'[m].any = kept[m].any /\ kept'[m].shows = kept[m].shows
  <2>1. kept[m] \in [any : BOOLEAN, shows : 0..MaxChanges, age : Ages(StaleAfter)]
    BY <1>1 DEF FeedTypeOK
  <2>2. Older(kept[m].age, StaleAfter) \in Ages(StaleAfter)  BY <2>1, <1>3, GrowsOlder
  <2>3. kept'[m] = [kept[m] EXCEPT !.age = Older(kept[m].age, StaleAfter)]  BY <1>2
  <2> QED  BY <2>1, <2>2, <2>3
<1>8. kept' \in [MarketIds -> [any : BOOLEAN, shows : 0..MaxChanges, age : Ages(StaleAfter)]]
  <2>1. kept' = [m \in MarketIds |-> kept'[m]]  BY <1>2
  <2> QED  BY <2>1, <1>7
<1>9. FeedTypeOK'  BY <1>1, <1>2, <1>4, <1>5, <1>6, <1>8 DEF FeedTypeOK
<1>10. Chain'  BY <1>1, <1>2, <1>7, ChainRests
<1>11. NobodyIsLeft'  BY <1>2 DEF FeedInv, NobodyIsLeft
<1> QED  BY <1>4, <1>9, <1>10, <1>11 DEF FeedInv

-------------------------------------------------------------------------------
LEMMA FeedStarts ==
  ASSUME FeedAssumption, FeedInit
  PROVE  FeedInv
<1>1. /\ {StaleAfter, IdleAfter, RefreshMin, Window, MaxRequests} \subseteq Nat
      /\ {MaxChanges, MaxFeedTroubles} \subseteq Nat /\ MaxRequests > 0
  BY DEF FeedAssumption
<1>2. /\ link = "none" /\ retrying = FALSE /\ watching = FALSE
      /\ wanted = {} /\ sent = <<>> /\ streams = {}
      /\ kept = [m \in MarketIds |-> [any |-> FALSE, shows |-> 0, age |-> StaleAfter + 1]]
      /\ heard = StaleAfter + 1 /\ lastRead = IdleAfter + 1
      /\ refreshed = [m \in MarketIds |-> RefreshMin + 1]
      /\ refused = {} /\ served = {} /\ inbox = <<>>
      /\ books = [m \in MarketIds |-> 0] /\ shown = books /\ spoilt = 0
  BY DEF FeedInit
<1>3. sent \in Seq(0..Window) /\ inbox \in Seq(Frames) /\ Len(sent) = 0 /\ Len(inbox) = 0
  BY <1>2
<1>4. /\ StaleAfter + 1 \in Ages(StaleAfter) /\ IdleAfter + 1 \in Ages(IdleAfter)
      /\ RefreshMin + 1 \in Ages(RefreshMin) /\ 0 \in 0..MaxChanges /\ 0 \in 0..MaxFeedTroubles
  BY <1>1 DEF Ages
<1>5. FeedTypeOK  BY <1>2, <1>3, <1>4 DEF FeedTypeOK
<1>6. \A m : ~Vouched(0, m)  BY <1>2 DEF Vouched
<1>9. Forward
  <2>1. 0..Len(inbox) = {0} /\ 1..Len(inbox) = {} /\ AsOf(0) = books  BY <1>2, <1>3 DEF AsOf
  <2>2. \A m \in MarketIds : books[m] = 0 /\ shown[m] = 0 /\ kept[m].shows = 0  BY <1>2
  <2> QED  BY <2>1, <2>2 DEF Forward
<1>7. Chain
  BY <1>2, <1>3, <1>6, <1>9 DEF Chain, OneEach, Chained, UpToDate, GrantsBring, Synced
<1>8. OldestFirst /\ BudgetIsKept /\ NobodyIsLeft
  BY <1>1, <1>2, <1>3 DEF OldestFirst, BudgetIsKept, NobodyIsLeft
<1> QED  BY <1>5, <1>7, <1>8 DEF FeedInv

LEMMA FeedStands ==
  ASSUME FeedInv, UNCHANGED feedVars
  PROVE  FeedInv'
<1>1. /\ link' = link /\ retrying' = retrying /\ watching' = watching /\ wanted' = wanted
      /\ sent' = sent /\ streams' = streams /\ kept' = kept /\ heard' = heard
      /\ lastRead' = lastRead /\ refreshed' = refreshed /\ refused' = refused
      /\ served' = served /\ inbox' = inbox /\ books' = books /\ shown' = shown
      /\ spoilt' = spoilt
  BY DEF feedVars
<1>2. FeedTypeOK'  BY <1>1 DEF FeedInv, FeedTypeOK
<1>3. Chain'  BY <1>1, ChainRests DEF FeedInv
<1>4. NobodyIsLeft'  BY <1>1 DEF FeedInv, NobodyIsLeft
<1> QED  BY <1>1, <1>2, <1>3, <1>4, RequestsRest DEF FeedInv

LEMMA FeedIsKept ==
  ASSUME FeedAssumption, FeedInv, [FeedNext]_feedVars
  PROVE  FeedInv'
<1>1. FeedTypeOK /\ Chain /\ OldestFirst /\ BudgetIsKept /\ NobodyIsLeft  BY DEF FeedInv
<1>2. CASE UNCHANGED feedVars  BY <1>2, FeedStands
<1>3. ASSUME NEW m \in MarketIds, Read(m)
      PROVE  FeedInv'
  BY <1>3, ReadHolds
<1>4. ASSUME NEW m \in MarketIds, Changes(m)
      PROVE  FeedInv'
  BY <1>4, ChangeHolds
<1>5. CASE Opens
  <2>1. /\ link = "connecting" /\ link' = "asking"
        /\ UNCHANGED <<retrying, wanted, sent, streams, watching, lastRead, refreshed, kept, heard,
                       refused, shown, served, inbox, books, spoilt>>
    BY <1>5 DEF Opens, reading, memory
  <2>2. FeedTypeOK'  BY <1>1, <2>1 DEF FeedTypeOK
  <2>3. Chain'  BY <1>1, <2>1, ChainRests
  <2>4. NobodyIsLeft'  BY <1>1, <2>1 DEF NobodyIsLeft
  <2> QED  BY <1>1, <2>1, <2>2, <2>3, <2>4, RequestsRest DEF FeedInv
<1>6. CASE AsksAll
  <2>1. /\ link = "asking"
        /\ UNCHANGED <<watching, lastRead, refreshed, kept, heard, refused, shown, books>>
    BY <1>6 DEF AsksAll, reading, memory
  <2>2. CASE link' = "open" /\ wanted' = MarketIds
             /\ UNCHANGED <<retrying, sent, streams, served, inbox, spoilt>>
    <3>1. FeedTypeOK'  BY <1>1, <2>1, <2>2 DEF FeedTypeOK
    <3>2. Chain'  BY <1>1, <2>1, <2>2, ChainRests
    <3>3. NobodyIsLeft'  BY <1>1, <2>1, <2>2 DEF NobodyIsLeft
    <3> QED  BY <1>1, <2>2, <3>1, <3>2, <3>3, RequestsRest DEF FeedInv
  <2>3. CASE FeedTrouble("noids") /\ Disconnects /\ Reconnects
    <3>1. watching  BY <1>1, <2>1 DEF NobodyIsLeft
    <3>2. spoilt' \in 0..MaxFeedTroubles
      BY <1>1, <2>3 DEF FeedTypeOK, FeedTrouble, FeedAssumption
    <3>3. watching' = watching /\ retrying' \in BOOLEAN  BY <2>1, <2>3 DEF Reconnects
    <3>4. {retrying', watching'} \subseteq BOOLEAN  BY <1>1, <3>3 DEF FeedTypeOK
    <3> QED  BY <2>1, <2>3, <3>1, <3>2, <3>3, <3>4, DisconnectHolds
  <2> QED  BY <1>6, <2>2, <2>3 DEF AsksAll, NoTrouble
<1>7. CASE Flushes  BY <1>7, FlushHolds
<1>8. CASE SocketCloses
  <2>1. /\ link # "none" /\ FeedTrouble("closed") /\ Disconnects /\ Reconnects
        /\ UNCHANGED <<watching, lastRead, refreshed, kept, heard, refused, shown, books>>
    BY <1>8 DEF SocketCloses, reading, memory
  <2>2. watching  BY <1>1, <2>1 DEF NobodyIsLeft
  <2>3. spoilt' \in 0..MaxFeedTroubles
    BY <1>1, <2>1 DEF FeedTypeOK, FeedTrouble, FeedAssumption
  <2>4. watching' = watching /\ retrying' \in BOOLEAN  BY <2>1 DEF Reconnects
  <2>5. {retrying', watching'} \subseteq BOOLEAN  BY <1>1, <2>4 DEF FeedTypeOK
  <2> QED  BY <2>1, <2>2, <2>3, <2>4, <2>5, DisconnectHolds
<1>9. CASE ReconnectFires
  <2>1. /\ retrying /\ retrying' = FALSE
        /\ link' \in {"none", "connecting", "asking", "open"}
        /\ UNCHANGED <<wanted, sent, streams, watching, lastRead, refreshed, kept, heard,
                       refused, shown, served, inbox, books, spoilt>>
    BY <1>1, <1>9 DEF ReconnectFires, reading, memory, FeedTypeOK
  <2>2. FeedTypeOK'  BY <1>1, <2>1 DEF FeedTypeOK
  <2>3. Chain'  BY <1>1, <2>1, ChainRests
  <2>4. NobodyIsLeft'  BY <1>1, <2>1 DEF NobodyIsLeft
  <2> QED  BY <1>1, <2>1, <2>2, <2>3, <2>4, RequestsRest DEF FeedInv
<1>10. CASE IdleFires
  <2>1. /\ watching' = FALSE /\ retrying' = FALSE /\ Disconnects
        /\ UNCHANGED <<lastRead, refreshed, kept, heard, refused, shown, books, spoilt>>
    BY <1>10 DEF IdleFires, memory
  <2>2. spoilt' \in 0..MaxFeedTroubles  BY <1>1, <2>1 DEF FeedTypeOK
  <2> QED  BY <2>1, <2>2, DisconnectHolds
<1>11. CASE TakesFrame  BY <1>11, TakeHolds
<1>12. CASE Beats  BY <1>12, BeatHolds
<1>13. CASE Passes  BY <1>13, PassHolds
<1> QED BY <1>2, <1>3, <1>4, <1>5, <1>6, <1>7, <1>8, <1>9, <1>10, <1>11, <1>12, <1>13 DEF FeedNext

(* For any markets, clocks, budget and troubles: a book that is said to be fresh
   because its stream is live shows every change there was by the last frame,
   unless its snapshot is still awaited or the feed says its subscription was
   refused, and then it is an old one at worst; the requests of a minute stay
   within the feed's share through every reconnect and refresh; and a socket, or
   one that is about to be, is watched over by the idle timer
   (perpl-book-feed.ts:487, :387 and :250). *)
THEOREM BooksStayTrue ==
  ASSUME FeedAssumption
  PROVE  FeedSpec => []BooksAreTrue
<1>1. FeedInit => FeedInv  BY FeedStarts
<1>2. FeedInv /\ [FeedNext]_feedVars => FeedInv'  BY FeedIsKept
<1>3. FeedInv => BooksAreTrue  BY BooksFollow
<1> QED  BY <1>1, <1>2, <1>3, PTL DEF FeedSpec

-------------------------------------------------------------------------------
(* The heads. *)

(* A set of numbers has a least, and a bounded one a greatest. *)
LEMMA HasLeast ==
  ASSUME NEW T, T \subseteq Nat, T # {}
  PROVE  \E x \in T : \A y \in T : x <= y
<1> DEFINE R == OpToRel(<, Nat)
<1>1. IsWellFoundedOn(R, Nat)
  BY NatLessThanWellFounded
<1>2. PICK x \in T : \A y \in T : ~(<<y, x>> \in R)
  <2> HIDE DEF R
  <2> QED BY <1>1, WFMin
<1>3. \A y \in T : y < x => <<y, x>> \in R
  BY DEF OpToRel
<1>4. \A y \in T : x <= y
  <2> SUFFICES ASSUME NEW y \in T, ~(x <= y) PROVE FALSE
    OBVIOUS
  <2>1. y < x
    OBVIOUS
  <2> HIDE DEF R
  <2> QED BY <2>1, <1>2, <1>3
<1> QED BY <1>4

LEMMA LeastIs ==
  ASSUME NEW T, T \subseteq Nat, T # {}
  PROVE  Min(T) \in T /\ \A y \in T : Min(T) <= y
BY HasLeast DEF Min

LEMMA GreatestIs ==
  ASSUME NEW T, NEW n \in Nat, T \subseteq 0..n, T # {}
  PROVE  Max(T) \in T /\ \A y \in T : Max(T) >= y
<1> DEFINE B == {b \in Nat : \A x \in T : x <= b}
<1>1. n \in B
  OBVIOUS
<1>2. PICK b \in B : \A c \in B : b <= c
  BY <1>1, HasLeast
<1>3. b \in T
  <2> SUFFICES ASSUME b \notin T PROVE FALSE
    OBVIOUS
  <2>1. PICK x \in T : x <= b
    BY <1>2
  <2>2. b - 1 \in Nat /\ \A y \in T : y <= b - 1
    BY <2>1, <1>2
  <2>3. b - 1 \in B
    BY <2>2
  <2> QED BY <2>3, <1>2
<1>4. \A y \in T : b >= y
  BY <1>2
<1> QED BY <1>3, <1>4 DEF Max

-------------------------------------------------------------------------------
(* A push names a block that got as far as it says. *)
PushesFit ==
  \A i \in DOMAIN wire : /\ wire[i].block \in DOMAIN chain[wire[i].h]
                         /\ wire[i].state <= chain[wire[i].h][wire[i].block]

(* So does a reading, unless it failed or is still awaited. *)
ReadingFits(t) ==
  LET got == poll.got[t]
  IN IF got.h = 0 THEN got \in {Unread, Missing}
     ELSE got.block \in DOMAIN chain[got.h] /\ StateOfTag[t] <= chain[got.h][got.block]

(* A record of h names blocks that were, one of which got as far as it says. *)
RecordFits(h, record) ==
  record # NoRecord =>
    /\ {record.blockId, record.blockHash} \subseteq DOMAIN chain[h] \cup {0}
    /\ \E b \in {record.blockId, record.blockHash} \ {0} : record.state <= chain[h][b]
    /\ record.blockId = 0 => record.state < Verified

RecordsFit(records) == \A h \in Heights : RecordFits(h, records[h])

HeadsInv ==
  /\ HeadsTypeOK /\ PushesFit /\ (\A t \in Tags : ReadingFits(t)) /\ RecordsFit(blocks)
  /\ ReorgsAreReal /\ NeverWithoutASource /\ WindowIsKept
  /\ (reconnects => socket.is = "none")

Record  == [blockId : 0..MaxBlocks, blockHash : 0..MaxBlocks, state : 0..4]
Records == [Heights -> Record]

LEMMA HeadsSaid ==
  ASSUME HeadsInv
  PROVE  HeadsAreTrue
<1>1. StatesWereReached
  BY DEF HeadsInv, RecordsFit, RecordFits, StatesWereReached, Kept
<1> QED BY <1>1 DEF HeadsInv, HeadsAreTrue

LEMMA Parameters ==
  ASSUME HeadsAssumption
  PROVE  /\ MaxHeight \in Nat /\ MaxBlocks \in Nat /\ LastState \in 1..4 /\ MaxPushes \in Nat
         /\ WindowSize \in Nat /\ MaxTimers \in Nat /\ MaxFlaps \in Nat
         /\ MaxBlocks >= 1 /\ WindowSize >= 1 /\ MaxTimers >= 1 /\ MaxHeight >= 1
         /\ Heights \subseteq Nat /\ Heights \subseteq 0..MaxHeight /\ IsFiniteSet(Heights)
<1>1. IsFiniteSet(1..MaxHeight)
  <2>1. 1 \in Int /\ MaxHeight \in Int
    BY DEF HeadsAssumption
  <2> QED BY ONLY <2>1, FS_Interval
<1> QED BY <1>1 DEF HeadsAssumption, Heights

Pushed == [h : Heights, block : 1..MaxBlocks, state : 1..4]

ChainTyped == /\ chain \in [Heights -> Seq(1..4)]
              /\ \A h \in Heights : Len(chain[h]) <= MaxBlocks

(* The type, part by part. *)
Typed ==
  /\ ChainTyped
  /\ socket \in [is : {"none", "opening", "open"}, subscribed : BOOLEAN]
  /\ wire \in Seq(Pushed)
  /\ timers \in [set : 0..MaxTimers, kept : BOOLEAN] /\ (timers.kept => timers.set > 0)
  /\ poll \in [on : BOOLEAN, got : [Tags -> [h : 0..MaxHeight, block : 0..MaxBlocks]]]
  /\ blocks \in Records
  /\ reorged \subseteq Heights /\ reconnects \in BOOLEAN /\ stopped \in BOOLEAN /\ flaps \in 0..MaxFlaps

LEMMA TypeIs == HeadsTypeOK <=> Typed
BY DEF HeadsTypeOK, Typed, ChainTyped, Pushed, Records, Record, Proposed, Verified

LEMMA SeqParts ==
  ASSUME NEW S, NEW s \in Seq(S)
  PROVE  /\ Len(s) \in Nat /\ DOMAIN s = 1..Len(s)
         /\ \A i \in DOMAIN s : s[i] \in S
  OBVIOUS

LEMMA Added ==
  ASSUME NEW S, NEW s \in Seq(S), NEW x \in S
  PROVE  /\ Append(s, x) \in Seq(S) /\ Len(Append(s, x)) = Len(s) + 1
         /\ DOMAIN Append(s, x) = 1..(Len(s) + 1)
         /\ \A i \in 1..Len(s) : Append(s, x)[i] = s[i]
         /\ Append(s, x)[Len(s) + 1] = x
  OBVIOUS

LEMMA Patched ==
  ASSUME NEW S, NEW s \in Seq(S), NEW i \in DOMAIN s, NEW x \in S
  PROVE  LET p == [s EXCEPT ![i] = x]
         IN /\ p \in Seq(S) /\ Len(p) = Len(s) /\ DOMAIN p = DOMAIN s
            /\ p[i] = x /\ \A j \in DOMAIN s \ {i} : p[j] = s[j]
BY ExceptSeq

LEMMA HeadsStart ==
  ASSUME HeadsAssumption, HeadsInit
  PROVE  HeadsInv
<1> USE Parameters DEF HeadsInit
<1>1. HeadsTypeOK
  <2>1. ChainTyped
    BY DEF ChainTyped
  <2>2. blocks \in Records
    BY DEF NoRecord, Records, Record
  <2>3. poll \in [on : BOOLEAN, got : [Tags -> [h : 0..MaxHeight, block : 0..MaxBlocks]]]
    BY DEF NoPoll, Unread
  <2>4. wire \in Seq(Pushed) /\ timers.set = 1 /\ timers \in [set : 0..MaxTimers, kept : BOOLEAN]
    OBVIOUS
  <2>5. /\ socket \in [is : {"none", "opening", "open"}, subscribed : BOOLEAN]
        /\ reorged \subseteq Heights /\ reconnects \in BOOLEAN /\ stopped \in BOOLEAN
    BY Zenon
  <2>6. flaps \in 0..MaxFlaps
    OBVIOUS
  <2>7. Typed
    BY <2>1, <2>2, <2>3, <2>4, <2>5, <2>6 DEF Typed
  <2> QED BY <2>7, TypeIs
<1>2. PushesFit
  BY DEF PushesFit
<1>3. \A t \in Tags : ReadingFits(t)
  BY DEF ReadingFits, NoPoll, Unread
<1>4. RecordsFit(blocks)
  BY DEF RecordsFit, RecordFits
<1>5. Kept(blocks) = {}
  BY DEF Kept
<1>6. WindowIsKept
  <2>1. Cardinality(Kept(blocks)) = 0
    BY <1>5, FS_EmptySet
  <2> QED BY <2>1 DEF WindowIsKept
<1>7. ReorgsAreReal /\ NeverWithoutASource /\ (reconnects => socket.is = "none")
  BY DEF ReorgsAreReal, NeverWithoutASource
<1> QED BY <1>1, <1>2, <1>3, <1>4, <1>6, <1>7 DEF HeadsInv

-------------------------------------------------------------------------------
(* The chain only gets further. *)
HeightsGrow ==
  \A h \in Heights : /\ DOMAIN chain[h] \subseteq DOMAIN chain'[h]
                     /\ \A n \in DOMAIN chain[h] : chain[h][n] <= chain'[h][n]

LEMMA StillFits ==
  ASSUME ChainTyped, ChainTyped', HeightsGrow, NEW h \in Heights, NEW b \in DOMAIN chain[h],
         NEW state \in Int, state <= chain[h][b]
  PROVE  b \in DOMAIN chain'[h] /\ state <= chain'[h][b]
<1>1. chain[h] \in Seq(1..4) /\ chain'[h] \in Seq(1..4)
  BY DEF ChainTyped
<1>2. b \in DOMAIN chain'[h] /\ chain[h][b] <= chain'[h][b]
  BY DEF HeightsGrow
<1>3. chain[h][b] \in Int /\ chain'[h][b] \in Int
  BY <1>1, <1>2, SeqParts
<1> QED BY <1>2, <1>3

(* A block more, or further, and its push. *)
LEMMA PushFits ==
  ASSUME HeadsAssumption, HeadsInv, HeightsGrow, ChainTyped', NEW h \in Heights, NEW block,
         NEW state \in 1..4, Pushes(h, block, state),
         block \in DOMAIN chain'[h], state <= chain'[h][block],
         UNCHANGED <<socket, reconnects, timers, poll, blocks, reorged, stopped, flaps>>
  PROVE  HeadsInv'
<1> DEFINE push == [h |-> h, block |-> block, state |-> state]
<1>0. Typed
  BY TypeIs DEF HeadsInv
<1>1. push \in Pushed
  <2>1. chain'[h] \in Seq(1..4) /\ Len(chain'[h]) <= MaxBlocks
    BY DEF ChainTyped
  <2>2. block \in 1..MaxBlocks
    BY <2>1, SeqParts, Parameters
  <2> QED BY <2>2 DEF Pushed
<1>2. wire' = wire \/ wire' = Append(wire, push)
  BY DEF Pushes
<1> HIDE DEF push
<1>3. wire \in Seq(Pushed)
  BY <1>0 DEF Typed
<1>4. /\ wire' \in Seq(Pushed)
      /\ \A i \in DOMAIN wire' : wire'[i] = push \/ (i \in DOMAIN wire /\ wire'[i] = wire[i])
  <2>1. CASE wire' = wire
    BY <2>1, <1>3
  <2>2. CASE wire' = Append(wire, push)
    BY <2>2, <1>1, <1>3, Added, SeqParts
  <2> QED BY <1>2, <2>1, <2>2
<1>5. HeadsTypeOK'
  <2>1. Typed'
    BY <1>0, <1>4 DEF Typed
  <2> QED BY <2>1 DEF HeadsTypeOK, Typed, ChainTyped, Pushed, Records, Record, Proposed, Verified
<1>6. PushesFit'
  <2> SUFFICES ASSUME NEW i \in DOMAIN wire'
               PROVE  /\ wire'[i].block \in DOMAIN chain'[wire'[i].h]
                      /\ wire'[i].state <= chain'[wire'[i].h][wire'[i].block]
    BY DEF PushesFit
  <2>1. CASE i \in DOMAIN wire /\ wire'[i] = wire[i]
    <3>1. wire[i] \in Pushed
      BY <2>1, <1>3, SeqParts
    <3>2. /\ wire[i].h \in Heights /\ wire[i].state \in Int
          /\ wire[i].block \in DOMAIN chain[wire[i].h]
          /\ wire[i].state <= chain[wire[i].h][wire[i].block]
      BY <2>1, <3>1 DEF PushesFit, Pushed, HeadsInv
    <3> QED BY <2>1, <3>2, <1>0, StillFits DEF Typed
  <2>2. CASE wire'[i] = push
    BY <2>2 DEF push
  <2> QED BY <2>1, <2>2, <1>4
<1>7. \A t \in Tags : ReadingFits(t)'
  <2> SUFFICES ASSUME NEW t \in Tags PROVE ReadingFits(t)'
    OBVIOUS
  <2>1. poll.got[t] \in [h : 0..MaxHeight, block : 0..MaxBlocks] /\ poll' = poll /\ ReadingFits(t)
    BY <1>0 DEF Typed, HeadsInv
  <2>2. CASE poll.got[t].h = 0
    BY <2>1, <2>2 DEF ReadingFits
  <2>3. CASE poll.got[t].h # 0
    <3> DEFINE k == poll.got[t].h
               b == poll.got[t].block
    <3>1. k \in Heights
      BY <2>1, <2>3, Parameters DEF Heights
    <3>2. b \in DOMAIN chain[k] /\ StateOfTag[t] <= chain[k][b]
      BY <2>1, <2>3 DEF ReadingFits
    <3>3. StateOfTag[t] \in Int
      BY DEF StateOfTag, Tags, Proposed, Voted, Finalized
    <3> HIDE DEF k, b
    <3>4. b \in DOMAIN chain'[k] /\ StateOfTag[t] <= chain'[k][b]
      BY <1>0, <3>1, <3>2, <3>3, StillFits DEF Typed
    <3> QED BY <2>1, <2>3, <3>4 DEF ReadingFits, k, b
  <2> QED BY <2>2, <2>3
<1>8. RecordsFit(blocks)'
  <2> SUFFICES ASSUME NEW k \in Heights PROVE RecordFits(k, blocks[k])'
    BY DEF RecordsFit
  <2> DEFINE record == blocks[k]
  <2>1. RecordFits(k, record) /\ record' = record /\ record \in Record
    BY <1>0 DEF RecordsFit, HeadsInv, Typed, Records
  <2> HIDE DEF record
  <2>2. CASE record # NoRecord
    <3>1. PICK b \in {record.blockId, record.blockHash} \ {0} : record.state <= chain[k][b]
      BY <2>1, <2>2 DEF RecordFits
    <3>2. b \in DOMAIN chain[k] /\ record.state \in Int
      BY <2>1, <2>2, <3>1 DEF RecordFits, Record
    <3>3. record.state <= chain'[k][b] /\ DOMAIN chain[k] \subseteq DOMAIN chain'[k]
      BY <1>0, <3>1, <3>2, StillFits DEF Typed, HeightsGrow
    <3> QED BY <2>1, <2>2, <3>1, <3>3 DEF RecordFits, record
  <2> QED BY <2>1, <2>2 DEF RecordFits, record
<1>9. ReorgsAreReal'
  <2> SUFFICES ASSUME NEW k \in reorged PROVE Len(chain'[k]) > 1
    BY DEF ReorgsAreReal
  <2>1. k \in Heights /\ Len(chain[k]) > 1 /\ chain[k] \in Seq(1..4) /\ chain'[k] \in Seq(1..4)
    BY <1>0 DEF Typed, ReorgsAreReal, HeadsInv, ChainTyped
  <2>2. 2 \in DOMAIN chain[k]
    BY <2>1, SeqParts
  <2>3. 2 \in DOMAIN chain'[k]
    BY <2>1, <2>2 DEF HeightsGrow
  <2> QED BY <2>1, <2>3, SeqParts
<1>10. NeverWithoutASource' /\ WindowIsKept' /\ (reconnects => socket.is = "none")'
  BY DEF HeadsInv, NeverWithoutASource, WindowIsKept, Kept
<1> QED BY <1>5, <1>6, <1>7, <1>8, <1>9, <1>10 DEF HeadsInv

(* The tip is the last height with a block. *)
LEMMA TipIs ==
  ASSUME HeadsAssumption, HeadsTypeOK
  PROVE  /\ Tip \in 0..MaxHeight /\ (Tip # 0 => Tip \in Heights /\ chain[Tip] # <<>>)
         /\ \A h \in Heights : h > Tip => chain[h] = <<>>
<1> DEFINE T == {h \in Heights : chain[h] # <<>>} \cup {0}
<1>1. T \subseteq 0..MaxHeight /\ T # {} /\ MaxHeight \in Nat
  BY Parameters
<1>2. Max(T) \in T /\ \A y \in T : Max(T) >= y
  <2> HIDE DEF T
  <2> QED BY <1>1, GreatestIs
<1>3. Tip = Max(T)
  BY DEF Tip
<1>4. \A h \in Heights : h > Tip => h \notin T
  <2> SUFFICES ASSUME NEW h \in Heights, h \in T PROVE ~(h > Tip)
    OBVIOUS
  <2>1. h \in Nat /\ Max(T) \in Nat /\ Max(T) >= h
    BY <1>1, <1>2, Parameters
  <2> QED BY <2>1, <1>3
<1> QED BY <1>1, <1>2, <1>3, <1>4

(* There is room for a block at any height as long as there are fewer than the
   bound of them. *)
LEMMA EverBounds ==
  ASSUME HeadsAssumption, HeadsTypeOK, Ever < MaxBlocks, NEW h \in Heights
  PROVE  Len(chain[h]) < MaxBlocks
<1> DEFINE All == {b \in Heights \X (1..MaxBlocks) : b[2] \in DOMAIN chain[b[1]]}
           f == [n \in 1..MaxBlocks |-> <<h, n>>]
<1> SUFFICES ASSUME Len(chain[h]) = MaxBlocks PROVE FALSE
  BY Parameters DEF HeadsTypeOK
<1>1. IsFiniteSet(1..MaxBlocks) /\ Cardinality(1..MaxBlocks) = MaxBlocks
  BY Parameters, FS_Interval
<1>2. IsFiniteSet(Heights \X (1..MaxBlocks))
  BY <1>1, Parameters, FS_Product
<1>3. IsFiniteSet(All)
  BY <1>2, FS_Subset
<1>4. f \in Injection(1..MaxBlocks, All)
  <2>1. f \in [1..MaxBlocks -> All]
    BY DEF HeadsTypeOK
  <2>2. \A a, b \in 1..MaxBlocks : f[a] = f[b] => a = b
    OBVIOUS
  <2> QED BY <2>1, <2>2 DEF Injection, IsInjective
<1>5. Cardinality(1..MaxBlocks) <= Cardinality(All)
  <2> HIDE DEF All, f
  <2> QED BY <1>3, <1>4, FS_Injection
<1>6. Cardinality(All) \in Nat
  BY <1>3, FS_CardinalityType
<1> QED BY <1>1, <1>5, <1>6, Parameters DEF Ever

-------------------------------------------------------------------------------
(* The chain's own steps. *)
LEMMA GrowsFits ==
  ASSUME HeadsAssumption, HeadsInv, Grows
  PROVE  HeadsInv'
<1> DEFINE h == Tip + 1
<1>1. /\ h \in Heights /\ Ever < MaxBlocks /\ chain' = [chain EXCEPT ![h] = <<1>>] /\ Pushes(h, 1, 1)
      /\ UNCHANGED <<socket, reconnects, timers, poll, blocks, reorged, stopped, flaps>>
  BY DEF Grows, Proposed
<1>2. Typed /\ HeadsTypeOK
  BY TypeIs DEF HeadsInv
<1>3. chain[h] = <<>>
  BY <1>1, <1>2, TipIs, Parameters
<1> HIDE DEF h
<1>4. chain'[h] = <<1>> /\ \A k \in Heights \ {h} : chain'[k] = chain[k]
  BY <1>1, <1>2 DEF Typed, ChainTyped
<1>5. ChainTyped'
  <2>1. <<1>> \in Seq(1..4) /\ Len(<<1>>) = 1
    OBVIOUS
  <2> QED BY <1>1, <1>2, <1>4, <2>1, Parameters DEF Typed, ChainTyped
<1>6. HeightsGrow
  <2> SUFFICES ASSUME NEW k \in Heights
               PROVE  /\ DOMAIN chain[k] \subseteq DOMAIN chain'[k]
                      /\ \A n \in DOMAIN chain[k] : chain[k][n] <= chain'[k][n]
    BY DEF HeightsGrow
  <2>1. CASE k = h
    BY <2>1, <1>3
  <2>2. CASE k # h
    <3>1. chain[k] \in Seq(1..4)
      BY <1>2 DEF Typed, ChainTyped
    <3>2. \A n \in DOMAIN chain[k] : chain[k][n] \in Int
      BY <3>1, SeqParts
    <3> QED BY <2>2, <1>4, <3>2
  <2> QED BY <2>1, <2>2
<1>7. 1 \in DOMAIN chain'[h] /\ 1 <= chain'[h][1]
  BY <1>4
<1> QED BY <1>1, <1>5, <1>6, <1>7, PushFits

LEMMA ReplacesFits ==
  ASSUME HeadsAssumption, HeadsInv, Replaces
  PROVE  HeadsInv'
<1> DEFINE h == Tip
<1>1. /\ h > 0 /\ Ever < MaxBlocks /\ chain' = [chain EXCEPT ![h] = Append(chain[h], 1)]
      /\ Pushes(h, Len(chain[h]) + 1, 1)
      /\ UNCHANGED <<socket, reconnects, timers, poll, blocks, reorged, stopped, flaps>>
  BY DEF Replaces, Proposed
<1>2. Typed /\ HeadsTypeOK
  BY TypeIs DEF HeadsInv
<1>3. h \in Heights
  BY <1>1, <1>2, TipIs, Parameters
<1>4. Len(chain[h]) < MaxBlocks
  BY <1>1, <1>2, <1>3, EverBounds
<1> HIDE DEF h
<1>5. chain[h] \in Seq(1..4)
  BY <1>2, <1>3 DEF Typed, ChainTyped
<1>6. /\ chain'[h] \in Seq(1..4) /\ Len(chain'[h]) = Len(chain[h]) + 1
      /\ DOMAIN chain'[h] = 1..(Len(chain[h]) + 1)
      /\ \A i \in DOMAIN chain[h] : chain'[h][i] = chain[h][i]
      /\ chain'[h][Len(chain[h]) + 1] = 1
      /\ \A k \in Heights \ {h} : chain'[k] = chain[k]
  <2>1. chain'[h] = Append(chain[h], 1) /\ \A k \in Heights \ {h} : chain'[k] = chain[k]
    BY <1>1, <1>2, <1>3 DEF Typed, ChainTyped
  <2>2. 1 \in 1..4
    OBVIOUS
  <2> QED BY <2>1, <2>2, <1>5, Added, SeqParts
<1>7. ChainTyped'
  <2>1. Len(chain[h]) \in Nat
    BY <1>5, SeqParts
  <2>2. chain' \in [Heights -> Seq(1..4)]
    BY <1>1, <1>2, <1>6 DEF Typed, ChainTyped
  <2>3. \A k \in Heights : Len(chain'[k]) <= MaxBlocks
    <3>1. Len(chain'[h]) <= MaxBlocks
      BY <1>4, <1>6, <2>1, Parameters
    <3>2. \A k \in Heights \ {h} : Len(chain'[k]) <= MaxBlocks
      BY <1>2, <1>6 DEF Typed, ChainTyped
    <3> QED BY <3>1, <3>2
  <2> QED BY <2>2, <2>3 DEF ChainTyped
<1>8. HeightsGrow
  <2> SUFFICES ASSUME NEW k \in Heights
               PROVE  /\ DOMAIN chain[k] \subseteq DOMAIN chain'[k]
                      /\ \A n \in DOMAIN chain[k] : chain[k][n] <= chain'[k][n]
    BY DEF HeightsGrow
  <2>1. chain[k] \in Seq(1..4)
    BY <1>2 DEF Typed, ChainTyped
  <2>2. \A n \in DOMAIN chain[k] : chain[k][n] \in Int
    BY <2>1, SeqParts
  <2>3. DOMAIN chain[k] \subseteq DOMAIN chain'[k] /\ \A n \in DOMAIN chain[k] : chain'[k][n] = chain[k][n]
    BY <2>1, <1>6, SeqParts
  <2> QED BY <2>2, <2>3
<1>9. Len(chain[h]) + 1 \in DOMAIN chain'[h] /\ 1 <= chain'[h][Len(chain[h]) + 1]
  BY <1>5, <1>6, SeqParts
<1> QED BY <1>1, <1>3, <1>7, <1>8, <1>9, PushFits

LEMMA AdvancesFits ==
  ASSUME HeadsAssumption, HeadsInv, NEW h \in Heights, Advances(h)
  PROVE  HeadsInv'
<1> DEFINE n == Len(chain[h])
<1>1. Typed /\ HeadsTypeOK
  BY TypeIs DEF HeadsInv
<1>2. chain[h] \in Seq(1..4)
  BY <1>1 DEF Typed, ChainTyped
<1>3. PICK state \in 2..LastState :
        /\ n > 0 /\ state > chain[h][n] /\ (state = chain[h][n] + 1 \/ state = 3)
        /\ chain' = [chain EXCEPT ![h] = [chain[h] EXCEPT ![n] = state]] /\ Pushes(h, n, state)
        /\ UNCHANGED <<socket, reconnects, timers, poll, blocks, reorged, stopped, flaps>>
  BY DEF Advances, Voted, Finalized
<1> HIDE DEF n
<1>4. n \in DOMAIN chain[h] /\ chain[h][n] \in 1..4
  BY <1>2, <1>3, SeqParts DEF n
<1>5. state \in 1..4
  BY <1>3, Parameters
<1>6. /\ chain'[h] = [chain[h] EXCEPT ![n] = state]
      /\ \A k \in Heights \ {h} : chain'[k] = chain[k]
  BY <1>1, <1>3 DEF Typed, ChainTyped
<1>7. /\ chain'[h] \in Seq(1..4) /\ Len(chain'[h]) = Len(chain[h])
      /\ DOMAIN chain'[h] = DOMAIN chain[h] /\ chain'[h][n] = state
      /\ \A i \in DOMAIN chain[h] \ {n} : chain'[h][i] = chain[h][i]
  BY <1>2, <1>4, <1>5, <1>6, Patched
<1>8. ChainTyped'
  <2>1. chain' \in [Heights -> Seq(1..4)]
    BY <1>1, <1>3, <1>6, <1>7 DEF Typed, ChainTyped
  <2>2. \A k \in Heights : Len(chain'[k]) = Len(chain[k])
    BY <1>6, <1>7
  <2> QED BY <1>1, <2>1, <2>2 DEF Typed, ChainTyped
<1>9. HeightsGrow
  <2> SUFFICES ASSUME NEW k \in Heights
               PROVE  /\ DOMAIN chain[k] \subseteq DOMAIN chain'[k]
                      /\ \A i \in DOMAIN chain[k] : chain[k][i] <= chain'[k][i]
    BY DEF HeightsGrow
  <2>1. chain[k] \in Seq(1..4)
    BY <1>1 DEF Typed, ChainTyped
  <2>2. \A i \in DOMAIN chain[k] : chain[k][i] \in Int
    BY <2>1, SeqParts
  <2>3. CASE k = h
    <3>1. \A i \in DOMAIN chain[k] : chain[k][i] <= chain'[k][i]
      <4> TAKE i \in DOMAIN chain[k]
      <4>1. CASE i = n
        BY <2>3, <4>1, <1>3, <1>4, <1>5, <1>7
      <4>2. CASE i # n
        BY <2>2, <2>3, <4>2, <1>7
      <4> QED BY <4>1, <4>2
    <3> QED BY <2>3, <3>1, <1>7
  <2>4. CASE k # h
    BY <2>2, <2>4, <1>6
  <2> QED BY <2>3, <2>4
<1>10. n \in DOMAIN chain'[h] /\ state <= chain'[h][n]
  BY <1>4, <1>5, <1>7
<1> QED BY <1>3, <1>5, <1>8, <1>9, <1>10, PushFits
-------------------------------------------------------------------------------
(* Records: what `apply` makes of them. *)
KnownFits(known) ==
  /\ known.blocks \in Records /\ known.reorged \subseteq Heights
  /\ RecordsFit(known.blocks) /\ \A h \in known.reorged : Len(chain[h]) > 1
  /\ Cardinality(Kept(known.blocks)) <= WindowSize

LEMMA KeptIs ==
  ASSUME HeadsAssumption, NEW records
  PROVE  /\ Kept(records) \subseteq Heights /\ IsFiniteSet(Kept(records))
         /\ Cardinality(Kept(records)) \in Nat
<1>1. Kept(records) \subseteq Heights
  BY DEF Kept
<1> QED BY <1>1, Parameters, FS_Subset, FS_CardinalityType

(* One record more is kept, and then the lowest may be forgotten. *)
LEMMA Prunes ==
  ASSUME HeadsAssumption, NEW records \in Records, NEW h \in Heights, NEW record \in Record,
         Cardinality(Kept(records)) <= WindowSize,
         NEW added, added = [records EXCEPT ![h] = record]
  PROVE  /\ Prune(added) \in Records /\ Cardinality(Kept(Prune(added))) <= WindowSize
         /\ \A k \in Heights : Prune(added)[k] \in {added[k], NoRecord}
<1> DEFINE pruned == Prune(added)
           m == Min(Kept(added))
<1>1. added \in Records
  BY DEF Records
<1>2. Kept(added) \subseteq Kept(records) \cup {h}
  BY DEF Kept, Records
<1>3. NoRecord \in Record
  BY Parameters DEF NoRecord, Record
<1>4. Cardinality(Kept(added)) <= WindowSize + 1
  <2>1. IsFiniteSet(Kept(records)) /\ Cardinality(Kept(records)) \in Nat
    BY KeptIs
  <2>2. IsFiniteSet(Kept(records) \cup {h})
        /\ Cardinality(Kept(records) \cup {h}) <= Cardinality(Kept(records)) + 1
    <3>1. /\ IsFiniteSet(Kept(records) \cup {h})
          /\ \/ Cardinality(Kept(records) \cup {h}) = Cardinality(Kept(records))
             \/ Cardinality(Kept(records) \cup {h}) = Cardinality(Kept(records)) + 1
      BY <2>1, FS_AddElement, Zenon
    <3> QED BY <2>1, <3>1
  <2>3. Cardinality(Kept(added)) <= Cardinality(Kept(records) \cup {h})
    BY <2>2, <1>2, FS_Subset
  <2>4. Cardinality(Kept(added)) \in Nat /\ Cardinality(Kept(records) \cup {h}) \in Nat
    BY <2>2, KeptIs, FS_CardinalityType
  <2> QED BY <2>1, <2>2, <2>3, <2>4, Parameters
<1>5. CASE Cardinality(Kept(added)) <= WindowSize
  BY <1>1, <1>5 DEF Prune
<1>6. CASE ~(Cardinality(Kept(added)) <= WindowSize)
  <2>1. IsFiniteSet(Kept(added)) /\ Cardinality(Kept(added)) \in Nat /\ Kept(added) \subseteq Nat
    BY KeptIs, Parameters
  <2>2. Kept(added) # {}
    <3> SUFFICES ASSUME Kept(added) = {} PROVE FALSE
      OBVIOUS
    <3>1. Cardinality(Kept(added)) = 0
      BY FS_EmptySet
    <3> QED BY <1>6, <3>1, Parameters
  <2>3. m \in Kept(added)
    BY <2>1, <2>2, LeastIs
  <2>4. pruned = [added EXCEPT ![m] = NoRecord]
    BY <1>6 DEF Prune
  <2>5. m \in Heights
    BY <2>3 DEF Kept
  <2> HIDE DEF m, pruned
  <2>6. /\ pruned \in Records
        /\ \A k \in Heights : pruned[k] = IF k = m THEN NoRecord ELSE added[k]
    BY <1>1, <1>3, <2>4, <2>5 DEF Records
  <2>7. Kept(pruned) = Kept(added) \ {m}
    BY <2>6 DEF Kept
  <2>8. Cardinality(Kept(pruned)) = Cardinality(Kept(added)) - 1
    BY <2>1, <2>3, <2>7, FS_RemoveElement
  <2>9. Cardinality(Kept(pruned)) <= WindowSize
    BY <1>4, <2>1, <2>8, Parameters
  <2> QED BY <2>6, <2>9 DEF pruned
<1> QED BY <1>5, <1>6

(* The record of a block that was as far as it is said to be, under the id its
   source gives it. *)
LEMMA NamedFits ==
  ASSUME HeadsAssumption, Typed, NEW h \in Heights, NEW old \in Record, RecordFits(h, old),
         NEW source \in {"socket", "http"}, NEW block \in DOMAIN chain[h],
         NEW state \in 1..4, state <= chain[h][block], source = "http" => state < 4,
         NEW gone \in BOOLEAN, gone <=> Held(old, source) \notin {0, block},
         NEW new, new = IF gone \/ old = NoRecord THEN [NoRecord EXCEPT !.state = state]
                        ELSE IF state > old.state THEN [old EXCEPT !.state = state] ELSE old
  PROVE  /\ Named(new, source, block) \in Record /\ RecordFits(h, Named(new, source, block))
         /\ gone => Len(chain[h]) > 1
<1>1. /\ chain[h] \in Seq(1..4) /\ Len(chain[h]) \in Nat /\ DOMAIN chain[h] = 1..Len(chain[h])
      /\ block \in 1..MaxBlocks /\ \A b \in DOMAIN chain[h] : chain[h][b] \in 1..4
  <2>1. chain[h] \in Seq(1..4) /\ Len(chain[h]) <= MaxBlocks
    BY DEF Typed, ChainTyped
  <2>2. /\ Len(chain[h]) \in Nat /\ DOMAIN chain[h] = 1..Len(chain[h])
        /\ \A b \in DOMAIN chain[h] : chain[h][b] \in 1..4
    BY <2>1, SeqParts
  <2> QED BY <2>1, <2>2, Parameters
<1>2. new \in Record
  BY Parameters DEF Record, NoRecord
<1>3. PICK other \in 0..MaxBlocks :
        /\ Named(new, source, block) = IF source = "socket"
             THEN [blockId |-> block, blockHash |-> other, state |-> new.state]
             ELSE [blockId |-> other, blockHash |-> block, state |-> new.state]
        /\ other = IF source = "socket" THEN new.blockHash ELSE new.blockId
  BY <1>2 DEF Record, Named
<1> DEFINE named == Named(new, source, block)
<1>4. /\ named \in Record /\ named.state = new.state
      /\ {named.blockId, named.blockHash} = {other, block}
      /\ named.blockId = 0 => source = "http" /\ other = 0
  <2>1. new.state \in 0..4 /\ block \in 0..MaxBlocks /\ block # 0
    BY <1>1, <1>2 DEF Record
  <2>2. CASE source = "socket"
    BY <1>3, <2>1, <2>2 DEF Record
  <2>3. CASE source = "http"
    BY <1>3, <2>1, <2>3 DEF Record
  <2> QED BY <2>2, <2>3
<1> HIDE DEF named
<1>5. block \in {named.blockId, named.blockHash} \ {0}
  <2>1. block # 0
    BY <1>1, Parameters
  <2> QED BY <1>4, <2>1
<1>6. CASE gone \/ old = NoRecord
  <2>1. other = 0 /\ new.state = state
    BY <1>3, <1>6 DEF NoRecord
  <2>2. RecordFits(h, named)
    <3>1. {named.blockId, named.blockHash} \subseteq DOMAIN chain[h] \cup {0}
      BY <1>4, <2>1
    <3>2. block \in {named.blockId, named.blockHash} \ {0} /\ named.state <= chain[h][block]
      BY <1>4, <1>5, <2>1
    <3>3. named.blockId = 0 => named.state < Verified
      BY <1>4, <2>1 DEF Verified
    <3> QED BY <3>1, <3>2, <3>3 DEF RecordFits
  <2>3. gone => Len(chain[h]) > 1
    <3> SUFFICES ASSUME gone PROVE Len(chain[h]) > 1
      OBVIOUS
    <3>1. old # NoRecord
      <4> SUFFICES ASSUME old = NoRecord PROVE FALSE
        OBVIOUS
      <4>1. Held(old, source) = 0
        BY DEF Held, NoRecord
      <4> QED BY <4>1
    <3>2. Held(old, source) \in DOMAIN chain[h] \cup {0}
      BY <3>1 DEF RecordFits, Held
    <3>3. \E b \in DOMAIN chain[h] : b # block
      BY <3>2
    <3> QED BY <1>1, <3>3
  <2> QED BY <1>4, <2>2, <2>3 DEF named
<1>7. CASE ~gone /\ old # NoRecord
  <2>1. /\ other = IF source = "socket" THEN old.blockHash ELSE old.blockId
        /\ Held(old, source) \in {0, block}
        /\ new.state = IF state > old.state THEN state ELSE old.state
    BY <1>3, <1>7 DEF Record
  <2>2. {old.blockId, old.blockHash} = {Held(old, source), other}
    BY <2>1 DEF Held
  <2>3. other \in DOMAIN chain[h] \cup {0}
    BY <1>7, <2>2 DEF RecordFits
  <2>4. \E b \in {named.blockId, named.blockHash} \ {0} : named.state <= chain[h][b]
    <3>1. CASE state > old.state
      <4>1. block \in {named.blockId, named.blockHash} \ {0} /\ named.state <= chain[h][block]
        BY <1>4, <1>5, <2>1, <3>1
      <4> QED BY <4>1
    <3>2. CASE ~(state > old.state)
      <4>1. PICK b \in {old.blockId, old.blockHash} \ {0} : old.state <= chain[h][b]
        BY <1>7 DEF RecordFits
      <4>2. b \in {other, block}
        BY <2>1, <2>2, <4>1
      <4> QED BY <1>4, <2>1, <3>2, <4>1, <4>2
    <3> QED BY <3>1, <3>2
  <2>5. named.blockId = 0 => named.state < Verified
    <3> SUFFICES ASSUME named.blockId = 0 PROVE named.state < Verified
      OBVIOUS
    <3>1. source = "http" /\ old.blockId = 0 /\ old.state < 4 /\ state < 4
      BY <1>4, <1>7, <2>1 DEF RecordFits, Verified
    <3> QED BY <1>4, <2>1, <3>1 DEF Verified
  <2> QED BY <1>1, <1>4, <1>7, <2>3, <2>4, <2>5 DEF RecordFits, named
<1> QED BY <1>6, <1>7
LEMMA AppliesFit ==
  ASSUME HeadsAssumption, Typed, NEW known, KnownFits(known),
         NEW source \in {"socket", "http"}, NEW h \in Heights, NEW block \in DOMAIN chain[h],
         NEW state \in 1..4, state <= chain[h][block], source = "http" => state < 4
  PROVE  KnownFits(Apply(known, source, h, block, state))
<1> DEFINE old  == known.blocks[h]
           gone == Held(old, source) \notin {0, block}
           new  == IF gone \/ old = NoRecord THEN [NoRecord EXCEPT !.state = state]
                   ELSE IF state > old.state THEN [old EXCEPT !.state = state] ELSE old
           named == Named(new, source, block)
           added == [known.blocks EXCEPT ![h] = named]
           after == Apply(known, source, h, block, state)
<1>1. /\ after.blocks = Prune(added)
      /\ after.reorged = IF gone THEN known.reorged \cup {h} ELSE known.reorged
  BY DEF Apply
<1>2. old \in Record /\ RecordFits(h, old) /\ gone \in BOOLEAN
  BY DEF KnownFits, Records, RecordsFit
<1> HIDE DEF after
<1>3. /\ named \in Record /\ RecordFits(h, named)
      /\ gone => Len(chain[h]) > 1
  <2>1. /\ gone <=> Held(old, source) \notin {0, block}
        /\ new = IF gone \/ old = NoRecord THEN [NoRecord EXCEPT !.state = state]
                 ELSE IF state > old.state THEN [old EXCEPT !.state = state] ELSE old
    OBVIOUS
  <2> HIDE DEF old, gone, new
  <2>2. /\ Named(new, source, block) \in Record /\ RecordFits(h, Named(new, source, block))
        /\ gone => Len(chain[h]) > 1
    BY <1>2, <2>1, NamedFits
  <2> QED BY <2>2
<1> HIDE DEF named, gone
<1>4. /\ Prune(added) \in Records /\ Cardinality(Kept(Prune(added))) <= WindowSize
      /\ \A k \in Heights : Prune(added)[k] \in {added[k], NoRecord}
  BY <1>3, Prunes DEF KnownFits
<1>5. \A k \in Heights : added[k] = IF k = h THEN named ELSE known.blocks[k]
  BY DEF KnownFits, Records
<1>6. RecordsFit(Prune(added))
  <2> SUFFICES ASSUME NEW k \in Heights PROVE RecordFits(k, Prune(added)[k])
    BY DEF RecordsFit
  <2>1. RecordFits(k, added[k])
    BY <1>3, <1>5 DEF KnownFits, RecordsFit
  <2>2. RecordFits(k, NoRecord)
    BY DEF RecordFits
  <2> QED BY <1>4, <2>1, <2>2
<1> HIDE DEF added
<1>7. after.reorged \subseteq Heights /\ \A k \in after.reorged : Len(chain[k]) > 1
  BY <1>1, <1>3 DEF KnownFits
<1> QED BY <1>1, <1>4, <1>6, <1>7 DEF KnownFits, after
-------------------------------------------------------------------------------
(* The invariant, by what each step touches. *)
WireFits   == wire \in Seq(Pushed) /\ PushesFit
PollFits   == /\ poll \in [on : BOOLEAN, got : [Tags -> [h : 0..MaxHeight, block : 0..MaxBlocks]]]
              /\ \A t \in Tags : ReadingFits(t)
TimersFit  == timers \in [set : 0..MaxTimers, kept : BOOLEAN] /\ (timers.kept => timers.set > 0)
SourcesFit ==
  /\ socket \in [is : {"none", "opening", "open"}, subscribed : BOOLEAN]
  /\ reconnects \in BOOLEAN /\ stopped \in BOOLEAN /\ flaps \in 0..MaxFlaps
  /\ NeverWithoutASource /\ (reconnects => socket.is = "none")

LEMMA PartsOf ==
  ASSUME HeadsInv
  PROVE  ChainTyped /\ WireFits /\ PollFits /\ TimersFit /\ SourcesFit /\ KnownFits(Known) /\ Typed
<1>1. Typed
  BY TypeIs DEF HeadsInv
<1>2. KnownFits(Known)
  BY <1>1 DEF HeadsInv, Typed, KnownFits, Known, ReorgsAreReal, WindowIsKept
<1> QED BY <1>1, <1>2 DEF HeadsInv, Typed, WireFits, PollFits, TimersFit, SourcesFit

LEMMA PartsMake ==
  ASSUME HeadsInv, UNCHANGED chain, WireFits', PollFits', TimersFit', SourcesFit', KnownFits(Known')
  PROVE  HeadsInv'
<1>1. ChainTyped /\ ChainTyped'
  BY PartsOf DEF ChainTyped
<1>2. Typed'
  BY <1>1 DEF Typed, WireFits, PollFits, TimersFit, SourcesFit, KnownFits, Known
<1>3. HeadsTypeOK'
  BY <1>2 DEF HeadsTypeOK, Typed, ChainTyped, Pushed, Records, Record, Proposed, Verified
<1>4. RecordsFit(blocks)' /\ ReorgsAreReal' /\ WindowIsKept'
  BY DEF KnownFits, Known, RecordsFit, RecordFits, ReorgsAreReal, WindowIsKept, Kept
<1> QED BY <1>3, <1>4 DEF HeadsInv, WireFits, PollFits, SourcesFit

(* What stands when its variables and the chain do. *)
LEMMA WireStands ==
  ASSUME WireFits, UNCHANGED <<chain, wire>>
  PROVE  WireFits'
BY DEF WireFits, PushesFit

LEMMA PollStands ==
  ASSUME PollFits, UNCHANGED <<chain, poll>>
  PROVE  PollFits'
BY DEF PollFits, ReadingFits

LEMMA KnownStands ==
  ASSUME KnownFits(Known), UNCHANGED <<blocks, reorged>>
  PROVE  KnownFits(Known')
<1>1. Known' = Known
  BY DEF Known
<1> QED BY <1>1

(* No push on its way, and no poll begun. *)
LEMMA WireEmpty ==
  ASSUME wire' = <<>>
  PROVE  WireFits'
BY DEF WireFits, PushesFit

LEMMA PollEmpty ==
  ASSUME HeadsAssumption, poll' = NoPoll \/ poll' = [NoPoll EXCEPT !.on = TRUE]
  PROVE  PollFits'
<1>1. poll' \in [on : BOOLEAN, got : [Tags -> [h : 0..MaxHeight, block : 0..MaxBlocks]]]
  <2>1. Unread \in [h : 0..MaxHeight, block : 0..MaxBlocks]
    BY Parameters DEF Unread
  <2>2. CASE poll' = NoPoll
    BY <2>1, <2>2 DEF NoPoll
  <2>3. CASE poll' = [NoPoll EXCEPT !.on = TRUE]
    <3>1. poll' = [on |-> TRUE, got |-> [t \in Tags |-> Unread]]
      BY <2>3 DEF NoPoll
    <3> QED BY <2>1, <3>1
  <2> QED BY <2>2, <2>3
<1>2. \A t \in Tags : poll'.got[t] = Unread
  BY DEF NoPoll
<1> QED BY <1>1, <1>2 DEF PollFits, ReadingFits, Unread

-------------------------------------------------------------------------------
(* What the service's steps keep. *)
LEMMA ReadingTakenFits ==
  ASSUME HeadsAssumption, HeadsInv, NEW t \in Tags, poll.got[t] # Unread, NEW known, KnownFits(known)
  PROVE  KnownFits(ReadingTaken(t, known))
<1> DEFINE got == poll.got[t]
<1>1. got \in [h : 0..MaxHeight, block : 0..MaxBlocks] /\ ReadingFits(t) /\ Typed
  BY PartsOf DEF PollFits
<1>2. CASE got = Missing
  BY <1>2 DEF ReadingTaken
<1>3. CASE got # Missing
  <2>1. got.h # 0
    BY <1>1, <1>3 DEF ReadingFits
  <2>2. got.h \in Heights /\ got.block \in DOMAIN chain[got.h] /\ StateOfTag[t] <= chain[got.h][got.block]
    BY <1>1, <2>1, Parameters DEF ReadingFits, Heights
  <2>3. StateOfTag[t] \in 1..4 /\ StateOfTag[t] < 4
    BY DEF StateOfTag, Tags, Proposed, Voted, Finalized
  <2>4. ReadingTaken(t, known) = Apply(known, "http", got.h, got.block, StateOfTag[t])
    BY <1>3 DEF ReadingTaken
  <2> HIDE DEF got
  <2> QED BY <1>1, <2>2, <2>3, <2>4, AppliesFit
<1> QED BY <1>2, <1>3

LEMMA AppliesPollFits ==
  ASSUME HeadsAssumption, HeadsInv, AppliesPoll
  PROVE  HeadsInv'
<1> USE PartsOf DEF AppliesPoll
<1> DEFINE known == ReadingTaken("finalized", ReadingTaken("safe", ReadingTaken("latest", Known)))
<1>1. KnownFits(known)
  <2>1. \A t \in Tags : poll.got[t] # Unread
    OBVIOUS
  <2>2. "latest" \in Tags /\ "safe" \in Tags /\ "finalized" \in Tags
    BY DEF Tags
  <2>3. KnownFits(ReadingTaken("latest", Known))
    BY <2>1, <2>2, ReadingTakenFits
  <2>4. KnownFits(ReadingTaken("safe", ReadingTaken("latest", Known)))
    BY <2>1, <2>2, <2>3, ReadingTakenFits
  <2> QED BY <2>1, <2>2, <2>4, ReadingTakenFits
<1>2. blocks' = known.blocks /\ reorged' = known.reorged
  BY DEF Folds
<1> HIDE DEF known
<1>3. KnownFits(Known')
  BY <1>1, <1>2 DEF KnownFits, Known
<1>4. TimersFit' /\ (stopped \/ socket.is = "open" \/ timers'.set > 0)
  <2>1. timers.set \in 0..MaxTimers /\ timers.kept \in BOOLEAN
    BY DEF TimersFit
  <2>2. CASE stopped \/ socket.is = "open"
    <3>1. timers' = timers
      BY <2>2
    <3> QED BY <2>2, <3>1 DEF TimersFit
  <2>3. CASE ~(stopped \/ socket.is = "open")
    <3>1. timers.set + 1 <= MaxTimers /\ timers' = [set |-> timers.set + 1, kept |-> TRUE]
      BY <2>3 DEF Sets
    <3>2. timers.set + 1 \in 0..MaxTimers /\ timers.set + 1 > 0
      BY <2>1, <3>1, Parameters
    <3>3. timers'.set > 0
      BY <3>1, <3>2
    <3> QED BY <3>1, <3>2, <3>3 DEF TimersFit
  <2> QED BY <2>2, <2>3
<1>5. SourcesFit'
  <2>1. UNCHANGED <<socket, reconnects, stopped, flaps>>
    OBVIOUS
  <2>2. SourcesFit
    OBVIOUS
  <2>3. NeverWithoutASource'
    <3>1. CASE stopped
      BY <2>1, <2>2, <3>1 DEF SourcesFit, NeverWithoutASource
    <3>2. CASE ~stopped
      <4>1. ~stopped'
        BY <2>1, <3>2
      <4>2. socket'.is # "open" => timers'.set > 0
        BY <1>4, <2>1, <3>2
      <4>3. socket'.is = "none" => reconnects'
        BY <2>1, <2>2, <3>2 DEF SourcesFit, NeverWithoutASource
      <4> QED BY <4>1, <4>2, <4>3 DEF NeverWithoutASource
    <3> QED BY <3>1, <3>2
  <2> QED BY <2>1, <2>2, <2>3 DEF SourcesFit
<1> QED BY <1>3, <1>4, <1>5, WireStands, PollEmpty, PartsMake

LEMMA TicksFit ==
  ASSUME HeadsAssumption, HeadsInv, Ticks
  PROVE  HeadsInv'
<1> USE PartsOf DEF Ticks
<1>1. TimersFit'
  <2>1. timers.set \in 0..MaxTimers /\ timers.set > 0
    BY DEF TimersFit
  <2>2. timers.set - 1 \in 0..MaxTimers /\ MaxTimers \in Nat
    BY <2>1, Parameters
  <2>3. timers' = [set |-> timers.set - 1, kept |-> FALSE] \/ timers' = [set |-> timers.set, kept |-> TRUE]
    OBVIOUS
  <2>4. CASE timers' = [set |-> timers.set - 1, kept |-> FALSE]
    BY ONLY <2>2, <2>4 DEF TimersFit
  <2>5. CASE timers' = [set |-> timers.set, kept |-> TRUE]
    BY ONLY <2>1, <2>5 DEF TimersFit
  <2> QED BY <2>3, <2>4, <2>5
<1>2. PollFits'
  BY PollEmpty, PollStands
<1>3. SourcesFit'
  BY DEF SourcesFit, NeverWithoutASource, TimersFit, NoPoll
<1> QED BY <1>1, <1>2, <1>3, WireStands, KnownStands, PartsMake

(* The block a tag stands for got as far as the tag says. *)
LEMMA TagIs ==
  ASSUME HeadsAssumption, Typed, NEW t \in Tags, TagHeight(t) # 0
  PROVE  LET h == TagHeight(t)
         IN h \in Heights /\ Len(chain[h]) \in DOMAIN chain[h] /\ StateOfTag[t] <= chain[h][Len(chain[h])]
            /\ Len(chain[h]) <= MaxBlocks
<1> DEFINE T == {h \in Heights : chain[h] # <<>> /\ Last(chain[h]) >= StateOfTag[t]} \cup {0}
<1>1. T \subseteq 0..MaxHeight /\ T # {} /\ MaxHeight \in Nat
  BY Parameters
<1>2. Max(T) \in T
  <2> HIDE DEF T
  <2> QED BY <1>1, GreatestIs
<1>3. PICK h \in Heights : h = TagHeight(t) /\ chain[h] # <<>> /\ Last(chain[h]) >= StateOfTag[t]
  BY <1>2 DEF TagHeight
<1>4. chain[h] \in Seq(1..4) /\ Len(chain[h]) <= MaxBlocks
  BY DEF Typed, ChainTyped
<1>5. Len(chain[h]) \in DOMAIN chain[h] /\ Last(chain[h]) = chain[h][Len(chain[h])]
  BY <1>3, <1>4, SeqParts DEF Last
<1>6. chain[h][Len(chain[h])] \in Int /\ StateOfTag[t] \in Int
  BY <1>4, <1>5, SeqParts DEF StateOfTag, Tags, Proposed, Voted, Finalized
<1> QED BY <1>3, <1>4, <1>5, <1>6

LEMMA ReadsTagFits ==
  ASSUME HeadsAssumption, HeadsInv, NEW t \in Tags, ReadsTag(t)
  PROVE  HeadsInv'
<1> USE PartsOf
<1>1. PICK got \in {Missing} \cup
        (IF TagHeight(t) = 0 THEN {} ELSE {[h |-> TagHeight(t), block |-> Len(chain[TagHeight(t)])]}) :
        poll' = [poll EXCEPT !.got[t] = got]
  BY DEF ReadsTag
<1>2. UNCHANGED <<chain, socket, wire, reconnects, timers, blocks, reorged, stopped, flaps>>
  BY DEF ReadsTag
<1>3. /\ got \in [h : 0..MaxHeight, block : 0..MaxBlocks]
      /\ IF got.h = 0 THEN got = Missing
         ELSE got.block \in DOMAIN chain[got.h] /\ StateOfTag[t] <= chain[got.h][got.block]
  <2>1. CASE got = Missing
    BY <2>1, Parameters DEF Missing
  <2>2. CASE got # Missing
    <3>1. TagHeight(t) # 0 /\ got = [h |-> TagHeight(t), block |-> Len(chain[TagHeight(t)])]
      BY <1>1, <2>2
    <3> DEFINE k == TagHeight(t)
    <3>2. /\ k \in Heights /\ Len(chain[k]) \in DOMAIN chain[k]
          /\ StateOfTag[t] <= chain[k][Len(chain[k])] /\ Len(chain[k]) <= MaxBlocks
      BY <3>1, TagIs
    <3>3. chain[k] \in Seq(1..4)
      BY <3>2 DEF ChainTyped
    <3>4. got.h = k /\ got.block = Len(chain[k]) /\ got = [h |-> k, block |-> Len(chain[k])]
      BY <3>1
    <3> HIDE DEF k
    <3>5. Len(chain[k]) \in 0..MaxBlocks /\ k \in 0..MaxHeight /\ k # 0
      BY <3>2, <3>3, SeqParts, Parameters DEF Heights
    <3> QED BY <3>2, <3>4, <3>5
  <2> QED BY <2>1, <2>2
<1>4. /\ poll'.got[t] = got /\ poll'.on = poll.on
      /\ \A u \in Tags \ {t} : poll'.got[u] = poll.got[u]
      /\ poll' \in [on : BOOLEAN, got : [Tags -> [h : 0..MaxHeight, block : 0..MaxBlocks]]]
  BY <1>1, <1>3 DEF PollFits
<1>5. \A u \in Tags : ReadingFits(u)'
  <2> SUFFICES ASSUME NEW u \in Tags PROVE ReadingFits(u)'
    OBVIOUS
  <2>1. CASE u = t
    BY <1>2, <1>3, <1>4, <2>1 DEF ReadingFits
  <2>2. CASE u # t
    BY <1>2, <1>4, <2>2 DEF ReadingFits, PollFits
  <2> QED BY <2>1, <2>2
<1>6. PollFits'
  BY <1>4, <1>5 DEF PollFits
<1>7. SourcesFit' /\ TimersFit'
  BY <1>2, <1>4 DEF SourcesFit, NeverWithoutASource, TimersFit
<1> QED BY <1>2, <1>6, <1>7, WireStands, KnownStands, PartsMake

LEMMA TakesPushFits ==
  ASSUME HeadsAssumption, HeadsInv, TakesPush
  PROVE  HeadsInv'
<1> USE PartsOf
<1>1. PICK i \in DOMAIN wire :
        /\ Folds(Apply(Known, "socket", wire[i].h, wire[i].block, wire[i].state))
        /\ wire' = RemoveAt(wire, i)
  <2>1. wire \in Seq(Pushed) /\ wire # <<>>
    BY DEF WireFits, TakesPush
  <2>2. {1} \subseteq DOMAIN wire
    BY <2>1
  <2> QED BY <2>2 DEF TakesPush
<1>2. UNCHANGED <<chain, socket, reconnects, timers, poll, stopped, flaps>>
  BY DEF TakesPush
<1>3. wire \in Seq(Pushed) /\ wire[i] \in Pushed
  BY SeqParts DEF WireFits
<1>4. KnownFits(Known')
  <2> DEFINE known == Apply(Known, "socket", wire[i].h, wire[i].block, wire[i].state)
  <2>1. /\ wire[i].h \in Heights /\ wire[i].state \in 1..4
        /\ wire[i].block \in DOMAIN chain[wire[i].h]
        /\ wire[i].state <= chain[wire[i].h][wire[i].block]
    BY <1>3 DEF Pushed, WireFits, PushesFit
  <2>2. KnownFits(known)
    BY <2>1, AppliesFit
  <2>3. blocks' = known.blocks /\ reorged' = known.reorged
    BY <1>1 DEF Folds
  <2> HIDE DEF known
  <2> QED BY <2>2, <2>3 DEF KnownFits, Known
<1>5. /\ wire' \in Seq(Pushed)
      /\ \A j \in DOMAIN wire' : \E k \in DOMAIN wire : wire'[j] = wire[k]
  <2>1. i \in 1..Len(wire) /\ Len(wire) \in Nat
    BY <1>3, SeqParts
  <2>2. /\ wire' \in Seq(Pushed) /\ Len(wire') = Len(wire) - 1
        /\ \A j \in 1..(Len(wire) - 1) : wire'[j] = IF j < i THEN wire[j] ELSE wire[j + 1]
    BY <1>1, <1>3, <2>1, Removed
  <2>3. DOMAIN wire' = 1..(Len(wire) - 1) /\ DOMAIN wire = 1..Len(wire)
    BY <1>3, <2>2, SeqParts
  <2>4. ASSUME NEW j \in DOMAIN wire'
        PROVE  \E k \in DOMAIN wire : wire'[j] = wire[k]
    <3>1. j \in DOMAIN wire /\ j + 1 \in DOMAIN wire
      BY <2>1, <2>3
    <3> QED BY <2>2, <2>3, <3>1
  <2> QED BY <2>2, <2>4
<1>6. WireFits'
  <2>1. PushesFit'
    BY <1>2, <1>5 DEF WireFits, PushesFit
  <2> QED BY <1>5, <2>1 DEF WireFits
<1>7. SourcesFit' /\ TimersFit'
  BY <1>2 DEF SourcesFit, NeverWithoutASource, TimersFit
<1> QED BY <1>2, <1>4, <1>6, <1>7, PollStands, PartsMake

LEMMA SocketFits ==
  ASSUME HeadsAssumption, HeadsInv, SocketOpens \/ SocketSubscribes \/ Ends \/ SocketReconnects \/ Stops
  PROVE  HeadsInv'
<1> USE PartsOf DEF SocketOpens, SocketSubscribes, Ends, SocketReconnects, Stops
<1>1. TimersFit'
  <2>1. /\ timers \in [set : 0..MaxTimers, kept : BOOLEAN] /\ (timers.kept => timers.set > 0)
        /\ timers.set \in 0..MaxTimers /\ MaxTimers \in Nat
    BY Parameters DEF TimersFit
  <2>2. CASE timers' = timers
    BY <2>1, <2>2 DEF TimersFit
  <2>3. CASE timers' = StopPolling
    <3>1. CASE timers.kept
      <4>1. timers' = [set |-> timers.set - 1, kept |-> FALSE] /\ timers.set - 1 \in 0..MaxTimers
        BY <2>1, <2>3, <3>1 DEF StopPolling
      <4> QED BY <4>1 DEF TimersFit
    <3>2. CASE ~timers.kept
      BY <2>2, <2>3, <3>2 DEF StopPolling
    <3> QED BY <3>1, <3>2
  <2>4. CASE timers' = StartPolling /\ (timers.kept \/ Sets(1))
    <3>1. CASE timers' = timers
      BY <2>2, <3>1
    <3>2. CASE timers' # timers
      <4>1. timers' = [set |-> timers.set + 1, kept |-> TRUE] /\ timers.set + 1 \in 0..MaxTimers
        BY <2>1, <2>4, <3>2 DEF StartPolling, Sets
      <4>2. timers'.set > 0
        BY <2>1, <4>1
      <4> QED BY <4>1, <4>2 DEF TimersFit
    <3> QED BY <3>1, <3>2
  <2> QED BY <2>2, <2>3, <2>4
<1>2. SourcesFit'
  <2>1. CASE SocketOpens
    BY <2>1 DEF SourcesFit, NeverWithoutASource
  <2>2. CASE SocketSubscribes
    BY <2>2 DEF SourcesFit, NeverWithoutASource
  <2>3. CASE Ends
    <3>1. timers'.set > 0
      BY <2>3 DEF StartPolling, TimersFit
    <3> QED BY <2>3, <3>1, Parameters DEF SourcesFit, NeverWithoutASource
  <2>4. CASE SocketReconnects
    <3>0. SourcesFit /\ reconnects /\ ~stopped /\ UNCHANGED <<chain, wire, timers, poll, blocks, reorged, stopped>>
      BY <2>4 DEF SourcesFit
    <3>1. CASE flaps < MaxFlaps /\ flaps' = flaps + 1 /\ UNCHANGED <<socket, reconnects>>
      <4>1. flaps + 1 \in 0..MaxFlaps
        BY <3>0, <3>1, Parameters DEF SourcesFit
      <4> QED BY ONLY <3>0, <3>1, <4>1 DEF SourcesFit, NeverWithoutASource
    <3>2. CASE socket' = [is |-> "opening", subscribed |-> FALSE] /\ reconnects' = FALSE /\ UNCHANGED flaps
      BY ONLY <3>0, <3>2 DEF SourcesFit, NeverWithoutASource
    <3> QED BY <2>4, <3>1, <3>2
  <2>5. CASE Stops
    BY <2>5 DEF SourcesFit, NeverWithoutASource
  <2> QED BY <2>1, <2>2, <2>3, <2>4, <2>5
<1>3. WireFits'
  BY WireStands, WireEmpty
<1>4. PollFits' /\ KnownFits(Known') /\ UNCHANGED chain
  BY PollStands, KnownStands
<1> QED BY <1>1, <1>2, <1>3, <1>4, PartsMake

(* What is told of the heads of Monad is true at every moment: a reorg is told of
   a height that another block really took, a block is never said to be further
   than it or the one it was taken for is, and until the service stops a socket
   or a poll is at work, whatever order pushes and polls are taken in (apply,
   consensus.service.ts:547). *)
THEOREM HeadsStayTrue ==
  ASSUME HeadsAssumption
  PROVE  HeadsSpec => []HeadsAreTrue
<1>1. HeadsInit => HeadsInv
  BY HeadsStart
<1>2. HeadsInv /\ [HeadsNext]_headVars => HeadsInv'
  <2> SUFFICES ASSUME HeadsInv, [HeadsNext]_headVars PROVE HeadsInv'
    OBVIOUS
  <2>1. CASE HeadsNext
    BY <2>1, GrowsFits, ReplacesFits, AdvancesFits, TicksFit, AppliesPollFits, ReadsTagFits,
       TakesPushFits,
       SocketFits DEF HeadsNext
  <2>2. CASE UNCHANGED headVars
    <3>1. TimersFit' /\ SourcesFit'
      BY <2>2, PartsOf DEF headVars, TimersFit, SourcesFit, NeverWithoutASource
    <3> QED BY <2>2, <3>1, PartsOf, WireStands, PollStands, KnownStands, PartsMake DEF headVars
  <2> QED BY <2>1, <2>2
<1>3. HeadsInv => HeadsAreTrue
  BY HeadsSaid
<1> QED BY <1>1, <1>2, <1>3, PTL DEF HeadsSpec
================================================================================
