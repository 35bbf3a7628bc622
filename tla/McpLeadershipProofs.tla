------------------------- MODULE McpLeadershipProofs -------------------------
(***************************************************************************)
(* When acquisitions and releases do not overlap (Serial), the lock and     *)
(* record protocol of src/src/mcp-leadership.ts elects at most one leader,  *)
(* for any set of processes and any crashes.                                *)
(***************************************************************************)
EXTENDS McpLeadership, TLAPS

(* Steps after which the process no longer tolerates a leader besides it. *)
Overwriting == {"unlinkLock", "unlinkRecord", "reopen", "truncate", "write"}

OneInside == \A p, q \in Contender : Busy(p) /\ Busy(q) => p = q

ProbeIsFresh == \A p \in Contender : pc[p] = "probe" => seen[p] = record

OverwritesNobody ==
    \A p, q \in Contender : pc[p] \in Overwriting \cup Releasing => ~Leading(q)

LockFollowsContender ==
    \A p \in Contender :
        /\ pc[p] \in {"unlinkRecord", "reopen"} => ~lock
        /\ pc[p] \in {"truncate", "write"} => lock

(* Whoever the record names is leading, about to withdraw it, or gone. *)
RecordNamesOwner ==
    record \in Contender => pc[record] \in {"leader", "unlinkOwnRecord", "dead"}

(* The inductive invariant: AtMostOneLeader alone says nothing about the     *)
(* contender that is about to overwrite the record.                          *)
ElectionInv ==
    /\ ElectionTypeOK
    /\ OneInside
    /\ ProbeIsFresh
    /\ OverwritesNobody
    /\ LockFollowsContender
    /\ RecordNamesOwner
    /\ LeaderHoldsFiles
    /\ AcquireNeverThrows
-----------------------------------------------------------------------------
USE DEF Acquiring, Releasing, Gone

(* The four variables keep their types: the lock is a flag, the record names *)
(* a process or nobody, and every process is at one of the known steps.      *)
THEOREM TypeCorrect == ElectionSpec => []ElectionTypeOK
<1>1. ElectionInit => ElectionTypeOK
  BY DEF ElectionInit, ElectionTypeOK, Modes
<1>2. ElectionTypeOK /\ [ElectionNext]_electionVars => ElectionTypeOK'
  <2> SUFFICES ASSUME ElectionTypeOK, [ElectionNext]_electionVars PROVE ElectionTypeOK'
    OBVIOUS
  <2>1. CASE UNCHANGED electionVars
    BY <2>1 DEF ElectionTypeOK, electionVars
  <2>2. ASSUME NEW p \in Contender,
               OpenLock(p) \/ ReadRecord(p) \/ ProbeHolder(p) \/ UnlinkStaleLock(p)
        PROVE  ElectionTypeOK'
    BY <2>2 DEF ElectionTypeOK, Modes, OpenLock, ReadRecord, ProbeHolder, UnlinkStaleLock, Goto
  <2>3. ASSUME NEW p \in Contender,
               UnlinkStaleRecord(p) \/ ReopenLock(p) \/ TruncateRecord(p) \/ WriteRecord(p)
        PROVE  ElectionTypeOK'
    BY <2>3 DEF ElectionTypeOK, Modes, UnlinkStaleRecord, ReopenLock, TruncateRecord, WriteRecord, Goto
  <2>4. ASSUME NEW p \in Contender,
               Release(p) \/ UnlinkOwnRecord(p) \/ UnlinkOwnLock(p) \/ Die(p)
        PROVE  ElectionTypeOK'
    BY <2>4 DEF ElectionTypeOK, Modes, Release, UnlinkOwnRecord, UnlinkOwnLock, Die, Goto
  <2>5. QED
    BY <2>1, <2>2, <2>3, <2>4 DEF ElectionNext
<1>3. QED
  BY <1>1, <1>2, PTL DEF ElectionSpec

LEMMA ElectionInvInit == ElectionInit => ElectionInv
BY LeadershipAssumption DEF ElectionInit, ElectionInv, ElectionTypeOK, Modes, OneInside, Busy, ProbeIsFresh, OverwritesNobody,
       Overwriting, LockFollowsContender, RecordNamesOwner, LeaderHoldsFiles, Leading, AcquireNeverThrows

(* Each step of a process preserves the invariant.  Exclusivity of the       *)
(* critical sections is used where a step reads what another could change.   *)
LEMMA ElectionStep ==
  ASSUME Serial = TRUE, ElectionInv, [ElectionNext]_electionVars, ElectionTypeOK'
  PROVE  ElectionInv'
<1> USE LeadershipAssumption DEF ElectionInv, ElectionTypeOK, OneInside, Busy, ProbeIsFresh, OverwritesNobody, Overwriting,
            LockFollowsContender, RecordNamesOwner, LeaderHoldsFiles, Leading, AcquireNeverThrows, Goto
<1>1. CASE UNCHANGED electionVars
  BY <1>1 DEF electionVars
<1>2. ASSUME NEW p \in Contender, OpenLock(p) PROVE ElectionInv'
  BY <1>2 DEF OpenLock, MayEnter
<1>3. ASSUME NEW p \in Contender, ReadRecord(p) PROVE ElectionInv'
  BY <1>3 DEF ReadRecord
<1>4. ASSUME NEW p \in Contender, ProbeHolder(p) PROVE ElectionInv'
  <2>1. CASE ProcessAlive(seen[p])
    BY <1>4, <2>1 DEF ProbeHolder
  <2>2. CASE ~ProcessAlive(seen[p])
    <3>1. \A q \in Contender : ~Leading(q)
      BY <1>4, <2>2 DEF ProbeHolder, ProcessAlive
    <3>2. QED
      BY <1>4, <2>2, <3>1 DEF ProbeHolder
  <2>3. QED
    BY <2>1, <2>2
<1>5. ASSUME NEW p \in Contender, UnlinkStaleLock(p) PROVE ElectionInv'
  BY <1>5 DEF UnlinkStaleLock
<1>6. ASSUME NEW p \in Contender, UnlinkStaleRecord(p) PROVE ElectionInv'
  BY <1>6 DEF UnlinkStaleRecord
<1>7. ASSUME NEW p \in Contender, ReopenLock(p) PROVE ElectionInv'
  BY <1>7 DEF ReopenLock
<1>8. ASSUME NEW p \in Contender, TruncateRecord(p) PROVE ElectionInv'
  BY <1>8 DEF TruncateRecord
<1>9. ASSUME NEW p \in Contender, WriteRecord(p) PROVE ElectionInv'
  BY <1>9 DEF WriteRecord
<1>10. ASSUME NEW p \in Contender, Release(p) PROVE ElectionInv'
  BY <1>10 DEF Release, MayEnter
<1>11. ASSUME NEW p \in Contender, UnlinkOwnRecord(p) PROVE ElectionInv'
  BY <1>11 DEF UnlinkOwnRecord
<1>12. ASSUME NEW p \in Contender, UnlinkOwnLock(p) PROVE ElectionInv'
  BY <1>12 DEF UnlinkOwnLock
<1>13. ASSUME NEW p \in Contender, Die(p) PROVE ElectionInv'
  BY <1>13 DEF Die
<1>14. QED
  BY <1>1, <1>2, <1>3, <1>4, <1>5, <1>6, <1>7, <1>8, <1>9, <1>10, <1>11, <1>12, <1>13 DEF ElectionNext

(* Without overlapping acquisitions or releases the invariant always holds,  *)
(* so the lock file and the record on disk are those of the live leader.     *)
THEOREM ElectionCorrect ==
  ASSUME Serial = TRUE
  PROVE  ElectionSpec => []ElectionInv
<1>1. ElectionInv /\ [ElectionNext]_electionVars /\ ElectionTypeOK' => ElectionInv'
  BY ElectionStep
<1>2. QED
  BY <1>1, ElectionInvInit, TypeCorrect, PTL DEF ElectionSpec

(* At most one process runs the automation, for every number of processes:   *)
(* two leaders would both be the process the record names.                   *)
THEOREM OneLeader ==
  ASSUME Serial = TRUE
  PROVE  ElectionSpec => []AtMostOneLeader
<1>1. ElectionInv => AtMostOneLeader
  BY DEF ElectionInv, LeaderHoldsFiles, AtMostOneLeader
<1>2. QED
  BY <1>1, ElectionCorrect, PTL

(* The files on disk describe the leader and the unguarded second openSync   *)
(* never throws.                                                             *)
THEOREM LeaderIsRecorded ==
  ASSUME Serial = TRUE
  PROVE  ElectionSpec => [](LeaderHoldsFiles /\ AcquireNeverThrows)
<1>1. ElectionInv => LeaderHoldsFiles /\ AcquireNeverThrows
  BY DEF ElectionInv
<1>2. QED
  BY <1>1, ElectionCorrect, PTL

(* A process settles for follower only while somebody leads, whatever        *)
(* crashes happened before.                                                  *)
THEOREM FollowersAreLed ==
  ASSUME Serial = TRUE
  PROVE  ElectionSpec => FollowerHasLeader
<1>1. ASSUME ElectionInv, NEW p \in Contender, ProbeHolder(p), SettlesForFollower(p)
      PROVE  \E q \in Contender : Leading(q)
  <2>1. seen[p] = record /\ ProcessAlive(record)
    BY <1>1 DEF ProbeHolder, SettlesForFollower, Goto, ElectionInv, ElectionTypeOK, ProbeIsFresh
  <2>2. pc[record] # "unlinkOwnRecord"
    BY <1>1, <2>1 DEF SettlesForFollower, ElectionInv, OneInside, Busy, ProcessAlive
  <2>3. QED
    BY <1>1, <2>1, <2>2 DEF ElectionInv, RecordNamesOwner, ProcessAlive, Leading
<1>2. ASSUME ElectionInv, ElectionNext, NEW p \in Contender, SettlesForFollower(p)
      PROVE  ProbeHolder(p)
  BY <1>2 DEF ElectionNext, SettlesForFollower, ElectionInv, ElectionTypeOK, Goto, OpenLock, ReadRecord,
              ProbeHolder, UnlinkStaleLock, UnlinkStaleRecord, ReopenLock, TruncateRecord,
              WriteRecord, Release, UnlinkOwnRecord, UnlinkOwnLock, Die
<1>3. ElectionInv /\ [ElectionNext]_electionVars
        => [\A p \in Contender : SettlesForFollower(p) => \E q \in Contender : Leading(q)]_electionVars
  BY <1>1, <1>2
<1>4. QED
  BY <1>3, ElectionCorrect, PTL DEF ElectionSpec, FollowerHasLeader

(* A process that completed an acquisition and is still alive. *)
Owner == Releasing \cup {"leader", "released"}

(* Whatever the overlap of acquisitions, a follower defers to another process *)
(* that is alive and did complete an acquisition, never to itself, to a dead  *)
(* one or to one that is still contending.                                    *)
FollowerDefersToOwner ==
    [][\A p \in Contender : SettlesForFollower(p) =>
          \E q \in Contender \ {p} : pc[q] \in Owner]_electionVars

(* Only completed acquisitions are ever recorded, or read from the record. *)
OnlyOwnersNamed ==
    /\ record \in Contender => pc[record] \in Owner \cup {"dead"}
    /\ \A p \in Contender : seen[p] \in Contender => pc[seen[p]] \in Owner \cup {"dead"}

(* FollowerDefersToOwner holds without any assumption on Serial: overlapping  *)
(* acquisitions can make two leaders, but no follower is ever left behind a   *)
(* process that does not lead or did not lead.                                *)
THEOREM FollowersDefer == ElectionSpec => FollowerDefersToOwner
<1>1. ElectionInit => OnlyOwnersNamed
  BY LeadershipAssumption DEF ElectionInit, OnlyOwnersNamed
<1>2. ElectionTypeOK /\ OnlyOwnersNamed /\ [ElectionNext]_electionVars => OnlyOwnersNamed'
  <2> SUFFICES ASSUME ElectionTypeOK, OnlyOwnersNamed, [ElectionNext]_electionVars PROVE OnlyOwnersNamed'
    OBVIOUS
  <2> USE DEF ElectionTypeOK, OnlyOwnersNamed, Owner, Goto
  <2>1. CASE UNCHANGED electionVars
    BY <2>1 DEF electionVars
  <2>2. ASSUME NEW p \in Contender, OpenLock(p) \/ ReadRecord(p) \/ ProbeHolder(p)
        PROVE  OnlyOwnersNamed'
    BY <2>2 DEF OpenLock, ReadRecord, ProbeHolder
  <2>3. ASSUME NEW p \in Contender,
               UnlinkStaleLock(p) \/ UnlinkStaleRecord(p) \/ ReopenLock(p) \/ TruncateRecord(p)
        PROVE  OnlyOwnersNamed'
    BY <2>3, LeadershipAssumption
       DEF UnlinkStaleLock, UnlinkStaleRecord, ReopenLock, TruncateRecord
  <2>4. ASSUME NEW p \in Contender, WriteRecord(p)
        PROVE  OnlyOwnersNamed'
    BY <2>4 DEF WriteRecord
  <2>5. ASSUME NEW p \in Contender, Release(p) \/ UnlinkOwnRecord(p) \/ UnlinkOwnLock(p) \/ Die(p)
        PROVE  OnlyOwnersNamed'
    BY <2>5, LeadershipAssumption DEF Release, UnlinkOwnRecord, UnlinkOwnLock, Die
  <2>6. QED
    BY <2>1, <2>2, <2>3, <2>4, <2>5 DEF ElectionNext
<1>3. ElectionTypeOK /\ OnlyOwnersNamed /\ [ElectionNext]_electionVars =>
        [\A p \in Contender : SettlesForFollower(p) =>
            \E q \in Contender \ {p} : pc[q] \in Owner]_electionVars
  <2> SUFFICES ASSUME ElectionTypeOK, OnlyOwnersNamed, [ElectionNext]_electionVars,
                      NEW p \in Contender, SettlesForFollower(p)
               PROVE  \E q \in Contender \ {p} : pc[q] \in Owner
    BY DEF electionVars, SettlesForFollower
  <2>1. PICK r \in Contender : pc'[r] # pc[r] /\ ProbeHolder(r)
    BY DEF ElectionNext, ElectionTypeOK, SettlesForFollower, electionVars, Goto, OpenLock, ReadRecord, ProbeHolder,
           UnlinkStaleLock, UnlinkStaleRecord, ReopenLock, TruncateRecord, WriteRecord,
           Release, UnlinkOwnRecord, UnlinkOwnLock, Die
  <2>2. r = p
    BY <2>1 DEF ElectionTypeOK, SettlesForFollower, ProbeHolder, Goto
  <2>3. ProcessAlive(seen[p])
    BY <2>1, <2>2 DEF ElectionTypeOK, SettlesForFollower, ProbeHolder, Goto
  <2>4. seen[p] \in Contender \ {p} /\ pc[seen[p]] \in Owner
    BY <2>3 DEF ProcessAlive, OnlyOwnersNamed, Owner, SettlesForFollower
  <2>5. QED
    BY <2>4
<1>4. QED
  BY <1>1, <1>2, <1>3, TypeCorrect, PTL DEF ElectionSpec, FollowerDefersToOwner
=============================================================================
