---------------------------- MODULE McpLeadership ----------------------------
(***************************************************************************)
(* Election of the automation leader of one project session, as done by    *)
(* acquireMcpSessionLeadership (src/src/mcp-leadership.ts): a lock file     *)
(* created with O_EXCL, a JSON record naming the holder's pid, reclamation  *)
(* of both when the recorded process is gone, and release() at shutdown.    *)
(*                                                                          *)
(* Every file-system call is one step, because the contenders are separate  *)
(* operating-system processes.  A process identifier is never reused: a     *)
(* restarted process is a new element of Contender.                         *)
(***************************************************************************)
EXTENDS Naturals, FiniteSets

CONSTANTS
    Server,    \* processes running "ciclo mcp": a leader starts the heartbeat
    Command,   \* one-shot CLI processes that build the same runtime context
    NoProcess, \* content of a record that is missing or does not parse
    Serial     \* TRUE: acquisitions and releases never overlap

Contender == Server \cup Command

ASSUME LeadershipAssumption ==
    /\ Serial \in BOOLEAN
    /\ NoProcess \notin Contender

VARIABLES
    lock,      \* does the .lock file exist
    record,    \* the process named by the .json record, NoProcess if unreadable
    pc,        \* what each process does next
    seen       \* the holder a contender read from the record

electionVars == <<lock, record, pc, seen>>

Acquiring == {"read", "probe", "unlinkLock", "unlinkRecord", "reopen", "truncate", "write"}
Releasing == {"unlinkOwnRecord", "unlinkOwnLock"}
Gone == {"idle", "failed", "dead"}
Modes == Acquiring \cup Releasing \cup Gone \cup {"leader", "follower", "released"}

(* process.kill(pid, 0): no record means "not alive". *)
ProcessAlive(p) == p \in Contender /\ pc[p] \notin Gone

Leading(p) == pc[p] = "leader"
Busy(p) == pc[p] \in Acquiring \cup Releasing

(* The serial instance lets a process touch the files only between the      *)
(* critical sections of the others.                                         *)
MayEnter(p) == Serial => \A q \in Contender : ~Busy(q)

ElectionTypeOK ==
    /\ lock \in BOOLEAN
    /\ record \in Contender \cup {NoProcess}
    /\ pc \in [Contender -> Modes]
    /\ seen \in [Contender -> Contender \cup {NoProcess}]

ElectionInit ==
    /\ lock = FALSE
    /\ record = NoProcess
    /\ pc = [p \in Contender |-> "idle"]
    /\ seen = [p \in Contender |-> NoProcess]

Goto(p, label) == pc' = [pc EXCEPT ![p] = label]
-----------------------------------------------------------------------------
(* openSync(lock, "wx"): the first attempt. *)
OpenLock(p) ==
    /\ pc[p] = "idle"
    /\ MayEnter(p)
    /\ lock' = TRUE
    /\ Goto(p, IF lock THEN "read" ELSE "truncate")
    /\ UNCHANGED <<record, seen>>

ReadRecord(p) ==
    /\ pc[p] = "read"
    /\ seen' = [seen EXCEPT ![p] = record]
    /\ Goto(p, "probe")
    /\ UNCHANGED <<lock, record>>

(* The operators named Bug... are the action after them with a defect, used   *)
(* only to show that the properties notice it.                               *)
BugReclaimAlways(p) ==
    /\ pc[p] = "probe"
    /\ Goto(p, "unlinkLock")
    /\ UNCHANGED <<lock, record, seen>>

BugTrustRecord(p) ==
    /\ pc[p] = "probe"
    /\ Goto(p, IF seen[p] # NoProcess THEN "follower" ELSE "unlinkLock")
    /\ UNCHANGED <<lock, record, seen>>

(* The recorded process answers: settle for follower.  Otherwise reclaim. *)
ProbeHolder(p) ==
    /\ pc[p] = "probe"
    /\ Goto(p, IF ProcessAlive(seen[p]) THEN "follower" ELSE "unlinkLock")
    /\ UNCHANGED <<lock, record, seen>>

UnlinkStaleLock(p) ==
    /\ pc[p] = "unlinkLock"
    /\ lock' = FALSE
    /\ Goto(p, "unlinkRecord")
    /\ UNCHANGED <<record, seen>>

UnlinkStaleRecord(p) ==
    /\ pc[p] = "unlinkRecord"
    /\ record' = NoProcess
    /\ Goto(p, "reopen")
    /\ UNCHANGED <<lock, seen>>

BugNoSecondLock(p) ==
    /\ pc[p] = "reopen"
    /\ Goto(p, "truncate")
    /\ UNCHANGED <<lock, record, seen>>

(* The second openSync is not guarded: if somebody created the lock in the  *)
(* meantime the exception ends the process.                                 *)
ReopenLock(p) ==
    /\ pc[p] = "reopen"
    /\ lock' = TRUE
    /\ Goto(p, IF lock THEN "failed" ELSE "truncate")
    /\ UNCHANGED <<record, seen>>

(* writeFileSync truncates the record first; an empty file does not parse. *)
TruncateRecord(p) ==
    /\ pc[p] = "truncate"
    /\ record' = NoProcess
    /\ Goto(p, "write")
    /\ UNCHANGED <<lock, seen>>

WriteRecord(p) ==
    /\ pc[p] = "write"
    /\ record' = p
    /\ Goto(p, "leader")
    /\ UNCHANGED <<lock, seen>>

(* release(): only the owner named by the record removes the two files. *)
Release(p) ==
    /\ pc[p] = "leader"
    /\ p \in Server
    /\ MayEnter(p)
    /\ Goto(p, IF record = p THEN "unlinkOwnRecord" ELSE "released")
    /\ UNCHANGED <<lock, record, seen>>

UnlinkOwnRecord(p) ==
    /\ pc[p] = "unlinkOwnRecord"
    /\ record' = NoProcess
    /\ Goto(p, "unlinkOwnLock")
    /\ UNCHANGED <<lock, seen>>

UnlinkOwnLock(p) ==
    /\ pc[p] = "unlinkOwnLock"
    /\ lock' = FALSE
    /\ Goto(p, "released")
    /\ UNCHANGED <<record, seen>>

(* A process exits or is killed at any point, leaving its files behind.  A   *)
(* CLI command always ends this way: no caller of it invokes release().      *)
Die(p) ==
    /\ pc[p] \notin Gone
    /\ Goto(p, "dead")
    /\ UNCHANGED <<lock, record, seen>>

ElectionNext == \E p \in Contender :
    \/ OpenLock(p) \/ ReadRecord(p) \/ ProbeHolder(p)
    \/ UnlinkStaleLock(p) \/ UnlinkStaleRecord(p) \/ ReopenLock(p)
    \/ TruncateRecord(p) \/ WriteRecord(p)
    \/ Release(p) \/ UnlinkOwnRecord(p) \/ UnlinkOwnLock(p)
    \/ Die(p)

ElectionSpec == ElectionInit /\ [][ElectionNext]_electionVars
-----------------------------------------------------------------------------
(* Never two automation leaders: "Ciclo elects one project/session MCP       *)
(* process as the automation leader" (README.md).  Two leaders would run two *)
(* heartbeats over the same worker sessions and the same Beads queue.        *)
AtMostOneLeader ==
    \A p, q \in Contender : Leading(p) /\ Leading(q) => p = q

(* The files on disk always describe the live leader, so that every later    *)
(* contender finds it: the heart of the election.                            *)
LeaderHoldsFiles ==
    \A p \in Contender : Leading(p) => lock /\ record = p

SettlesForFollower(p) == pc[p] = "probe" /\ pc'[p] = "follower"

(* A process that settles for follower leaves somebody leading: otherwise    *)
(* nobody runs the heartbeat, because a follower never tries again.          *)
FollowerHasLeader ==
    [][\A p \in Contender : SettlesForFollower(p) => \E q \in Contender : Leading(q)]_electionVars

(* The second openSync of acquireMcpSessionLeadership has no handler: when   *)
(* acquisitions do not overlap it never throws, however processes crash.     *)
AcquireNeverThrows == \A p \in Contender : pc[p] # "failed"
=============================================================================
