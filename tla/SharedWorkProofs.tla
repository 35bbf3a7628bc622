---------------------------- MODULE SharedWorkProofs ----------------------------
(***************************************************************************)
(* Proofs about the beads that several clients work on: the claims that      *)
(* machines share through a Dolt remote or server, and the tools of one      *)
(* server, whose calls may overlap, fail and be repeated.                    *)
(***************************************************************************)
EXTENDS BeadsRemote, BeadsTools, TLAPS

(* Shared claims. *)
Ownership == [Task -> Machine \cup {NoMachine}]
Progress == [pc : {"idle", "selected", "rechecked", "claimed"}, task : Task \cup {"none"}]
WithRemote == CoordinationMode = "dolt_remote_sync"

RemoteTypeOK ==
    /\ central \in Ownership
    /\ local \in [Machine -> Ownership] /\ base \in [Machine -> Ownership]
    /\ work \in [Machine -> Progress]
    /\ \A n \in Machine : work[n].pc # "idle" => work[n].task \in Task
    /\ result \in [Machine -> SUBSET Task]

(* A machine never unmakes an ownership it pulled or pushed; the task it has   *)
(* just claimed is its own in the database it works on; and what it was told   *)
(* it owns, it owns in the shared one.                                         *)
NothingUnmade(n) == \A t \in Task : base[n][t] # NoMachine => local[n][t] = base[n][t]
OwnsClaimed(n) == work[n].pc = "claimed" => Database(n)[work[n].task] = n
SharingInv ==
    /\ RemoteTypeOK
    /\ \A n \in Machine : NothingUnmade(n) /\ OwnsClaimed(n)
    /\ \A n \in Machine : \A t \in result[n] : central[t] = n

LEMMA SharingInit == RemoteInit => SharingInv
<1> SUFFICES ASSUME RemoteInit PROVE SharingInv
  OBVIOUS
<1>1. Unowned \in Ownership /\ Resting \in Progress /\ Resting.pc = "idle"
  BY DEF Unowned, Ownership, Resting, Progress
<1>2. RemoteTypeOK
  BY <1>1 DEF RemoteInit, RemoteTypeOK
<1>3. QED
  BY <1>1, <1>2 DEF SharingInv, RemoteInit, NothingUnmade, OwnsClaimed, Unowned

LEMMA ProgressKeeps ==
  ASSUME RemoteTypeOK, NEW n \in Machine, NEW pc \in {"selected", "rechecked", "claimed"},
         NEW t \in Task, At(n, pc, t) \/ GivesUp(n)
  PROVE  /\ work' \in [Machine -> Progress]
         /\ \A m \in Machine : work'[m].pc # "idle" => work'[m].task \in Task
         /\ \A m \in Machine \ {n} : work'[m] = work[m]
         /\ work'[n].pc \in {"idle", pc}
         /\ work'[n].pc # "idle" => work'[n].task = t
<1>1. [pc |-> pc, task |-> t] \in Progress /\ Resting \in Progress /\ Resting.pc = "idle"
  BY DEF Progress, Resting
<1>2. PICK p \in Progress : /\ work' = [work EXCEPT ![n] = p]
                            /\ p.pc \in {"idle", pc} /\ (p.pc # "idle" => p.task = t)
  BY <1>1 DEF At, GivesUp
<1>3. QED
  BY <1>2 DEF RemoteTypeOK

(* Steps that leave the databases and the results alone. *)
LEMMA ProgressInv ==
  ASSUME SharingInv, RemoteTypeOK', UNCHANGED <<cfg, central, local, base, result>>,
         \A n \in Machine : work'[n] = work[n] \/ work'[n].pc # "claimed"
  PROVE  SharingInv'
BY DEF SharingInv, NothingUnmade, OwnsClaimed, Database, CoordinationMode, On

LEMMA ReadyStep ==
  ASSUME SharingInv, NEW n \in Machine, NEW problems, Ready(n, problems)
  PROVE  SharingInv'
<1>1. /\ RemoteTypeOK /\ NothingUnmade(n)
      /\ UNCHANGED <<cfg, central, reach, result>>
  BY DEF SharingInv, Ready
<1>2. /\ work' \in [Machine -> Progress]
      /\ \A m \in Machine : work'[m].pc # "idle" => work'[m].task \in Task
      /\ \A m \in Machine \ {n} : work'[m] = work[m]
      /\ work'[n].pc # "claimed"
  <2>1. GivesUp(n) \/ \E t \in Task : At(n, "selected", t)
    BY DEF Ready
  <2>2. CASE GivesUp(n)
    <3>1. Resting \in Progress /\ Resting.pc = "idle" /\ work' = [work EXCEPT ![n] = Resting]
      BY <2>2 DEF Progress, Resting, GivesUp
    <3>2. QED
      BY <1>1, <3>1 DEF RemoteTypeOK
  <2>3. CASE \E t \in Task : At(n, "selected", t)
    BY <1>1, <2>3, ProgressKeeps
  <2>4. QED
    BY <2>1, <2>2, <2>3
<1>3. CASE UNCHANGED <<local, base>>
  <2>1. RemoteTypeOK'
    BY <1>1, <1>2, <1>3 DEF RemoteTypeOK
  <2>2. QED
    BY <1>1, <1>2, <1>3, <2>1, ProgressInv
<1>4. CASE /\ Pulls /\ Conflicting(n) = {}
           /\ local' = [local EXCEPT ![n] = [t \in Task |->
                           IF local[n][t] # base[n][t] THEN local[n][t] ELSE central[t]]]
           /\ base' = [base EXCEPT ![n] = central]
  <2>1. RemoteTypeOK'
    BY <1>1, <1>2, <1>4 DEF RemoteTypeOK, Ownership
  <2>2. /\ base'[n] = central
        /\ \A t \in Task : local'[n][t] = IF local[n][t] # base[n][t] THEN local[n][t] ELSE central[t]
        /\ \A m \in Machine \ {n} : local'[m] = local[m] /\ base'[m] = base[m]
    BY <1>1, <1>4 DEF RemoteTypeOK
  <2>3. NothingUnmade(n)'
    BY <1>1, <1>4, <2>2 DEF NothingUnmade, Conflicting
  <2>4. QED
    BY <1>1, <1>2, <2>1, <2>2, <2>3
    DEF SharingInv, NothingUnmade, OwnsClaimed, Database, CoordinationMode, On
<1>5. QED
  BY <1>3, <1>4 DEF Ready

LEMMA RecheckStep ==
  ASSUME SharingInv, NEW n \in Machine, Recheck(n)
  PROVE  SharingInv'
<1>1. RemoteTypeOK /\ work[n].task \in Task /\ UNCHANGED <<cfg, central, local, base, reach, result>>
  BY DEF SharingInv, RemoteTypeOK, Recheck
<1>2. GivesUp(n) \/ At(n, "rechecked", work[n].task)
  BY DEF Recheck
<1>3. /\ work' \in [Machine -> Progress]
      /\ \A m \in Machine : work'[m].pc # "idle" => work'[m].task \in Task
      /\ \A m \in Machine \ {n} : work'[m] = work[m]
      /\ work'[n].pc # "claimed"
  BY <1>1, <1>2, ProgressKeeps
<1>4. RemoteTypeOK'
  BY <1>1, <1>3 DEF RemoteTypeOK
<1>5. QED
  BY <1>1, <1>3, <1>4, ProgressInv

(* bd gives an unowned task to the machine, in the database of all or in its   *)
(* own, where nobody's ownership is known.                                     *)
LEMMA ClaimStep ==
  ASSUME SharingInv, NEW n \in Machine, Claim(n)
  PROVE  SharingInv'
<1>1. PICK t \in Task : t = work[n].task
  BY DEF SharingInv, RemoteTypeOK, Claim
<1>2. /\ RemoteTypeOK /\ UNCHANGED <<cfg, base, reach, result>>
      /\ WithRemote' = WithRemote
  BY DEF SharingInv, Claim, WithRemote, CoordinationMode, On
<1>3. GivesUp(n) \/ At(n, "claimed", t)
  BY <1>1 DEF Claim
<1>4. /\ work' \in [Machine -> Progress]
      /\ \A m \in Machine : work'[m].pc # "idle" => work'[m].task \in Task
      /\ \A m \in Machine \ {n} : work'[m] = work[m]
      /\ work'[n].pc # "idle" => work'[n].task = t
  BY <1>2, <1>3, ProgressKeeps
<1>5. CASE Database(n)[t] # NoMachine
  <2>1. GivesUp(n) /\ UNCHANGED <<central, local>>
    BY <1>1, <1>5 DEF Claim
  <2>2. work'[n].pc = "idle"
    BY <1>2, <2>1 DEF GivesUp, Resting, RemoteTypeOK
  <2>3. RemoteTypeOK'
    BY <1>2, <1>4, <2>1 DEF RemoteTypeOK
  <2>4. QED
    BY <1>2, <1>4, <2>1, <2>2, <2>3, ProgressInv
<1>6. CASE Database(n)[t] = NoMachine /\ WithRemote
  <2>1. local' = [local EXCEPT ![n][t] = n] /\ UNCHANGED central
    BY <1>1, <1>6 DEF Claim, SetOwner, WithRemote
  <2>2. /\ local' \in [Machine -> Ownership] /\ local'[n][t] = n
        /\ \A u \in Task \ {t} : local'[n][u] = local[n][u]
        /\ \A m \in Machine \ {n} : local'[m] = local[m]
    BY <1>2, <2>1 DEF RemoteTypeOK, Ownership
  <2>3. base[n][t] = NoMachine
    BY <1>6 DEF SharingInv, NothingUnmade, Database, WithRemote
  <2>4. RemoteTypeOK'
    BY <1>2, <1>4, <2>1, <2>2 DEF RemoteTypeOK
  <2>5. QED
    BY <1>2, <1>4, <1>6, <2>1, <2>2, <2>3, <2>4
    DEF SharingInv, NothingUnmade, OwnsClaimed, Database, WithRemote
<1>7. CASE Database(n)[t] = NoMachine /\ ~WithRemote
  <2>1. central' = [central EXCEPT ![t] = n] /\ UNCHANGED local
    BY <1>1, <1>7 DEF Claim, SetOwner, WithRemote
  <2>2. /\ central' \in Ownership /\ central'[t] = n
        /\ \A u \in Task \ {t} : central'[u] = central[u]
    BY <1>2, <2>1 DEF RemoteTypeOK, Ownership
  <2>3. central[t] = NoMachine
    BY <1>7 DEF Database, WithRemote
  <2>4. RemoteTypeOK'
    BY <1>2, <1>4, <2>1, <2>2 DEF RemoteTypeOK
  <2>5. QED
    BY <1>2, <1>4, <1>7, <2>1, <2>2, <2>3, <2>4, RemoteAssumption
    DEF SharingInv, NothingUnmade, OwnsClaimed, Database, WithRemote, RemoteTypeOK
<1>8. QED
  BY <1>5, <1>6, <1>7

(* A push on top of what the machine pulled keeps every owner others know.     *)
LEMMA PushedKeeps ==
  ASSUME SharingInv, NEW n \in Machine, PushAccepted(n),
         central' = local[n], base' = [base EXCEPT ![n] = local[n]], local' = local
  PROVE  /\ central' \in Ownership /\ base' \in [Machine -> Ownership]
         /\ \A m \in Machine : NothingUnmade(m)'
         /\ \A m \in Machine : \A t \in result[m] : central'[t] = m
<1>1. RemoteTypeOK
  BY DEF SharingInv
<1>2. central' \in Ownership /\ base' \in [Machine -> Ownership]
  BY <1>1 DEF RemoteTypeOK
<1>3. base'[n] = local[n] /\ \A m \in Machine \ {n} : base'[m] = base[m]
  BY <1>1 DEF RemoteTypeOK
<1>4. \A m \in Machine : NothingUnmade(m)'
  BY <1>3 DEF SharingInv, NothingUnmade
<1>5. \A m \in Machine : \A t \in result[m] : central'[t] = m
  BY RemoteAssumption DEF SharingInv, RemoteTypeOK, NothingUnmade, PushAccepted
<1>6. QED
  BY <1>2, <1>4, <1>5

LEMMA PushStep ==
  ASSUME SharingInv, NEW n \in Machine, NEW answered \in BOOLEAN, Push(n, answered)
  PROVE  SharingInv'
<1>1. /\ RemoteTypeOK /\ UNCHANGED <<cfg, local, reach>> /\ WithRemote' = WithRemote
      /\ work[n].pc = "claimed" /\ work[n].task \in Task
  BY DEF SharingInv, RemoteTypeOK, Push, WithRemote, CoordinationMode, On
<1>2. /\ work' \in [Machine -> Progress]
      /\ \A m \in Machine : work'[m].pc # "idle" => work'[m].task \in Task
      /\ \A m \in Machine \ {n} : work'[m] = work[m]
      /\ work'[n].pc = "idle"
  <2>1. Resting \in Progress /\ Resting.pc = "idle" /\ work' = [work EXCEPT ![n] = Resting]
    BY DEF Progress, Resting, GivesUp, Push
  <2>2. QED
    BY <1>1, <2>1 DEF RemoteTypeOK
<1>3. result' \in [Machine -> SUBSET Task]
  BY <1>1 DEF Push, RemoteTypeOK
<1>4. \A m \in Machine : \A t \in result'[m] : t \in result[m] \/ (m = n /\ t = work[n].task)
  BY <1>1 DEF Push, RemoteTypeOK
<1>5. CASE WithRemote
  <2>1. local[n][work[n].task] = n
    BY <1>1, <1>5 DEF SharingInv, OwnsClaimed, Database, WithRemote
  <2>2. CASE PushAccepted(n) /\ central' = local[n] /\ base' = [base EXCEPT ![n] = local[n]]
    <3>1. /\ central' \in Ownership /\ base' \in [Machine -> Ownership]
          /\ \A m \in Machine : NothingUnmade(m)'
          /\ \A m \in Machine : \A t \in result[m] : central'[t] = m
      BY <1>1, <2>2, PushedKeeps
    <3>2. RemoteTypeOK'
      BY <1>1, <1>2, <1>3, <3>1 DEF RemoteTypeOK
    <3>3. \A m \in Machine : OwnsClaimed(m)'
      BY <1>1, <1>2, <1>5 DEF SharingInv, OwnsClaimed, Database, WithRemote
    <3>4. QED
      BY <1>4, <2>1, <2>2, <3>1, <3>2, <3>3 DEF SharingInv
  <2>3. CASE UNCHANGED <<central, base, result>>
    <3>1. RemoteTypeOK'
      BY <1>1, <1>2, <1>3, <2>3 DEF RemoteTypeOK
    <3>2. QED
      BY <1>1, <1>2, <2>3, <3>1, ProgressInv
  <2>4. QED
    BY <1>5, <2>2, <2>3 DEF Push, WithRemote
<1>6. CASE ~WithRemote
  <2>1. UNCHANGED <<central, base>>
    BY <1>6 DEF Push, WithRemote
  <2>2. central[work[n].task] = n
    BY <1>1, <1>6 DEF SharingInv, OwnsClaimed, Database, WithRemote
  <2>3. RemoteTypeOK'
    BY <1>1, <1>2, <1>3, <2>1 DEF RemoteTypeOK
  <2>4. QED
    BY <1>1, <1>2, <1>4, <1>6, <2>1, <2>2, <2>3
    DEF SharingInv, NothingUnmade, OwnsClaimed, Database, WithRemote
<1>7. QED
  BY <1>5, <1>6

LEMMA SharingStep == SharingInv /\ [RemoteNext]_remoteVars => SharingInv'
<1> SUFFICES ASSUME SharingInv, [RemoteNext]_remoteVars PROVE SharingInv'
  OBVIOUS
<1>1. RemoteTypeOK
  BY DEF SharingInv
<1>2. CASE \E n \in Machine : \E problems : Ready(n, problems)
  BY <1>2, ReadyStep
<1>3. ASSUME NEW n \in Machine,
             Recheck(n) \/ Claim(n) \/ \E answered \in BOOLEAN : Push(n, answered)
      PROVE  SharingInv'
  BY <1>3, RecheckStep, ClaimStep, PushStep
<1>4. ASSUME NEW n \in Machine, PushAfterUpdate(n) PROVE SharingInv'
  <2>1. /\ central' \in Ownership /\ base' \in [Machine -> Ownership]
        /\ \A m \in Machine : NothingUnmade(m)'
        /\ \A m \in Machine : \A t \in result[m] : central'[t] = m
    BY <1>4, PushedKeeps DEF PushAfterUpdate
  <2>2. UNCHANGED <<cfg, local, work, result>> /\ CoordinationMode = "dolt_remote_sync"
    BY <1>4 DEF PushAfterUpdate
  <2>3. RemoteTypeOK'
    BY <1>1, <2>1, <2>2 DEF RemoteTypeOK
  <2>4. QED
    BY <2>1, <2>2, <2>3 DEF SharingInv, OwnsClaimed, Database, CoordinationMode, On
<1>5. ASSUME NEW n \in Machine, Restart(n) PROVE SharingInv'
  <2>1. Resting \in Progress /\ Resting.pc = "idle" /\ work' = [work EXCEPT ![n] = Resting]
    BY <1>5 DEF Progress, Resting, GivesUp, Restart
  <2>2. UNCHANGED <<cfg, central, local, base, result>>
    BY <1>5 DEF Restart
  <2>3. RemoteTypeOK'
    BY <1>1, <2>1, <2>2 DEF RemoteTypeOK
  <2>4. \A m \in Machine : work'[m] = work[m] \/ work'[m].pc # "claimed"
    BY <1>1, <2>1 DEF RemoteTypeOK
  <2>5. QED
    BY <2>2, <2>3, <2>4, ProgressInv
<1>6. CASE (\E health : ReachChanges(health)) \/ UNCHANGED remoteVars
  <2>1. UNCHANGED <<cfg, central, local, base, work, result>>
    BY <1>6 DEF ReachChanges, remoteVars
  <2>2. RemoteTypeOK'
    BY <1>1, <2>1 DEF RemoteTypeOK
  <2>3. QED
    BY <2>1, <2>2, ProgressInv
<1>7. QED
  BY <1>2, <1>3, <1>4, <1>5, <1>6 DEF RemoteNext

(* No two machines are told that a bead is theirs, and who is told so is the   *)
(* owner every other machine will see: for any number of machines and beads,   *)
(* with a Dolt remote (pulls, merges, pushes refused or unanswered) or with a  *)
(* shared server, whatever flags are configured (claimAfterRecheck,            *)
(* pushAfterClaim, pushAfterUpdate).                                           *)
THEOREM ClaimsAreShared == RemoteSpec => []SharedClaimExclusive
<1>1. SharingInv => SharedClaimExclusive
  BY DEF SharingInv, SharedClaimExclusive
<1>2. QED
  BY <1>1, SharingInit, SharingStep, PTL DEF RemoteSpec
-----------------------------------------------------------------------------
(* The tools of one server. *)
Entry == [retries : Nat, done : SUBSET Key]
Handled == [call  : ToolRequest,
            await : {"ready", "show", "claim", "note", "close", "push", "record", "targets"},
            read  : [Target -> Entry] \cup {<<>>},
            todo  : SUBSET Target, ok : SUBSET Target]

(* What a call awaits, in the order of its tool. *)
InStage(h) ==
    /\ h.call.tool = "claim" => h.await \in {"ready", "show", "claim", "note", "record"}
    /\ h.call.tool \in {"update", "compact"} => h.await \in {"note", "push", "record"}
    /\ h.call.tool = "close" => h.await \in {"show", "note", "close", "push", "record"}
    /\ h.call.tool = "sync" => h.await = "targets" /\ h.read \in [Target -> Entry]

ToolsTypeOK ==
    /\ bead \in {"open", "in_progress", "closed"} /\ keys \subseteq Key
    /\ tracker \in [Target -> Entry]
    /\ handling \in [Handler -> Handled \cup {Free}]
    /\ \A k \in Busy : InStage(handling[k])
    /\ applied \in [Key -> Nat] /\ troubled \subseteq Key /\ misled \subseteq Key
    /\ closings \in [Key -> Nat] /\ reviews \in [Key -> Nat]
    /\ overtaken \subseteq Key /\ unreviewed \subseteq Key
    /\ synced \in [Target -> [seen : SUBSET Key, again : SUBSET Key]]

(* Calls that overlap, of one tool or under one key, are known as such. *)
RivalsKnown ==
    \A k, l \in Busy :
        k # l /\ (handling[k].call.tool = handling[l].call.tool
                  \/ handling[k].call.key = handling[l].call.key)
          => handling[k].call.key \in troubled

LEMMA CallFacts ==
  /\ \A c \in ToolRequest : /\ c.tool \in {"claim", "update", "compact", "close", "sync"}
                            /\ c.key \in Key /\ c.preview \in BOOLEAN /\ c.force \in BOOLEAN
  /\ Free \notin Handled
BY ToolsAssumption DEF RequestFields, Key, Free, Handled

LEMMA BusyHandled ==
  ASSUME ToolsTypeOK, NEW k \in Handler
  PROVE  k \in Busy <=> handling[k] \in Handled
BY CallFacts DEF ToolsTypeOK, Busy

(* The handler that awaits something else, and the one that has answered.     *)
LEMMA AwaitMoves ==
  ASSUME ToolsTypeOK, NEW k \in Handler, handling[k] \in Handled,
         NEW what \in {"ready", "show", "claim", "note", "close", "push", "record", "targets"},
         Await(k, what)
  PROVE  /\ handling' \in [Handler -> Handled \cup {Free}] /\ handling'[k] \in Handled
         /\ handling'[k].call = handling[k].call /\ handling'[k].await = what
         /\ handling'[k].read = handling[k].read
         /\ \A l \in Handler \ {k} : handling'[l] = handling[l]
<1> DEFINE v == [handling[k] EXCEPT !.await = what]
<1>1. v \in Handled /\ v.call = handling[k].call /\ v.await = what /\ v.read = handling[k].read
  BY DEF Handled
<1>2. handling' = [handling EXCEPT ![k] = v]
  BY DEF Await
<1> HIDE DEF v
<1>3. QED
  BY <1>1, <1>2 DEF ToolsTypeOK

LEMMA AnswerMoves ==
  ASSUME ToolsTypeOK, NEW k \in Handler, Answer(k)
  PROVE  /\ handling' \in [Handler -> Handled \cup {Free}] /\ handling'[k] = Free
         /\ \A l \in Handler \ {k} : handling'[l] = handling[l]
BY DEF ToolsTypeOK, Answer

(* No call is begun: every handler goes on with its call or has answered.     *)
Continues ==
    /\ handling' \in [Handler -> Handled \cup {Free}]
    /\ \A k \in Handler : handling'[k] # Free =>
          handling[k] # Free /\ handling'[k].call = handling[k].call

LEMMA ContinuedRivals ==
  ASSUME RivalsKnown, Continues, troubled \subseteq troubled'
  PROVE  RivalsKnown'
BY DEF RivalsKnown, Continues, Busy

LEMMA EnteredRivals ==
  ASSUME ToolsTypeOK, RivalsKnown, NEW k \in Handler, NEW c \in ToolRequest, NEW v \in Handled,
         Enters(k, c), handling' = [handling EXCEPT ![k] = v], v.call = c
  PROVE  RivalsKnown'
<1>1. /\ handling'[k] = v /\ \A l \in Handler \ {k} : handling'[l] = handling[l]
      /\ k \notin Busy
  BY DEF ToolsTypeOK, Enters, Arrives
<1>2. /\ troubled \subseteq troubled'
      /\ \A l \in Rivals(c) : handling[l].call.key \in troubled' /\ c.key \in troubled'
  BY DEF Enters
<1> SUFFICES ASSUME NEW a \in Busy', NEW b \in Busy', a # b,
                    handling'[a].call.tool = handling'[b].call.tool
                    \/ handling'[a].call.key = handling'[b].call.key
             PROVE  handling'[a].call.key \in troubled'
  BY DEF RivalsKnown
<1>3. CASE a # k /\ b # k
  BY <1>1, <1>2, <1>3 DEF RivalsKnown, Busy
<1>4. CASE a = k
  <2>1. b \in Rivals(c)
    BY <1>1, <1>4 DEF Rivals, Busy
  <2>2. QED
    BY <1>1, <1>2, <1>4, <2>1
<1>5. CASE b = k
  <2>1. a \in Rivals(c)
    BY <1>1, <1>5 DEF Rivals, Busy
  <2>2. QED
    BY <1>1, <1>2, <1>5, <2>1 DEF Rivals, Busy
<1>6. QED
  BY <1>3, <1>4, <1>5

(* What each step does to the handler that makes it. *)
AfterNote(h) == h.await \in {"close", "push", "record"}

LEMMA EnterToolMoves ==
  ASSUME ToolsTypeOK, NEW k \in Handler, NEW c \in ToolRequest, EnterTool(k, c)
  PROVE  \E v \in Handled :
            /\ handling' = [handling EXCEPT ![k] = v] /\ v.call = c
            /\ InStage(v) /\ ~AfterNote(v) /\ v.await # "targets"
            /\ v.await = "note" => c.tool # "close"
<1> DEFINE v == [Free EXCEPT !.call = c, !.await = FirstAwait[c.tool]]
<1>1. c.tool \in {"claim", "update", "compact", "close"}
  BY CallFacts DEF EnterTool
<1>2. FirstAwait[c.tool] = IF c.tool = "claim" THEN "ready" ELSE IF c.tool = "close" THEN "show" ELSE "note"
  BY <1>1 DEF FirstAwait
<1>3. PICK what \in {"ready", "show", "note"} : what = FirstAwait[c.tool]
  BY <1>2
<1>4. v \in Handled /\ v.call = c /\ v.await = FirstAwait[c.tool]
  <2> DEFINE Fresh == [call : {NoRequest}, await : {"none"}, read : {<<>>},
                       todo : SUBSET Target, ok : SUBSET Target]
  <2>1. Free \in Fresh
    BY DEF Free
  <2>2. \A f \in Fresh : /\ [f EXCEPT !.call = c, !.await = what] \in Handled
                         /\ [f EXCEPT !.call = c, !.await = what].call = c
                         /\ [f EXCEPT !.call = c, !.await = what].await = what
    BY DEF Handled
  <2> HIDE DEF Fresh
  <2>3. QED
    BY <1>3, <2>1, <2>2
<1>5. handling' = [handling EXCEPT ![k] = v]
  BY DEF EnterTool
<1> HIDE DEF v
<1>6. InStage(v) /\ ~AfterNote(v) /\ v.await # "targets" /\ (v.await = "note" => c.tool # "close")
  BY <1>1, <1>2, <1>4 DEF InStage, AfterNote
<1>7. QED
  BY <1>4, <1>5, <1>6

LEMMA EnterSyncMoves ==
  ASSUME ToolsTypeOK, NEW k \in Handler, NEW c \in ToolRequest, EnterSync(k, c)
  PROVE  \E v \in Handled :
            /\ handling' = [handling EXCEPT ![k] = v] /\ v.call = c
            /\ InStage(v) /\ v.await = "targets" /\ v.read = tracker
            /\ \A t \in v.todo : c.force \/ c.key \notin tracker[t].done
<1> DEFINE todo == {t \in Target : Runs(c, t, tracker[t])}
           v == [call |-> c, await |-> "targets", read |-> tracker, todo |-> todo, ok |-> {}]
<1>1. todo \in SUBSET Target /\ \A t \in todo : c.force \/ c.key \notin tracker[t].done
  BY DEF Runs
<1>2. handling' = [handling EXCEPT ![k] = v] /\ c.tool = "sync"
  BY DEF EnterSync
<1> HIDE DEF todo
<1>3. /\ v \in Handled /\ v.call = c /\ v.await = "targets" /\ v.read = tracker
      /\ v.todo = todo
  BY <1>1 DEF Handled, ToolsTypeOK
<1>4. InStage(v)
  BY <1>2 DEF InStage, ToolsTypeOK
<1>5. QED
  BY <1>1, <1>2, <1>3, <1>4

LEMMA ShowMoves ==
  ASSUME ToolsTypeOK, NEW k \in Handler, Show(k)
  PROVE  /\ Continues /\ handling[k] \in Handled
         /\ handling[k].await \in {"ready", "show"}
         /\ UNCHANGED <<bead, keys, tracker, applied, troubled, misled, closings, reviewVars, synced>>
         /\ \A l \in Handler \ {k} : handling'[l] = handling[l]
         /\ handling'[k] # Free =>
               /\ InStage(handling'[k]) /\ handling'[k].await \in {"show", "claim", "note"}
               /\ handling[k].call.tool = "close" => bead # "closed"
<1>1. /\ handling[k].await \in {"ready", "show"} /\ handling[k] \in Handled /\ InStage(handling[k])
      /\ UNCHANGED <<bead, keys, tracker, applied, troubled, misled, closings, reviewVars, synced>>
  BY DEF Show, Stays, Free, ToolsTypeOK, Busy
<1>2. handling[k].call.tool \in {"claim", "close"} /\ handling[k].call \in ToolRequest
  BY <1>1, CallFacts DEF InStage, Handled
<1>3. CASE Answer(k)
  BY <1>1, <1>3, AnswerMoves DEF Continues
<1>4. CASE ~Answer(k)
  <2>1. PICK what \in {"show", "claim", "note"} :
           /\ Await(k, what) /\ (what = "show" => handling[k].await = "ready")
           /\ (what = "claim" => handling[k].call.tool = "claim")
           /\ (what = "note" => handling[k].call.tool = "close")
    BY <1>1, <1>2, <1>4 DEF Show, AfterShow
  <2>2. handling[k].call.tool = "close" => bead # "closed"
    BY <1>4 DEF Show, Fits
  <2>3. /\ handling' \in [Handler -> Handled \cup {Free}] /\ handling'[k] \in Handled
        /\ handling'[k].call = handling[k].call /\ handling'[k].await = what
        /\ \A l \in Handler \ {k} : handling'[l] = handling[l]
    BY <1>1, <2>1, AwaitMoves
  <2>4. InStage(handling'[k])
    BY <1>1, <1>2, <2>1, <2>3 DEF InStage
  <2>5. QED
    BY <1>1, <2>1, <2>2, <2>3, <2>4, CallFacts DEF Continues
<1>5. QED
  BY <1>3, <1>4

LEMMA CarriedOutMoves ==
  ASSUME ToolsTypeOK, NEW k \in Handler, handling[k] \in Handled, CarriedOut(k)
  PROVE  /\ bead' \in {"open", "in_progress", "closed"} /\ applied' \in [Key -> Nat] /\ closings' \in [Key -> Nat]
         /\ \A key \in Key :
               applied'[key] = IF handling[k].await = "note" /\ key = handling[k].call.key
                               THEN applied[key] + 1 ELSE applied[key]
         /\ handling[k].await # "close" => closings' = closings /\ (bead' = "closed" => bead = "closed")
         /\ \A key \in Key :
               closings'[key] = IF handling[k].await = "close" /\ bead # "closed"
                                   /\ key = handling[k].call.key
                                THEN closings[key] + 1 ELSE closings[key]
BY CallFacts DEF ToolsTypeOK, CarriedOut, Handled

LEMMA CommandMoves ==
  ASSUME ToolsTypeOK, NEW k \in Handler, Command(k)
  PROVE  /\ Continues /\ handling[k] \in Handled /\ handling'[k] \in Handled
         /\ UNCHANGED <<keys, tracker, troubled, misled, reviewVars, synced>>
         /\ \A l \in Handler \ {k} : handling'[l] = handling[l]
         /\ InStage(handling'[k]) /\ handling'[k].await # "targets"
         /\ handling'[k].await = "note" => handling[k].call.tool = "claim"
         /\ AfterNote(handling'[k]) <=> AfterNote(handling[k]) \/ handling[k].await = "note"
         /\ handling[k].await = "close" <=>
               handling[k].call.tool = "close" /\ handling'[k].await = "push"
         /\ handling[k].call.tool = "close" => (handling[k].await = "note" <=> handling'[k].await = "close")
<1> DEFINE h == handling[k]
           next == Following(h.call, h.await)
<1>1. /\ h.await \in BdCommands /\ h \in Handled /\ InStage(h)
      /\ UNCHANGED <<keys, tracker, troubled, misled, reviewVars, synced>>
      /\ Await(k, next)
  BY DEF Command, Stays, Free, BdCommands, ToolsTypeOK, Busy
<1>2. h.call \in ToolRequest /\ h.call.tool \in {"claim", "update", "compact", "close"}
  BY <1>1, CallFacts DEF InStage, Handled, BdCommands
<1>3. next = IF h.await = "claim" THEN "note"
             ELSE IF h.await = "close" THEN "push"
             ELSE IF h.await = "push" THEN "record"
             ELSE IF h.call.tool = "close" THEN "close"
             ELSE IF h.call.tool = "claim" THEN "record" ELSE "push"
  BY <1>1 DEF Following, BdCommands
<1>4. next \in {"note", "close", "push", "record"}
  BY <1>3
<1> HIDE DEF next
<1>5. /\ handling' \in [Handler -> Handled \cup {Free}] /\ handling'[k] \in Handled
      /\ handling'[k].call = h.call /\ handling'[k].await = next
      /\ \A l \in Handler \ {k} : handling'[l] = handling[l]
  BY <1>1, <1>4, AwaitMoves
<1>6. Continues
  BY <1>1, <1>5, CallFacts DEF Continues
<1>7. InStage(handling'[k])
  BY <1>1, <1>2, <1>3, <1>5 DEF InStage, BdCommands
<1>8. QED
  BY <1>1, <1>2, <1>3, <1>5, <1>6, <1>7 DEF InStage, AfterNote, BdCommands

LEMMA TargetAnswersMoves ==
  ASSUME ToolsTypeOK, NEW k \in Handler, NEW t \in Target, NEW good \in BOOLEAN,
         TargetAnswers(k, t, good)
  PROVE  /\ Continues /\ handling[k] \in Handled /\ handling'[k] \in Handled
         /\ handling[k].await = "targets" /\ t \in handling[k].todo
         /\ UNCHANGED <<bead, keys, applied, troubled, misled, closings, reviewVars>>
         /\ \A l \in Handler \ {k} : handling'[l] = handling[l]
         /\ handling'[k].await = "targets" /\ handling'[k].read = handling[k].read
         /\ handling'[k].todo = handling[k].todo \ {t}
         /\ handling[k].read \in [Target -> Entry]
         /\ handling[k].call \in ToolRequest /\ handling[k].call.tool = "sync"
<1>1. /\ handling[k].await = "targets" /\ t \in handling[k].todo
      /\ handling[k] \in Handled /\ InStage(handling[k])
      /\ UNCHANGED <<bead, keys, applied, troubled, misled, closings, reviewVars>>
  BY DEF TargetAnswers, Free, ToolsTypeOK, Busy
<1>2. handling[k].call.tool = "sync" /\ handling[k].call \in ToolRequest
  BY <1>1, CallFacts DEF InStage, Handled
<1>3. PICK ok \in SUBSET Target :
         handling' = [handling EXCEPT ![k] = [handling[k] EXCEPT !.todo = handling[k].todo \ {t}, !.ok = ok]]
  <2>1. (IF good THEN handling[k].ok \cup {t} ELSE handling[k].ok) \in SUBSET Target
    BY <1>1 DEF Handled
  <2>2. QED
    BY <1>1, <2>1 DEF TargetAnswers, ToolsTypeOK, Handled
<1> DEFINE v == [handling[k] EXCEPT !.todo = handling[k].todo \ {t}, !.ok = ok]
<1>4. /\ v \in Handled /\ v.call = handling[k].call /\ v.await = "targets"
      /\ v.read = handling[k].read /\ v.todo = handling[k].todo \ {t}
  BY <1>1 DEF Handled
<1> HIDE DEF v
<1>5. /\ handling' \in [Handler -> Handled \cup {Free}] /\ handling'[k] = v
      /\ \A l \in Handler \ {k} : handling'[l] = handling[l]
  BY <1>3, <1>4 DEF ToolsTypeOK, v
<1>6. QED
  BY <1>1, <1>2, <1>4, <1>5, CallFacts DEF Continues, InStage

LEMMA BusyStage ==
  ASSUME ToolsTypeOK, NEW k \in Handler, handling[k].await # "none"
  PROVE  /\ handling[k] \in Handled /\ InStage(handling[k])
         /\ handling[k].call \in ToolRequest /\ handling[k].call.key \in Key
<1>1. handling[k] \in Handled /\ InStage(handling[k])
  BY DEF ToolsTypeOK, Free, Busy
<1>2. QED
  BY <1>1, CallFacts DEF Handled

(* The handlers after a step: those that go on are where their tool can be.   *)
LEMMA TypedAfter ==
  ASSUME ToolsTypeOK, NEW k \in Handler, handling' \in [Handler -> Handled \cup {Free}],
         \A l \in Handler \ {k} : handling'[l] = handling[l],
         handling'[k] # Free => InStage(handling'[k])
  PROVE  \A l \in Busy' : InStage(handling'[l])
BY DEF ToolsTypeOK, Busy

LEMMA EnterTyped ==
  ASSUME ToolsTypeOK, NEW k \in Handler, NEW c \in ToolRequest, NEW v \in Handled,
         Enters(k, c), handling' = [handling EXCEPT ![k] = v], InStage(v)
  PROVE  ToolsTypeOK'
<1>1. /\ handling' \in [Handler -> Handled \cup {Free}] /\ handling'[k] = v
      /\ \A l \in Handler \ {k} : handling'[l] = handling[l]
  BY DEF ToolsTypeOK
<1>2. troubled' \subseteq Key
  <2>1. \A l \in Busy : handling[l].call.key \in Key
    BY CallFacts DEF Busy, ToolsTypeOK, Handled
  <2>2. QED
    BY <2>1, CallFacts DEF Enters, Rivals, ToolsTypeOK
<1>3. \A l \in Busy' : InStage(handling'[l])
  BY <1>1, TypedAfter
<1>4. QED
  BY <1>1, <1>2, <1>3 DEF Enters, ToolsTypeOK, reviewVars

LEMMA CommandFailsMoves ==
  ASSUME ToolsTypeOK, NEW k \in Handler, CommandFails(k)
  PROVE  /\ Continues /\ handling[k] \in Handled /\ handling'[k] = Free
         /\ \A l \in Handler \ {k} : handling'[l] = handling[l]
         /\ handling[k].call.key \in Key
         /\ troubled' = troubled \cup {handling[k].call.key}
         /\ UNCHANGED <<keys, tracker, misled, reviewVars, synced>>
         /\ bead' \in {"open", "in_progress", "closed"} /\ applied' \in [Key -> Nat] /\ closings' \in [Key -> Nat]
         /\ handling[k].call.tool # "close" => closings' = closings /\ (bead' = "closed" => bead = "closed")
         /\ \A key \in Key : /\ applied[key] <= applied'[key]
                             /\ key # handling[k].call.key => /\ applied'[key] = applied[key]
                                                             /\ closings'[key] = closings[key]
<1>1. handling[k].await \in BdCommands \cup {"ready", "show"}
      /\ handling[k] \in Handled /\ InStage(handling[k]) /\ handling[k].call.key \in Key
      /\ handling[k].call \in ToolRequest
  BY BusyStage DEF CommandFails, BdCommands
<1>2. /\ handling' \in [Handler -> Handled \cup {Free}] /\ handling'[k] = Free
      /\ \A l \in Handler \ {k} : handling'[l] = handling[l]
  BY AnswerMoves DEF CommandFails
<1>3. handling[k].await = "close" => handling[k].call.tool = "close"
  BY <1>1, CallFacts DEF InStage
<1>4. CASE CarriedOut(k)
  <2>1. /\ bead' \in {"open", "in_progress", "closed"} /\ applied' \in [Key -> Nat] /\ closings' \in [Key -> Nat]
        /\ \A key \in Key :
              applied'[key] = IF handling[k].await = "note" /\ key = handling[k].call.key
                              THEN applied[key] + 1 ELSE applied[key]
        /\ \A key \in Key : key # handling[k].call.key => closings'[key] = closings[key]
        /\ handling[k].await # "close" => closings' = closings /\ (bead' = "closed" => bead = "closed")
    BY <1>1, <1>4, CarriedOutMoves
  <2>2. \A key \in Key : applied[key] \in Nat
    BY DEF ToolsTypeOK
  <2>3. QED
    BY <1>1, <1>2, <1>3, <2>1, <2>2 DEF CommandFails, Stays, Continues
<1>5. CASE UNCHANGED <<bead, applied, closings>>
  BY <1>1, <1>2, <1>5 DEF CommandFails, Stays, Continues, ToolsTypeOK
<1>6. QED
  BY <1>4, <1>5 DEF CommandFails

LEMMA RecordMoves ==
  ASSUME ToolsTypeOK, NEW k \in Handler, NEW launched \in BOOLEAN, RecordAndReview(k, launched)
  PROVE  /\ Continues /\ handling[k] \in Handled /\ handling'[k] = Free
         /\ \A l \in Handler \ {k} : handling'[l] = handling[l]
         /\ handling[k].await = "record" /\ handling[k].call.key \in Key
         /\ handling[k].call \in ToolRequest
         /\ keys' = keys \cup {handling[k].call.key}
         /\ reviews' \in [Key -> Nat] /\ unreviewed' \subseteq Key
         /\ \A key \in Key :
               reviews'[key] = IF launched /\ key = handling[k].call.key
                               THEN reviews[key] + 1 ELSE reviews[key]
         /\ launched => handling[k].call.tool = "close"
         /\ unreviewed' = IF handling[k].call.tool = "close" /\ ~launched
                          THEN unreviewed \cup {handling[k].call.key} ELSE unreviewed
         /\ UNCHANGED <<bead, tracker, applied, troubled, misled, closings, overtaken, synced>>
<1>1. /\ handling[k].await = "record" /\ handling[k] \in Handled
      /\ handling[k].call \in ToolRequest /\ handling[k].call.key \in Key
  BY BusyStage DEF RecordAndReview
<1>2. /\ handling' \in [Handler -> Handled \cup {Free}] /\ handling'[k] = Free
      /\ \A l \in Handler \ {k} : handling'[l] = handling[l]
  BY AnswerMoves DEF RecordAndReview
<1>3. /\ launched => handling[k].call.tool = "close"
      /\ reviews' = IF launched THEN [reviews EXCEPT ![handling[k].call.key] = @ + 1] ELSE reviews
      /\ unreviewed' = IF handling[k].call.tool = "close" /\ ~launched
                       THEN unreviewed \cup {handling[k].call.key} ELSE unreviewed
  BY DEF RecordAndReview, Reviewed
<1>4. /\ reviews' \in [Key -> Nat] /\ unreviewed' \subseteq Key
      /\ \A key \in Key :
            reviews'[key] = IF launched /\ key = handling[k].call.key
                            THEN reviews[key] + 1 ELSE reviews[key]
  BY <1>1, <1>3 DEF ToolsTypeOK
<1>5. QED
  BY <1>1, <1>2, <1>3, <1>4 DEF RecordAndReview, Stays, Continues

LEMMA SyncAnsweredMoves ==
  ASSUME ToolsTypeOK, NEW k \in Handler, SyncAnswered(k)
  PROVE  LET h == handling[k] IN
         /\ Continues /\ h \in Handled /\ handling'[k] = Free
         /\ \A l \in Handler \ {k} : handling'[l] = handling[l]
         /\ h.await = "targets" /\ h.call \in ToolRequest /\ h.call.key \in Key /\ h.call.tool = "sync"
         /\ keys' \in {keys, keys \cup {h.call.key}} /\ applied' \in [Key -> Nat]
         /\ \/ UNCHANGED <<keys, applied>>
            \/ h.call.preview /\ keys' = keys \cup {h.call.key} /\ UNCHANGED applied
            \/ keys' = keys \cup {h.call.key} /\ applied' = [applied EXCEPT ![h.call.key] = @ + 1]
         /\ UNCHANGED <<bead, tracker, troubled, misled, closings, reviewVars, synced>>
<1>1. /\ handling[k].await = "targets" /\ handling[k] \in Handled /\ InStage(handling[k])
      /\ handling[k].call \in ToolRequest /\ handling[k].call.key \in Key
  BY BusyStage DEF SyncAnswered
<1>2. /\ handling' \in [Handler -> Handled \cup {Free}] /\ handling'[k] = Free
      /\ \A l \in Handler \ {k} : handling'[l] = handling[l]
  BY AnswerMoves DEF SyncAnswered
<1>3. handling[k].call.tool = "sync"
  BY <1>1, CallFacts DEF InStage
<1>4. applied' \in [Key -> Nat]
  BY <1>1 DEF SyncAnswered, ToolsTypeOK
<1>5. QED
  BY <1>1, <1>2, <1>3, <1>4 DEF SyncAnswered, Stays, Continues, Completed

LEMMA ReachedTyped ==
  ASSUME ToolsTypeOK, NEW c \in ToolRequest, NEW t \in Target
  PROVE  Reached(c, t) \in [seen : SUBSET Key, again : SUBSET Key]
BY CallFacts DEF ToolsTypeOK, Reached

(* The entry a target is left with is the one the call had read, and its key. *)
LEMMA TargetEntries ==
  ASSUME ToolsTypeOK, NEW k \in Handler, NEW t \in Target, NEW good \in BOOLEAN,
         TargetAnswers(k, t, good)
  PROVE  LET h == handling[k] IN
         /\ tracker' \in [Target -> Entry]
         /\ \A u \in Target \ {t} : tracker'[u] = tracker[u] /\ synced'[u] = synced[u]
         /\ tracker'[t].done = IF good THEN h.read[t].done \cup {h.call.key} ELSE h.read[t].done
         /\ synced' \in [Target -> [seen : SUBSET Key, again : SUBSET Key]]
         /\ \/ synced'[t] = synced[t]
            \/ good /\ ~h.call.preview /\ ~h.call.force /\ synced'[t] = Reached(h.call, t)
<1> DEFINE h == handling[k]
           e == IF good THEN [retries |-> 0, done |-> h.read[t].done \cup {h.call.key}]
                ELSE [h.read[t] EXCEPT !.retries = h.read[t].retries + 1]
<1>1. h.read[t] \in Entry /\ h.call \in ToolRequest /\ h.call.key \in Key
  BY TargetAnswersMoves, CallFacts
<1>2. e \in Entry /\ e.done = IF good THEN h.read[t].done \cup {h.call.key} ELSE h.read[t].done
  <2>1. CASE good
    BY <1>1, <2>1 DEF Entry
  <2>2. CASE ~good
    BY <1>1, <2>2 DEF Entry
  <2>3. QED
    BY <2>1, <2>2
<1>3. tracker' = [tracker EXCEPT ![t] = e]
  BY Zenon DEF TargetAnswers
<1>4. \/ synced' = synced
      \/ good /\ ~h.call.preview /\ ~h.call.force /\ synced' = [synced EXCEPT ![t] = Reached(h.call, t)]
  BY DEF TargetAnswers
<1> HIDE DEF e
<1>5. QED
  BY <1>1, <1>2, <1>3, <1>4, ReachedTyped DEF ToolsTypeOK

Answering(k, c) == SkipRecorded(k, c) \/ Refuse(k, c)
LEMMA AnsweringMoves ==
  ASSUME ToolsTypeOK, NEW k \in Handler, NEW c \in ToolRequest, Answering(k, c)
  PROVE  /\ UNCHANGED <<bead, keys, tracker, handling, applied, troubled, closings, reviewVars, synced>>
         /\ misled' = misled \/ (c.key \in keys /\ applied[c.key] = 0 /\ ~c.preview)
         /\ misled' \subseteq Key
BY CallFacts DEF Answering, SkipRecorded, Refuse, ToolsTypeOK

LEMMA RestartMoves ==
  ASSUME ToolsTypeOK, RestartServer
  PROVE  ToolsTypeOK' /\ Busy' = {}
<1>1. ForgetfulEntry \in Entry /\ NoRuns \in [seen : SUBSET Key, again : SUBSET Key]
  BY DEF ForgetfulEntry, Entry, NoRuns
<1>2. Busy' = {}
  BY DEF RestartServer, Busy
<1>3. ToolsTypeOK'
  BY <1>1, <1>2 DEF RestartServer, ToolsTypeOK
<1>4. QED
  BY <1>2, <1>3

LEMMA ToolsTypeStep ==
  ASSUME ToolsTypeOK, [ToolsNext]_toolVars
  PROVE  ToolsTypeOK'
<1>1. ASSUME NEW k \in Handler, NEW c \in ToolRequest, Answering(k, c) PROVE ToolsTypeOK'
  BY <1>1, AnsweringMoves DEF ToolsTypeOK, Busy, reviewVars
<1>2. ASSUME NEW k \in Handler, NEW c \in ToolRequest, EnterTool(k, c) \/ EnterSync(k, c)
      PROVE  ToolsTypeOK'
  <2>1. \E v \in Handled : handling' = [handling EXCEPT ![k] = v] /\ v.call = c /\ InStage(v)
    BY <1>2, EnterToolMoves, EnterSyncMoves
  <2>2. QED
    BY <1>2, <2>1, EnterTyped DEF EnterTool, EnterSync
<1>3. ASSUME NEW k \in Handler, Show(k) PROVE ToolsTypeOK'
  <2>1. \A l \in Busy' : InStage(handling'[l])
    BY <1>3, ShowMoves, TypedAfter DEF Continues
  <2>2. QED
    BY <1>3, <2>1, ShowMoves DEF ToolsTypeOK, Continues, reviewVars
<1>4. ASSUME NEW k \in Handler, Command(k) PROVE ToolsTypeOK'
  <2>1. \A l \in Busy' : InStage(handling'[l])
    BY <1>4, CommandMoves, TypedAfter DEF Continues
  <2>2. bead' \in {"open", "in_progress", "closed"} /\ applied' \in [Key -> Nat] /\ closings' \in [Key -> Nat]
    BY <1>4, CommandMoves, CarriedOutMoves DEF Command
  <2>3. QED
    BY <1>4, <2>1, <2>2, CommandMoves DEF ToolsTypeOK, Continues, reviewVars
<1>5. ASSUME NEW k \in Handler, CommandFails(k) PROVE ToolsTypeOK'
  <2>1. \A l \in Busy' : InStage(handling'[l])
    BY <1>5, CommandFailsMoves, TypedAfter DEF Continues
  <2>2. QED
    BY <1>5, <2>1, CommandFailsMoves DEF ToolsTypeOK, Continues, reviewVars
<1>6. ASSUME NEW k \in Handler, NEW launched \in BOOLEAN, RecordAndReview(k, launched)
      PROVE  ToolsTypeOK'
  <2>1. \A l \in Busy' : InStage(handling'[l])
    BY <1>6, RecordMoves, TypedAfter DEF Continues
  <2>2. QED
    BY <1>6, <2>1, RecordMoves DEF ToolsTypeOK, Continues, reviewVars
<1>7. ASSUME NEW k \in Handler, NEW t \in Target, NEW good \in BOOLEAN, TargetAnswers(k, t, good)
      PROVE  ToolsTypeOK'
  <2>1. InStage(handling'[k])
    BY <1>7, TargetAnswersMoves, CallFacts DEF InStage, Continues
  <2>2. \A l \in Busy' : InStage(handling'[l])
    BY <1>7, <2>1, TargetAnswersMoves, TypedAfter DEF Continues
  <2>3. tracker' \in [Target -> Entry] /\ synced' \in [Target -> [seen : SUBSET Key, again : SUBSET Key]]
    BY <1>7, TargetEntries
  <2>4. QED
    BY <1>7, <2>2, <2>3, TargetAnswersMoves DEF ToolsTypeOK, Continues, reviewVars
<1>8. ASSUME NEW k \in Handler, SyncAnswered(k) PROVE ToolsTypeOK'
  <2>1. \A l \in Busy' : InStage(handling'[l])
    BY <1>8, SyncAnsweredMoves, TypedAfter DEF Continues
  <2>2. QED
    BY <1>8, <2>1, SyncAnsweredMoves DEF ToolsTypeOK, Continues, reviewVars
<1>9. CASE OthersChange
  <2>1. {handling[k].call.key : k \in Unclosed} \subseteq Key
    BY CallFacts DEF Unclosed, Busy, ToolsTypeOK, Handled
  <2>2. overtaken' \subseteq Key
    BY <1>9, <2>1 DEF OthersChange, ToolsTypeOK
  <2>3. QED
    BY <1>9, <2>2 DEF OthersChange, ToolsTypeOK, Busy
<1>10. CASE RestartServer
  BY <1>10, RestartMoves
<1>11. CASE UNCHANGED toolVars
  BY <1>11 DEF toolVars, reviewVars, ToolsTypeOK, Busy
<1>12. QED
  BY <1>1, <1>2, <1>3, <1>4, <1>5, <1>6, <1>7, <1>8, <1>9, <1>10, <1>11 DEF ToolsNext, Answering

LEMMA RivalsStep ==
  ASSUME ToolsTypeOK, RivalsKnown, [ToolsNext]_toolVars
  PROVE  RivalsKnown'
<1>1. ASSUME NEW k \in Handler, NEW c \in ToolRequest, EnterTool(k, c) \/ EnterSync(k, c)
      PROVE  RivalsKnown'
  <2>1. \E v \in Handled : handling' = [handling EXCEPT ![k] = v] /\ v.call = c
    BY <1>1, EnterToolMoves, EnterSyncMoves
  <2>2. QED
    BY <1>1, <2>1, EnteredRivals DEF EnterTool, EnterSync
<1>2. ASSUME NEW k \in Handler, NEW c \in ToolRequest, Answering(k, c) PROVE RivalsKnown'
  BY <1>2, AnsweringMoves DEF RivalsKnown, Busy
<1>3. ASSUME NEW k \in Handler,
             Show(k) \/ Command(k) \/ CommandFails(k) \/ SyncAnswered(k)
             \/ (\E launched \in BOOLEAN : RecordAndReview(k, launched))
             \/ \E t \in Target, good \in BOOLEAN : TargetAnswers(k, t, good)
      PROVE  RivalsKnown'
  <2>1. Continues /\ troubled \subseteq troubled'
    <3>1. CASE Show(k) \/ Command(k)
      BY <3>1, ShowMoves, CommandMoves
    <3>2. CASE CommandFails(k) \/ \E launched \in BOOLEAN : RecordAndReview(k, launched)
      BY <3>2, CommandFailsMoves, RecordMoves
    <3>3. CASE SyncAnswered(k)
      BY <3>3, SyncAnsweredMoves
    <3>4. CASE \E t \in Target, good \in BOOLEAN : TargetAnswers(k, t, good)
      BY <3>4, TargetAnswersMoves
    <3>5. QED
      BY <1>3, <3>1, <3>2, <3>3, <3>4
  <2>2. QED
    BY <2>1, ContinuedRivals
<1>4. CASE OthersChange \/ UNCHANGED toolVars
  BY <1>4 DEF OthersChange, toolVars, RivalsKnown, Busy
<1>5. CASE RestartServer
  BY <1>5, RestartMoves DEF RivalsKnown
<1>6. QED
  BY <1>1, <1>2, <1>3, <1>4, <1>5 DEF ToolsNext, Answering

(* A call that has noted its change has applied its key; a recorded key was    *)
(* applied, or belongs to a dry run.  A key nobody is in trouble with has been *)
(* applied at most once, and not at all before its call notes the change.      *)
AppliedInv ==
    /\ misled = {}
    /\ \A c \in ToolRequest : c.key \in keys /\ ~c.preview => applied[c.key] # 0
    /\ \A k \in Busy : AfterNote(handling[k]) => applied[handling[k].call.key] # 0
    /\ \A key \in Key \ troubled :
          /\ applied[key] <= 1
          /\ applied[key] = 0 \/ key \in keys \/ \E k \in Busy : handling[k].call.key = key
          /\ \A k \in Busy : handling[k].call.key = key =>
                key \notin keys /\ (applied[key] = 0 \/ AfterNote(handling[k]))

(* A step in which nothing is applied or recorded. *)
LEMMA AppliedKept ==
  ASSUME ToolsTypeOK, AppliedInv, Continues, UNCHANGED <<keys, applied, troubled, misled>>,
         \A k \in Busy' : AfterNote(handling'[k]) <=> AfterNote(handling[k]),
         \A k \in Busy : k \in Busy' \/ applied[handling[k].call.key] = 0
  PROVE  AppliedInv'
BY DEF AppliedInv, Continues, Busy

LEMMA AppliedEnter ==
  ASSUME ToolsTypeOK, AppliedInv, NEW k \in Handler, NEW c \in ToolRequest, NEW v \in Handled,
         Enters(k, c), handling' = [handling EXCEPT ![k] = v], v.call = c, ~AfterNote(v)
  PROVE  AppliedInv'
<1>1. /\ handling'[k] = v /\ \A l \in Handler \ {k} : handling'[l] = handling[l]
      /\ k \notin Busy /\ Busy' = Busy \cup {k}
  BY CallFacts DEF ToolsTypeOK, Enters, Arrives, Busy
<1>2. /\ c.key \notin keys /\ UNCHANGED <<keys, applied, misled>>
      /\ troubled \subseteq troubled' /\ (c.key \notin troubled' => Rivals(c) = {})
  BY DEF Enters
<1>3. c.key \notin troubled' =>
         /\ applied[c.key] = 0
         /\ \A l \in Busy : handling[l].call.key # c.key
  BY <1>2, CallFacts DEF AppliedInv, Rivals
<1>4. QED
  BY <1>1, <1>2, <1>3 DEF AppliedInv

LEMMA AppliedCommand ==
  ASSUME ToolsTypeOK, RivalsKnown, AppliedInv, NEW k \in Handler, Command(k)
  PROVE  AppliedInv'
<1> DEFINE h == handling[k]
<1>1. /\ h \in Handled /\ h.call.key \in Key /\ k \in Busy
      /\ handling'[k] \in Handled /\ handling'[k] # Free /\ handling'[k].call = h.call
      /\ \A l \in Handler \ {k} : handling'[l] = handling[l]
      /\ AfterNote(handling'[k]) <=> AfterNote(h) \/ h.await = "note"
      /\ UNCHANGED <<keys, troubled, misled>>
  BY CommandMoves, CallFacts, BusyHandled DEF Continues, Handled
<1>2. Busy' = Busy
  BY <1>1 DEF Busy
<1>3. /\ applied' \in [Key -> Nat]
      /\ \A key \in Key : applied'[key] = IF h.await = "note" /\ key = h.call.key
                                          THEN applied[key] + 1 ELSE applied[key]
  BY <1>1, CarriedOutMoves DEF Command
<1>4. \A key \in Key : applied[key] \in Nat
  BY DEF ToolsTypeOK
<1>5. CASE h.await # "note"
  <2>1. applied' = applied
    BY <1>3, <1>5 DEF ToolsTypeOK
  <2>2. \A l \in Busy' : AfterNote(handling'[l]) <=> AfterNote(handling[l])
    BY <1>1, <1>2, <1>5 DEF Busy
  <2>3. Continues
    BY CommandMoves
  <2>4. QED
    BY <1>1, <1>2, <2>1, <2>2, <2>3, AppliedKept
<1>6. CASE h.await = "note"
  <2>1. ~AfterNote(h) /\ AfterNote(handling'[k])
    BY <1>1, <1>6 DEF AfterNote
  <2>2. h.call.key \notin troubled => applied[h.call.key] = 0
    BY <1>1, <2>1 DEF AppliedInv
  <2>3. /\ applied'[h.call.key] = applied[h.call.key] + 1 /\ applied'[h.call.key] # 0
        /\ \A key \in Key \ {h.call.key} : applied'[key] = applied[key]
    BY <1>1, <1>3, <1>4, <1>6
  <2>4. \A l \in Busy \ {k} : handling[l].call.key = h.call.key => h.call.key \in troubled
    BY <1>1 DEF RivalsKnown
  <2>5. \A l \in Busy : handling[l].call.key \in Key
    BY CallFacts DEF Busy, ToolsTypeOK, Handled
  <2> DEFINE key == h.call.key
  <2>6. /\ \A l \in Busy : handling'[l].call = handling[l].call
        /\ \A l \in Busy \ {k} : handling'[l] = handling[l]
        /\ \A i \in Key : applied[i] # 0 => applied'[i] # 0
    BY <1>1, <2>3, <2>5 DEF Busy
  <2>7. \A c \in ToolRequest : c.key \in keys' /\ ~c.preview => applied'[c.key] # 0
    BY <1>1, <2>6, CallFacts DEF AppliedInv
  <2>8. \A l \in Busy' : AfterNote(handling'[l]) => applied'[handling'[l].call.key] # 0
    BY <1>1, <1>2, <2>3, <2>5, <2>6 DEF AppliedInv
  <2>9. ASSUME NEW i \in Key \ troubled'
        PROVE  /\ applied'[i] <= 1
               /\ applied'[i] = 0 \/ i \in keys' \/ \E l \in Busy' : handling'[l].call.key = i
               /\ \A l \in Busy' : handling'[l].call.key = i =>
                     i \notin keys' /\ (applied'[i] = 0 \/ AfterNote(handling'[l]))
    <3>1. CASE i = key
      BY <1>1, <1>2, <2>1, <2>2, <2>3, <2>4, <2>6, <3>1 DEF AppliedInv
    <3>2. CASE i # key
      <4>1. applied'[i] = applied[i] /\ i \in Key \ troubled
        BY <1>1, <2>3, <3>2
      <4>2. \A l \in Busy : handling[l].call.key = i => handling'[l] = handling[l]
        BY <2>6, <3>2
      <4>3. QED
        BY <1>1, <1>2, <2>6, <4>1, <4>2 DEF AppliedInv
    <3>3. QED
      BY <3>1, <3>2
  <2>10. QED
    BY <1>1, <2>7, <2>8, <2>9 DEF AppliedInv
<1>7. QED
  BY <1>5, <1>6

LEMMA AppliedCommandFails ==
  ASSUME ToolsTypeOK, AppliedInv, NEW k \in Handler, CommandFails(k)
  PROVE  AppliedInv'
<1> DEFINE key == handling[k].call.key
<1>1. /\ key \in Key /\ handling'[k] = Free /\ \A l \in Handler \ {k} : handling'[l] = handling[l]
      /\ troubled' = troubled \cup {key} /\ UNCHANGED <<keys, misled>>
      /\ \A i \in Key : applied[i] <= applied'[i] /\ (i # key => applied'[i] = applied[i])
      /\ applied' \in [Key -> Nat] /\ applied \in [Key -> Nat]
  BY CommandFailsMoves DEF ToolsTypeOK
<1>2. Busy' \subseteq Busy /\ Busy' = Busy \ {k}
  BY <1>1 DEF Busy
<1>3. \A i \in Key : applied[i] # 0 => applied'[i] # 0
  BY <1>1
<1>4. \A l \in Busy : handling[l].call.key \in Key
  BY CallFacts DEF Busy, ToolsTypeOK, Handled
<1> HIDE DEF key
<1>5. \A i \in Key \ troubled' : (\E l \in Busy : handling[l].call.key = i)
                                    => \E l \in Busy' : handling'[l].call.key = i
  BY <1>1, <1>2 DEF key, Busy
<1>6. QED
  BY <1>1, <1>2, <1>3, <1>4, <1>5, CallFacts DEF AppliedInv, Busy

(* The key of a call that is answered is recorded: as applied, or as a dry run. *)
LEMMA AppliedRecorded ==
  ASSUME ToolsTypeOK, RivalsKnown, AppliedInv, NEW k \in Handler, handling[k] \in Handled,
         handling[k].call.key \in Key, handling'[k] = Free,
         \A l \in Handler \ {k} : handling'[l] = handling[l],
         keys' = keys \cup {handling[k].call.key}, UNCHANGED <<troubled, misled>>,
         applied' \in [Key -> Nat],
         \A i \in Key \ {handling[k].call.key} : applied'[i] = applied[i],
         \/ applied' = applied /\ applied[handling[k].call.key] # 0
         \/ applied' = applied /\ \A c \in ToolRequest : c.key = handling[k].call.key => c.preview
         \/ ~AfterNote(handling[k]) /\ applied'[handling[k].call.key] = applied[handling[k].call.key] + 1
  PROVE  AppliedInv'
<1> DEFINE key == handling[k].call.key
<1>1. k \in Busy /\ Busy' = Busy \ {k}
  BY BusyHandled DEF Busy
<1>2. \A l \in Busy \ {k} : handling[l].call.key = key => key \in troubled
  BY <1>1 DEF RivalsKnown
<1>3. \A l \in Busy : handling[l].call.key \in Key
  BY CallFacts DEF Busy, ToolsTypeOK, Handled
<1>4. key \notin troubled => applied[key] = 0 \/ AfterNote(handling[k])
  BY <1>1 DEF AppliedInv
<1>5. \A i \in Key : applied[i] \in Nat /\ applied'[i] \in Nat
  BY DEF ToolsTypeOK
<1>6. key \notin troubled => applied'[key] <= 1
  BY <1>4, <1>5 DEF AppliedInv
<1>7. \A i \in Key : applied[i] # 0 => applied'[i] # 0
  BY <1>5
<1>8. \A c \in ToolRequest : c.key = key /\ ~c.preview => applied'[key] # 0
  BY <1>5
<1> HIDE DEF key
<1>9. \A c \in ToolRequest : c.key \in keys' /\ ~c.preview => applied'[c.key] # 0
  BY <1>7, <1>8, CallFacts DEF AppliedInv, key
<1>10. \A l \in Busy' : AfterNote(handling'[l]) => applied'[handling'[l].call.key] # 0
  BY <1>1, <1>3, <1>7 DEF AppliedInv, Busy
<1>11. ASSUME NEW i \in Key \ troubled'
       PROVE  /\ applied'[i] <= 1
              /\ applied'[i] = 0 \/ i \in keys' \/ \E l \in Busy' : handling'[l].call.key = i
              /\ \A l \in Busy' : handling'[l].call.key = i =>
                    i \notin keys' /\ (applied'[i] = 0 \/ AfterNote(handling'[l]))
  <2>1. CASE i = key
    BY <1>1, <1>2, <1>6, <2>1 DEF key, Busy
  <2>2. CASE i # key
    BY <1>1, <2>2 DEF AppliedInv, key, Busy
  <2>3. QED
    BY <2>1, <2>2
<1>12. QED
  BY <1>9, <1>10, <1>11 DEF AppliedInv

(* Dry runs and changes are recorded under keys of their own: idempotencyKey    *)
(* makes a sync's key from its scope and its dry_run flag, unless the client    *)
(* gives one.                                                                  *)
PreviewsApart == \A c, d \in ToolRequest : c.key = d.key => c.preview = d.preview

LEMMA AppliedStep ==
  ASSUME PreviewsApart, ToolsTypeOK, RivalsKnown, AppliedInv, [ToolsNext]_toolVars
  PROVE  AppliedInv'
<1>1. ASSUME NEW k \in Handler, NEW c \in ToolRequest, Answering(k, c) PROVE AppliedInv'
  BY <1>1, AnsweringMoves DEF AppliedInv, Busy
<1>2. ASSUME NEW k \in Handler, NEW c \in ToolRequest, EnterTool(k, c) \/ EnterSync(k, c)
      PROVE  AppliedInv'
  <2>1. \E v \in Handled : handling' = [handling EXCEPT ![k] = v] /\ v.call = c /\ ~AfterNote(v)
    BY <1>2, EnterToolMoves, EnterSyncMoves DEF AfterNote
  <2>2. QED
    BY <1>2, <2>1, AppliedEnter DEF EnterTool, EnterSync
<1>3. ASSUME NEW k \in Handler, Show(k) \/ \E t \in Target, good \in BOOLEAN : TargetAnswers(k, t, good)
      PROVE  AppliedInv'
  <2>1. /\ Continues /\ UNCHANGED <<keys, applied, troubled, misled>>
        /\ \A l \in Handler \ {k} : handling'[l] = handling[l]
        /\ handling[k] \in Handled /\ ~AfterNote(handling[k])
        /\ handling'[k] # Free => ~AfterNote(handling'[k])
    <3>1. CASE Show(k)
      BY <3>1, ShowMoves DEF AfterNote
    <3>2. CASE \E t \in Target, good \in BOOLEAN : TargetAnswers(k, t, good)
      BY <3>2, TargetAnswersMoves DEF AfterNote
    <3>3. QED
      BY <1>3, <3>1, <3>2
  <2>2. k \in Busy /\ handling[k].call.key \in Key
    BY <2>1, BusyHandled, CallFacts DEF Handled
  <2>3. handling'[k] = Free \/ handling'[k].call = handling[k].call
    BY <2>1 DEF Continues
  <2>4. \A l \in Busy' : AfterNote(handling'[l]) <=> AfterNote(handling[l])
    BY <2>1 DEF Busy
  <2>5. CASE k \in Busy'
    BY <2>1, <2>4, <2>5, AppliedKept DEF Busy
  <2>6. CASE k \notin Busy' /\ applied[handling[k].call.key] = 0
    BY <2>1, <2>4, <2>6, AppliedKept DEF Busy
  <2>7. CASE k \notin Busy' /\ applied[handling[k].call.key] # 0
    <3>1. Busy' = Busy \ {k} /\ \A l \in Busy' : handling'[l] = handling[l]
      BY <2>1, <2>7 DEF Busy
    <3>2. handling[k].call.key \in troubled
      BY <2>1, <2>2, <2>7 DEF AppliedInv
    <3>3. QED
      BY <2>1, <3>1, <3>2 DEF AppliedInv
  <2>8. QED
    BY <2>5, <2>6, <2>7
<1>4. ASSUME NEW k \in Handler, Command(k) \/ CommandFails(k) PROVE AppliedInv'
  BY <1>4, AppliedCommand, AppliedCommandFails
<1>5. ASSUME NEW k \in Handler, NEW launched \in BOOLEAN, RecordAndReview(k, launched)
      PROVE  AppliedInv'
  <2>1. /\ handling[k] \in Handled /\ handling[k].await = "record" /\ handling[k].call.key \in Key
        /\ handling'[k] = Free /\ \A l \in Handler \ {k} : handling'[l] = handling[l]
        /\ keys' = keys \cup {handling[k].call.key} /\ UNCHANGED <<applied, troubled, misled>>
    BY <1>5, RecordMoves
  <2>2. applied[handling[k].call.key] # 0 /\ applied' \in [Key -> Nat]
    BY <2>1, BusyHandled DEF AppliedInv, AfterNote, ToolsTypeOK
  <2>3. QED
    BY <2>1, <2>2, AppliedRecorded
<1>6. ASSUME NEW k \in Handler, SyncAnswered(k) PROVE AppliedInv'
  <2> DEFINE h == handling[k]
  <2>1. /\ Continues /\ h \in Handled /\ handling'[k] = Free /\ h.await = "targets"
        /\ \A l \in Handler \ {k} : handling'[l] = handling[l]
        /\ h.call \in ToolRequest /\ h.call.key \in Key /\ applied' \in [Key -> Nat]
        /\ UNCHANGED <<troubled, misled>>
    BY <1>6, SyncAnsweredMoves
  <2>2. ~AfterNote(h) /\ k \in Busy /\ Busy' = Busy \ {k}
    BY <2>1, BusyHandled DEF AfterNote, Busy
  <2>3. CASE UNCHANGED <<keys, applied>>
    <3>1. h.call.key \notin troubled => applied[h.call.key] = 0
      BY <2>1, <2>2 DEF AppliedInv
    <3>2. \A l \in Busy' : handling'[l] = handling[l]
      BY <2>1, <2>2 DEF Busy
    <3>3. QED
      BY <2>1, <2>2, <2>3, <3>1, <3>2 DEF AppliedInv
  <2>4. CASE h.call.preview /\ keys' = keys \cup {h.call.key} /\ UNCHANGED applied
    <3>1. \A c \in ToolRequest : c.key = h.call.key => c.preview
      BY <2>1, <2>4 DEF PreviewsApart
    <3>2. QED
      BY <2>1, <2>4, <3>1, AppliedRecorded
  <2>5. CASE keys' = keys \cup {h.call.key} /\ applied' = [applied EXCEPT ![h.call.key] = @ + 1]
    <3>1. /\ applied'[h.call.key] = applied[h.call.key] + 1
          /\ \A i \in Key \ {h.call.key} : applied'[i] = applied[i]
      BY <2>1, <2>5 DEF ToolsTypeOK
    <3>2. QED
      BY <2>1, <2>2, <2>5, <3>1, AppliedRecorded
  <2>6. QED
    BY <1>6, <2>3, <2>4, <2>5, SyncAnsweredMoves
<1>7. CASE OthersChange \/ UNCHANGED toolVars
  BY <1>7 DEF OthersChange, toolVars, AppliedInv, Busy
<1>8. CASE RestartServer
  BY <1>8, RestartMoves DEF RestartServer, AppliedInv, Key
<1>9. QED
  BY <1>1, <1>2, <1>3, <1>4, <1>5, <1>6, <1>7, <1>8 DEF ToolsNext, Answering
-----------------------------------------------------------------------------
(* Under a key that is in no trouble and was not overtaken, a closing is       *)
(* reviewed once or about to be, and a close that is past its look at the bead *)
(* finds it open still.                                                        *)
PendingReview(key) ==
    \E k \in Busy : /\ handling[k].call.key = key /\ handling[k].call.tool = "close"
                    /\ handling[k].await \in {"push", "record"}
Awaiting(key) == \E k \in Unclosed : handling[k].call.key = key
ReviewFor(key) ==
    /\ PendingReview(key) => reviews[key] < closings[key]
    /\ ~PendingReview(key) => reviews[key] <= closings[key]
    /\ key \notin unreviewed =>
          closings[key] = IF PendingReview(key) THEN reviews[key] + 1 ELSE reviews[key]
    /\ Awaiting(key) => bead # "closed" /\ ~PendingReview(key)
ReviewInv == \A key \in CloseKeys \ (troubled \cup overtaken) : ReviewFor(key)

(* The handler is at a stage of a close under the key that ReviewFor tells apart. *)
Counts(h, key) ==
    h # Free /\ h.call.tool = "close" /\ h.call.key = key
             /\ h.await \in {"note", "close", "push", "record"}

LEMMA CloseKeyFacts ==
  ASSUME ToolsTypeOK, NEW key \in CloseKeys
  PROVE  key \in Key /\ closings[key] \in Nat /\ reviews[key] \in Nat
BY DEF ToolsTypeOK, CloseKeys, Key

(* A step of a handler that is at no such stage of the key, before or after.   *)
LEMMA ReviewElsewhere ==
  ASSUME NEW key, ReviewFor(key), NEW k \in Handler,
         \A l \in Handler \ {k} : handling'[l] = handling[l],
         ~Counts(handling[k], key), ~Counts(handling'[k], key),
         closings'[key] = closings[key], reviews'[key] = reviews[key],
         key \in unreviewed' <=> key \in unreviewed,
         Awaiting(key) /\ bead' = "closed" => bead = "closed"
  PROVE  ReviewFor(key)'
<1>1. PendingReview(key)' <=> PendingReview(key)
  BY DEF PendingReview, Counts, Busy
<1>2. Awaiting(key)' <=> Awaiting(key)
  BY DEF Awaiting, Unclosed, Counts, Busy
<1>3. QED
  BY <1>1, <1>2 DEF ReviewFor

(* Nobody else is at a close while one that is in no trouble is under way.     *)
LEMMA OwnClose ==
  ASSUME RivalsKnown, NEW k \in Busy, handling[k].call.tool = "close",
         handling[k].call.key \notin troubled
  PROVE  /\ PendingReview(handling[k].call.key) <=> handling[k].await \in {"push", "record"}
         /\ Awaiting(handling[k].call.key) <=> handling[k].await \in {"note", "close"}
<1>1. \A l \in Busy : handling[l].call.key = handling[k].call.key => l = k
  BY DEF RivalsKnown
<1>2. QED
  BY <1>1 DEF PendingReview, Awaiting, Unclosed

LEMMA OwnCloseAfter ==
  ASSUME RivalsKnown', NEW k \in Busy', handling'[k].call.tool = "close",
         NEW key, key = handling'[k].call.key, key \notin troubled'
  PROVE  /\ PendingReview(key)' <=> handling'[k].await \in {"push", "record"}
         /\ Awaiting(key)' <=> handling'[k].await \in {"note", "close"}
<1>1. \A l \in Busy' : handling'[l].call.key = key => l = k
  BY DEF RivalsKnown
<1>2. QED
  BY <1>1 DEF PendingReview, Awaiting, Unclosed

LEMMA OthersTroubled ==
  ASSUME RivalsKnown, NEW k \in Busy, handling[k].call.tool = "close",
         NEW key, key # handling[k].call.key, key \notin troubled
  PROVE  ~Awaiting(key)
BY DEF Awaiting, Unclosed, RivalsKnown

LEMMA ReviewCommand ==
  ASSUME ToolsTypeOK, RivalsKnown, ReviewInv, RivalsKnown',
         NEW k \in Handler, Command(k)
  PROVE  ReviewInv'
<1> DEFINE h == handling[k]
<1>1. /\ Continues /\ h \in Handled /\ handling'[k] \in Handled
      /\ UNCHANGED <<troubled, reviews, overtaken, unreviewed>>
      /\ \A l \in Handler \ {k} : handling'[l] = handling[l]
      /\ InStage(handling'[k])
      /\ h.await = "close" <=> h.call.tool = "close" /\ handling'[k].await = "push"
      /\ h.call.tool = "close" => (h.await = "note" <=> handling'[k].await = "close")
      /\ handling'[k].await = "note" => h.call.tool = "claim"
  BY CommandMoves DEF reviewVars
<1>2. /\ h.await # "close" => closings' = closings /\ (bead' = "closed" => bead = "closed")
      /\ \A key \in Key : closings'[key] = IF h.await = "close" /\ bead # "closed" /\ key = h.call.key
                                           THEN closings[key] + 1 ELSE closings[key]
  BY <1>1, CarriedOutMoves DEF Command
<1>3. /\ k \in Busy /\ k \in Busy' /\ handling'[k].call = h.call /\ InStage(h)
      /\ h.call \in ToolRequest /\ h.call.key \in Key
  BY <1>1, BusyHandled, CallFacts DEF Continues, Busy, ToolsTypeOK, Handled
<1>4. SUFFICES ASSUME NEW key \in CloseKeys, key \notin troubled, key \notin overtaken, ReviewFor(key)
               PROVE  ReviewFor(key)'
  BY <1>1 DEF ReviewInv
<1>5. key \in Key /\ closings[key] \in Nat /\ reviews[key] \in Nat
  BY CloseKeyFacts
<1>6. CASE h.call.tool # "close"
  <2>1. h.await # "close" /\ ~Counts(h, key) /\ ~Counts(handling'[k], key)
    BY <1>1, <1>3, <1>6 DEF Counts
  <2>2. QED
    BY <1>1, <1>2, <1>4, <2>1, ReviewElsewhere
<1>7. CASE h.call.tool = "close" /\ key # h.call.key
  <2>1. ~Counts(h, key) /\ ~Counts(handling'[k], key)
    BY <1>3, <1>7 DEF Counts
  <2>2. ~Awaiting(key)
    BY <1>3, <1>4, <1>7, OthersTroubled
  <2>3. closings'[key] = closings[key]
    BY <1>2, <1>5, <1>7
  <2>4. QED
    BY <1>1, <1>4, <2>1, <2>2, <2>3, ReviewElsewhere
<1>8. CASE h.call.tool = "close" /\ key = h.call.key
  <2>1. /\ PendingReview(key) <=> h.await \in {"push", "record"}
        /\ Awaiting(key) <=> h.await \in {"note", "close"}
    BY <1>3, <1>4, <1>8, OwnClose
  <2>2. /\ PendingReview(key)' <=> handling'[k].await \in {"push", "record"}
        /\ Awaiting(key)' <=> handling'[k].await \in {"note", "close"}
    <3>1. handling'[k].call.tool = "close" /\ key = handling'[k].call.key /\ key \notin troubled'
      BY <1>1, <1>3, <1>4, <1>8
    <3> HIDE DEF h
    <3>2. QED
      BY <1>3, <3>1, OwnCloseAfter
  <2>3. h.await \in {"note", "close", "push"}
    BY <1>3, <1>8 DEF Command, InStage, BdCommands
  <2>4. CASE h.await = "note"
    <3>1. handling'[k].await = "close" /\ closings'[key] = closings[key] /\ bead' # "closed"
      BY <1>1, <1>2, <1>4, <1>5, <1>8, <2>1, <2>4 DEF ReviewFor
    <3>2. QED
      BY <1>1, <1>4, <2>1, <2>2, <2>4, <3>1 DEF ReviewFor
  <2>5. CASE h.await = "close"
    <3>1. handling'[k].await = "push" /\ bead # "closed" /\ ~PendingReview(key)
      BY <1>1, <1>4, <1>8, <2>1, <2>5 DEF ReviewFor
    <3>2. closings'[key] = closings[key] + 1 /\ reviews'[key] = reviews[key]
      BY <1>1, <1>2, <1>5, <1>8, <2>5, <3>1
    <3>3. QED
      BY <1>1, <1>4, <1>5, <2>2, <3>1, <3>2 DEF ReviewFor
  <2>6. CASE h.await = "push"
    <3>1. handling'[k].await = "record" /\ closings'[key] = closings[key]
      BY <1>1, <1>2, <1>3, <1>5, <1>8, <2>6 DEF Command, Following, Await, ToolsTypeOK
    <3>2. QED
      BY <1>1, <1>4, <2>1, <2>2, <2>6, <3>1 DEF ReviewFor
  <2>7. QED
    BY <2>3, <2>4, <2>5, <2>6
<1>9. QED
  BY <1>6, <1>7, <1>8

LEMMA ReviewShow ==
  ASSUME ToolsTypeOK, RivalsKnown, ReviewInv, RivalsKnown',
         NEW k \in Handler, Show(k)
  PROVE  ReviewInv'
<1>1. /\ Continues /\ handling[k] \in Handled /\ handling[k].await \in {"ready", "show"}
      /\ UNCHANGED <<bead, troubled, closings, reviews, overtaken, unreviewed>>
      /\ \A l \in Handler \ {k} : handling'[l] = handling[l]
      /\ handling'[k] # Free => /\ handling'[k].await \in {"show", "claim", "note"}
                                /\ handling[k].call.tool = "close" => bead # "closed"
  BY ShowMoves DEF reviewVars
<1>2. k \in Busy /\ (handling'[k] = Free \/ (handling'[k].call = handling[k].call /\ k \in Busy'))
  BY <1>1, BusyHandled DEF Continues, Busy
<1>3. SUFFICES ASSUME NEW key \in CloseKeys, key \notin troubled, key \notin overtaken, ReviewFor(key)
               PROVE  ReviewFor(key)'
  BY <1>1 DEF ReviewInv
<1>4. CASE ~Counts(handling'[k], key)
  <2>1. ~Counts(handling[k], key)
    BY <1>1 DEF Counts
  <2>2. QED
    BY <1>1, <1>3, <1>4, <2>1, ReviewElsewhere
<1>5. CASE Counts(handling'[k], key)
  <2>1. /\ handling'[k] # Free /\ handling[k].call.tool = "close" /\ key = handling[k].call.key
        /\ handling'[k].await = "note" /\ bead' # "closed" /\ k \in Busy'
        /\ handling'[k].call.tool = "close" /\ key = handling'[k].call.key
    BY <1>1, <1>2, <1>5 DEF Counts
  <2>2. ~PendingReview(key)
    BY <1>1, <1>2, <1>3, <2>1, OwnClose
  <2>3. ~PendingReview(key)'
    BY <1>1, <1>3, <2>1, OwnCloseAfter
  <2>4. QED
    BY <1>1, <1>3, <2>1, <2>2, <2>3 DEF ReviewFor
<1>6. QED
  BY <1>4, <1>5

LEMMA ReviewRecord ==
  ASSUME ToolsTypeOK, RivalsKnown, ReviewInv, NEW k \in Handler, NEW launched \in BOOLEAN,
         RecordAndReview(k, launched)
  PROVE  ReviewInv'
<1>1. /\ handling[k] \in Handled /\ handling'[k] = Free /\ handling[k].await = "record"
      /\ \A l \in Handler \ {k} : handling'[l] = handling[l]
      /\ \A key \in Key : reviews'[key] = IF launched /\ key = handling[k].call.key
                                          THEN reviews[key] + 1 ELSE reviews[key]
      /\ launched => handling[k].call.tool = "close"
      /\ unreviewed' = IF handling[k].call.tool = "close" /\ ~launched
                       THEN unreviewed \cup {handling[k].call.key} ELSE unreviewed
      /\ UNCHANGED <<bead, troubled, closings, overtaken>>
  BY RecordMoves
<1>2. k \in Busy /\ Busy' = Busy \ {k}
  BY <1>1, BusyHandled DEF Busy
<1>3. SUFFICES ASSUME NEW key \in CloseKeys, key \notin troubled, key \notin overtaken, ReviewFor(key)
               PROVE  ReviewFor(key)'
  BY <1>1 DEF ReviewInv
<1>4. key \in Key /\ closings[key] \in Nat /\ reviews[key] \in Nat
  BY CloseKeyFacts
<1>5. CASE handling[k].call.tool # "close" \/ key # handling[k].call.key
  <2>1. ~Counts(handling[k], key) /\ ~Counts(handling'[k], key)
    BY <1>1, <1>5 DEF Counts
  <2>2. reviews'[key] = reviews[key] /\ (key \in unreviewed' <=> key \in unreviewed)
    BY <1>1, <1>4, <1>5
  <2>3. QED
    BY <1>1, <1>3, <2>1, <2>2, ReviewElsewhere
<1>6. CASE handling[k].call.tool = "close" /\ key = handling[k].call.key
  <2>1. PendingReview(key)
    BY <1>1, <1>2, <1>6 DEF PendingReview
  <2>2. \A l \in Busy' : handling'[l].call.key # key
    <3>1. \A l \in Busy : handling[l].call.key = key => l = k
      BY <1>2, <1>3, <1>6 DEF RivalsKnown
    <3>2. QED
      BY <1>1, <1>2, <3>1 DEF Busy
  <2>3. ~PendingReview(key)' /\ ~Awaiting(key)'
    BY <2>2 DEF PendingReview, Awaiting, Unclosed
  <2>4. CASE launched
    <3>1. reviews'[key] = reviews[key] + 1 /\ unreviewed' = unreviewed
      BY <1>1, <1>4, <1>6, <2>4
    <3>2. QED
      BY <1>1, <1>3, <1>4, <2>1, <2>3, <3>1 DEF ReviewFor
  <2>5. CASE ~launched
    <3>1. reviews'[key] = reviews[key] /\ key \in unreviewed'
      BY <1>1, <1>4, <1>6, <2>5
    <3>2. QED
      BY <1>1, <1>3, <1>4, <2>1, <2>3, <3>1 DEF ReviewFor
  <2>6. QED
    BY <2>4, <2>5
<1>7. QED
  BY <1>5, <1>6

LEMMA ReviewStep ==
  ASSUME ToolsTypeOK, RivalsKnown, ReviewInv, RivalsKnown', [ToolsNext]_toolVars
  PROVE  ReviewInv'
<1>1. ASSUME NEW k \in Handler, NEW c \in ToolRequest, Answering(k, c) PROVE ReviewInv'
  BY <1>1, AnsweringMoves
     DEF ReviewInv, ReviewFor, PendingReview, Awaiting, Unclosed, Busy, reviewVars
<1>2. ASSUME NEW k \in Handler, NEW c \in ToolRequest, EnterTool(k, c) \/ EnterSync(k, c)
      PROVE  ReviewInv'
  <2>1. /\ handling[k] = Free /\ troubled \subseteq troubled'
        /\ UNCHANGED <<bead, closings, reviews, overtaken, unreviewed>>
    BY <1>2 DEF EnterTool, EnterSync, Enters, Arrives, Busy, reviewVars
  <2>2. /\ \A l \in Handler \ {k} : handling'[l] = handling[l]
        /\ handling'[k].call.tool = "close" =>
              handling'[k].await \notin {"note", "close", "push", "record"}
    <3>1. CASE EnterTool(k, c)
      BY <3>1, EnterToolMoves DEF AfterNote, ToolsTypeOK
    <3>2. CASE EnterSync(k, c)
      BY <3>2, EnterSyncMoves DEF ToolsTypeOK
    <3>3. QED
      BY <1>2, <3>1, <3>2
  <2>3. \A key : ~Counts(handling[k], key) /\ ~Counts(handling'[k], key)
    BY <2>1, <2>2 DEF Counts
  <2>4. QED
    BY <2>1, <2>2, <2>3, ReviewElsewhere DEF ReviewInv
<1>3. ASSUME NEW k \in Handler, Show(k) \/ Command(k) PROVE ReviewInv'
  BY <1>3, ReviewShow, ReviewCommand
<1>4. ASSUME NEW k \in Handler, NEW launched \in BOOLEAN, RecordAndReview(k, launched) PROVE ReviewInv'
  BY <1>4, ReviewRecord
<1>5. ASSUME NEW k \in Handler, CommandFails(k) PROVE ReviewInv'
  <2>1. /\ handling[k] \in Handled /\ handling'[k] = Free
        /\ \A l \in Handler \ {k} : handling'[l] = handling[l]
        /\ troubled' = troubled \cup {handling[k].call.key}
        /\ UNCHANGED <<reviews, overtaken, unreviewed>>
        /\ handling[k].call.tool # "close" => closings' = closings /\ (bead' = "closed" => bead = "closed")
        /\ \A key \in Key : key # handling[k].call.key => closings'[key] = closings[key]
    BY <1>5, CommandFailsMoves DEF reviewVars
  <2>2. k \in Busy
    BY <2>1, BusyHandled
  <2>3. SUFFICES ASSUME NEW key \in CloseKeys, key \notin troubled, key # handling[k].call.key,
                        key \notin overtaken, ReviewFor(key)
                 PROVE  ReviewFor(key)'
    BY <2>1 DEF ReviewInv
  <2>4. ~Counts(handling[k], key) /\ ~Counts(handling'[k], key)
    BY <2>1, <2>3 DEF Counts
  <2>5. Awaiting(key) /\ bead' = "closed" => bead = "closed"
    BY <2>1, <2>2, <2>3, OthersTroubled
  <2>6. closings'[key] = closings[key]
    BY <2>1, <2>3, CloseKeyFacts
  <2>7. QED
    BY <2>1, <2>3, <2>4, <2>5, <2>6, ReviewElsewhere
<1>6. ASSUME NEW k \in Handler,
             SyncAnswered(k) \/ \E t \in Target, good \in BOOLEAN : TargetAnswers(k, t, good)
      PROVE  ReviewInv'
  <2>1. /\ handling[k] \in Handled /\ handling[k].call.tool = "sync"
        /\ handling'[k] = Free \/ handling'[k].call = handling[k].call
        /\ \A l \in Handler \ {k} : handling'[l] = handling[l]
        /\ UNCHANGED <<bead, troubled, closings, reviews, overtaken, unreviewed>>
    <3>1. CASE SyncAnswered(k)
      BY <3>1, SyncAnsweredMoves DEF reviewVars
    <3>2. CASE \E t \in Target, good \in BOOLEAN : TargetAnswers(k, t, good)
      BY <3>2, TargetAnswersMoves DEF Continues, reviewVars
    <3>3. QED
      BY <1>6, <3>1, <3>2
  <2>2. \A key : ~Counts(handling[k], key) /\ ~Counts(handling'[k], key)
    BY <2>1 DEF Counts
  <2>3. QED
    BY <2>1, <2>2, ReviewElsewhere DEF ReviewInv
<1>7. CASE OthersChange
  <2>1. /\ UNCHANGED <<handling, troubled, closings, reviews, unreviewed>>
        /\ overtaken' = IF bead' = "closed" THEN overtaken \cup {handling[k].call.key : k \in Unclosed}
                        ELSE overtaken
    BY <1>7 DEF OthersChange
  <2>2. SUFFICES ASSUME NEW key \in CloseKeys, key \notin troubled, key \notin overtaken',
                        ReviewFor(key)
                 PROVE  ReviewFor(key)'
    BY <2>1 DEF ReviewInv
  <2>3. /\ PendingReview(key)' <=> PendingReview(key)
        /\ Awaiting(key)' <=> Awaiting(key)
    BY <2>1 DEF PendingReview, Awaiting, Unclosed, Busy
  <2>4. bead' = "closed" => ~Awaiting(key)
    BY <2>1, <2>2 DEF Awaiting
  <2>5. QED
    BY <2>1, <2>2, <2>3, <2>4 DEF ReviewFor
<1>8. CASE UNCHANGED toolVars
  BY <1>8 DEF toolVars, reviewVars, ReviewInv, ReviewFor, PendingReview, Awaiting, Unclosed, Busy
<1>9. CASE RestartServer
  <2>1. Busy' = {} /\ \A key \in Key : closings'[key] = 0 /\ reviews'[key] = 0
    BY <1>9, RestartMoves DEF RestartServer
  <2>2. \A key : ~PendingReview(key)' /\ ~Awaiting(key)'
    BY <2>1 DEF PendingReview, Awaiting, Unclosed
  <2>3. \A key \in CloseKeys : key \in Key
    BY DEF CloseKeys, Key
  <2>4. QED
    BY <2>1, <2>2, <2>3 DEF ReviewInv, ReviewFor
<1>10. QED
  BY <1>1, <1>2, <1>3, <1>4, <1>5, <1>6, <1>7, <1>8, <1>9 DEF ToolsNext, Answering
-----------------------------------------------------------------------------
(* A key a target was reached under stays in the target's entry, and in the    *)
(* copy every sync under way works with, unless its sync overlapped another    *)
(* one; a sync runs a target only under a key that its copy does not have.     *)
SyncInv ==
    /\ \A t \in Target :
          /\ synced[t].again \subseteq troubled
          /\ \A key \in synced[t].seen \ troubled :
                /\ key \in tracker[t].done
                /\ \A k \in Busy : handling[k].await = "targets" /\ t \in handling[k].todo
                      => key \in handling[k].read[t].done
    /\ \A k \in Busy : handling[k].await = "targets" /\ ~handling[k].call.force =>
          \A t \in handling[k].todo : handling[k].call.key \notin handling[k].read[t].done

(* A step that begins no sync and reaches no target. *)
LEMMA SyncKept ==
  ASSUME SyncInv, UNCHANGED <<tracker, synced>>, troubled \subseteq troubled',
         \A k \in Busy' : handling'[k].await = "targets" => k \in Busy /\ handling'[k] = handling[k]
  PROVE  SyncInv'
BY DEF SyncInv

LEMMA SyncEnter ==
  ASSUME ToolsTypeOK, SyncInv, NEW k \in Handler, NEW c \in ToolRequest, EnterSync(k, c)
  PROVE  SyncInv'
<1>1. PICK v \in Handled : /\ handling' = [handling EXCEPT ![k] = v] /\ v.call = c
                           /\ v.await = "targets" /\ v.read = tracker
                           /\ \A t \in v.todo : c.force \/ c.key \notin tracker[t].done
  BY EnterSyncMoves
<1>2. UNCHANGED <<tracker, synced>> /\ troubled \subseteq troubled'
  BY DEF EnterSync, Enters
<1>3. handling'[k] = v /\ \A l \in Busy' \ {k} : l \in Busy /\ handling'[l] = handling[l]
  BY <1>1 DEF ToolsTypeOK, Busy
<1>4. QED
  BY <1>1, <1>2, <1>3 DEF SyncInv

LEMMA SyncReached ==
  ASSUME ToolsTypeOK, RivalsKnown, SyncInv, NEW k \in Handler, NEW t \in Target, NEW good \in BOOLEAN,
         TargetAnswers(k, t, good)
  PROVE  SyncInv'
<1> DEFINE h == handling[k]
<1>1. /\ Continues /\ h \in Handled /\ handling'[k] \in Handled
      /\ h.await = "targets" /\ t \in h.todo /\ troubled' = troubled
      /\ \A l \in Handler \ {k} : handling'[l] = handling[l]
      /\ handling'[k].await = "targets" /\ handling'[k].read = h.read
      /\ handling'[k].todo = h.todo \ {t} /\ h.call \in ToolRequest /\ h.call.tool = "sync"
  BY TargetAnswersMoves
<1>2. /\ \A u \in Target \ {t} : tracker'[u] = tracker[u] /\ synced'[u] = synced[u]
      /\ tracker'[t].done = IF good THEN h.read[t].done \cup {h.call.key} ELSE h.read[t].done
      /\ \/ synced'[t] = synced[t]
         \/ good /\ ~h.call.preview /\ ~h.call.force /\ synced'[t] = Reached(h.call, t)
  BY TargetEntries
<1>3. k \in Busy /\ Busy' = Busy /\ handling'[k].call = h.call
  BY <1>1, BusyHandled, CallFacts DEF Continues, Busy
<1>4. \A l \in Busy \ {k} : handling[l].await = "targets" => h.call.key \in troubled
  <2> SUFFICES ASSUME NEW l \in Busy \ {k}, handling[l].await = "targets"
               PROVE  h.call.key \in troubled
    OBVIOUS
  <2>1. handling[l].call.tool = "sync"
    BY BusyStage, CallFacts DEF InStage, Busy
  <2>2. QED
    BY <1>1, <1>3, <2>1 DEF RivalsKnown
<1>5. \A key \in synced[t].seen \ troubled : key \in h.read[t].done
  BY <1>1, <1>3 DEF SyncInv
<1>6. ~h.call.force => h.call.key \notin h.read[t].done
  BY <1>1, <1>3 DEF SyncInv
<1>7. synced'[t].again \subseteq troubled
  <2>1. ~h.call.force => {h.call.key} \cap synced[t].seen \subseteq troubled
    BY <1>5, <1>6
  <2>2. QED
    BY <1>2, <2>1 DEF SyncInv, Reached
<1>8. \A key \in synced'[t].seen : key \in synced[t].seen \/ (good /\ key = h.call.key)
  BY <1>2 DEF Reached
<1>9. \A key \in synced'[t].seen \ troubled : key \in tracker'[t].done
  BY <1>2, <1>5, <1>8
<1>10. \A key \in synced'[t].seen \ troubled : \A l \in Busy \ {k} :
          handling[l].await = "targets" /\ t \in handling[l].todo => key \in handling[l].read[t].done
  BY <1>4, <1>8 DEF SyncInv
<1>11. ASSUME NEW u \in Target
       PROVE  /\ synced'[u].again \subseteq troubled
              /\ \A key \in synced'[u].seen \ troubled :
                    /\ key \in tracker'[u].done
                    /\ \A l \in Busy' : handling'[l].await = "targets" /\ u \in handling'[l].todo
                          => key \in handling'[l].read[u].done
  <2>1. CASE u = t
    BY <1>1, <1>3, <1>7, <1>9, <1>10, <2>1 DEF Busy
  <2>2. CASE u # t
    BY <1>1, <1>2, <1>3, <2>2 DEF SyncInv, Busy
  <2>3. QED
    BY <2>1, <2>2
<1>12. \A l \in Busy' : handling'[l].await = "targets" /\ ~handling'[l].call.force =>
          \A u \in handling'[l].todo : handling'[l].call.key \notin handling'[l].read[u].done
  BY <1>1, <1>3 DEF SyncInv, Busy
<1>13. QED
  BY <1>1, <1>11, <1>12 DEF SyncInv

LEMMA SyncStep ==
  ASSUME ToolsTypeOK, RivalsKnown, SyncInv, [ToolsNext]_toolVars
  PROVE  SyncInv'
<1>1. ASSUME NEW k \in Handler, NEW c \in ToolRequest, Answering(k, c) PROVE SyncInv'
  BY <1>1, AnsweringMoves DEF SyncInv, Busy
<1>2. ASSUME NEW k \in Handler, NEW c \in ToolRequest, EnterTool(k, c) PROVE SyncInv'
  <2>1. PICK v \in Handled : handling' = [handling EXCEPT ![k] = v] /\ v.await # "targets"
    BY <1>2, EnterToolMoves
  <2>2. handling'[k] = v /\ \A l \in Busy' \ {k} : l \in Busy /\ handling'[l] = handling[l]
    BY <2>1 DEF ToolsTypeOK, Busy
  <2>3. UNCHANGED <<tracker, synced>> /\ troubled \subseteq troubled'
    BY <1>2 DEF EnterTool, Enters
  <2>4. QED
    BY <2>1, <2>2, <2>3, SyncKept
<1>3. ASSUME NEW k \in Handler, NEW c \in ToolRequest, EnterSync(k, c) PROVE SyncInv'
  BY <1>3, SyncEnter
<1>4. ASSUME NEW k \in Handler,
             Show(k) \/ Command(k) \/ CommandFails(k) \/ SyncAnswered(k)
             \/ (\E launched \in BOOLEAN : RecordAndReview(k, launched))
      PROVE  SyncInv'
  <2>1. /\ UNCHANGED <<tracker, synced>> /\ troubled \subseteq troubled'
        /\ \A l \in Handler \ {k} : handling'[l] = handling[l]
        /\ handling'[k] = Free \/ handling'[k].await # "targets"
    <3>1. CASE Show(k) \/ Command(k)
      BY <3>1, ShowMoves, CommandMoves
    <3>2. CASE CommandFails(k) \/ \E launched \in BOOLEAN : RecordAndReview(k, launched)
      BY <3>2, CommandFailsMoves, RecordMoves
    <3>3. CASE SyncAnswered(k)
      BY <3>3, SyncAnsweredMoves
    <3>4. QED
      BY <1>4, <3>1, <3>2, <3>3
  <2>2. \A l \in Busy' : handling'[l].await = "targets" => l \in Busy /\ handling'[l] = handling[l]
    BY <2>1 DEF Busy
  <2>3. QED
    BY <2>1, <2>2, SyncKept
<1>5. ASSUME NEW k \in Handler, NEW t \in Target, NEW good \in BOOLEAN, TargetAnswers(k, t, good)
      PROVE  SyncInv'
  BY <1>5, SyncReached
<1>6. CASE OthersChange \/ UNCHANGED toolVars
  BY <1>6 DEF OthersChange, toolVars, SyncInv, Busy
<1>7. CASE RestartServer
  BY <1>7, RestartMoves DEF RestartServer, SyncInv, NoRuns
<1>8. QED
  BY <1>1, <1>2, <1>3, <1>4, <1>5, <1>6, <1>7 DEF ToolsNext, Answering
-----------------------------------------------------------------------------
ToolsInv == ToolsTypeOK /\ RivalsKnown /\ ReviewInv /\ SyncInv

LEMMA ToolsInitInv == ToolsInit => ToolsInv /\ AppliedInv
<1> SUFFICES ASSUME ToolsInit PROVE ToolsInv /\ AppliedInv
  OBVIOUS
<1>1. ForgetfulEntry \in Entry /\ NoRuns \in [seen : SUBSET Key, again : SUBSET Key]
  BY DEF ForgetfulEntry, Entry, NoRuns
<1>2. Busy = {}
  BY DEF ToolsInit, Busy
<1>3. ToolsTypeOK
  BY <1>1, <1>2 DEF ToolsInit, ToolsTypeOK
<1>4. RivalsKnown /\ ReviewInv /\ SyncInv
  BY <1>2 DEF ToolsInit, RivalsKnown, ReviewInv, ReviewFor, PendingReview, Awaiting, Unclosed, CloseKeys, Key, SyncInv, NoRuns
<1>5. AppliedInv
  BY <1>2 DEF ToolsInit, AppliedInv
<1>6. QED
  BY <1>3, <1>4, <1>5 DEF ToolsInv

LEMMA ToolsInvariant == ToolsSpec => []ToolsInv
<1>1. ToolsInv /\ [ToolsNext]_toolVars => ToolsInv'
  <2> SUFFICES ASSUME ToolsInv, [ToolsNext]_toolVars PROVE ToolsInv'
    OBVIOUS
  <2>1. ToolsTypeOK' /\ RivalsKnown' /\ SyncInv'
    BY ToolsTypeStep, RivalsStep, SyncStep DEF ToolsInv
  <2>2. ReviewInv'
    BY <2>1, ReviewStep DEF ToolsInv
  <2>3. QED
    BY <2>1, <2>2 DEF ToolsInv
<1>2. QED
  BY <1>1, ToolsInitInv, PTL DEF ToolsSpec

(* No repeated, skipped or overlapping call applies a change twice or is told   *)
(* of a change nobody made (idempotentResult, recordIdempotency), as long as    *)
(* dry runs have keys of their own; a key counts unless its call failed or      *)
(* overlapped a rival.                                                         *)
THEOREM ChangesApplyOnce ==
  ASSUME PreviewsApart
  PROVE  ToolsSpec => []AppliedOnce
<1>1. ToolsInv /\ AppliedInv /\ [ToolsNext]_toolVars => AppliedInv'
  BY AppliedStep DEF ToolsInv
<1>2. AppliedInv => AppliedOnce
  BY DEF AppliedInv, AppliedOnce
<1>3. QED
  BY <1>1, <1>2, ToolsInitInv, ToolsInvariant, PTL DEF ToolsSpec

(* A review is launched for a closing of the bead by the tool, and one for each *)
(* unless it was switched off, denied or failed (ciclo_close_work,             *)
(* launchTaskReviewSession): under every key whose calls have been answered,   *)
(* none failed, overlapped a rival or was overtaken by somebody else's close.  *)
THEOREM ClosingsAreReviewed == ToolsSpec => []ReviewedOnce
<1>1. ToolsInv => ReviewedOnce
  <2> SUFFICES ASSUME ToolsInv, NEW key \in CloseKeys \ (troubled \cup overtaken), ~UnderWay(key)
               PROVE  /\ reviews[key] <= closings[key]
                      /\ key \notin unreviewed => reviews[key] = closings[key]
    BY DEF ReviewedOnce
  <2>1. ~PendingReview(key)
    BY DEF PendingReview, UnderWay
  <2>2. ReviewFor(key) /\ key \in Key
    BY DEF ToolsInv, ReviewInv, CloseKeys, Key
  <2>3. closings[key] \in Nat /\ reviews[key] \in Nat
    BY <2>2 DEF ToolsInv, ToolsTypeOK
  <2>4. QED
    BY <2>1, <2>2, <2>3 DEF ReviewFor
<1>2. QED
  BY <1>1, ToolsInvariant, PTL

(* A sync repeated because one target failed leaves the targets it reached     *)
(* alone (triggerTarget), for any number of targets and syncs, unless syncs    *)
(* overlapped.                                                                 *)
THEOREM TargetsAreReachedOnce == ToolsSpec => []TargetsReachedOnce
<1>1. ToolsInv => TargetsReachedOnce
  BY DEF ToolsInv, SyncInv, TargetsReachedOnce
<1>2. QED
  BY <1>1, ToolsInvariant, PTL
================================================================================
