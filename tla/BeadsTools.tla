------------------------------- MODULE BeadsTools -------------------------------
(***************************************************************************)
(* The MCP tools that change a bead: ciclo_claim_work, ciclo_update_work,   *)
(* ciclo_close_work with the review it starts, and the smart compaction of  *)
(* context into a note (mcp-stdio.ts, beads-work-queue.ts,                  *)
(* beads-progress.ts, context-compaction.ts, task-review-session.ts); and   *)
(* ciclo_sync_remote_trackers (beads-tracker-sync.ts).                      *)
(*                                                                          *)
(* The HTTP server handles requests as they come, each in a thread of its   *)
(* own that yields at every call of bd.  A call that took effect leaves its *)
(* idempotency key in a table in memory, and a call whose key is there is   *)
(* answered without doing anything.  The trackers keep keys of their own.   *)
(***************************************************************************)
EXTENDS Naturals, FiniteSets, PolicyGate

CONSTANTS
    Handler,       \* requests that may be under way at once
    ToolRequest,       \* the calls that clients make, see RequestFields
    Target,        \* remote trackers configured
    RequiredTarget,   \* those whose failure fails the whole sync
    StatusTarget,  \* those with a command for dry runs
    NoRequest,
    MaxRequests, MaxFaults     \* bounds on calls, and on failures and restarts

RequestFields == [tool : {"claim", "update", "compact", "close", "sync"},
                  key : STRING, policy : [action : PolicyAction, dryRun : BOOLEAN,
                        evidence : BOOLEAN, deterministic : BOOLEAN, command : STRING],
                  preview : BOOLEAN, force : BOOLEAN, review : BOOLEAN]
ASSUME ToolsAssumption ==
    /\ \A c \in ToolRequest : c \in RequestFields
    /\ NoRequest \notin ToolRequest /\ MaxRequests \in Nat /\ MaxFaults \in Nat
    /\ RequiredTarget \subseteq Target /\ StatusTarget \subseteq Target

VARIABLES
    bead,        \* status of the bead
    keys,        \* mutationIdempotencyStore
    tracker,     \* state of each target: consecutive failures, completed keys
    handling,    \* the request of each handler, and what it awaits
    requests, faults,
    applied,     \* history: applied[key], times its effect was reached
    troubled,    \* history: keys of calls that failed or overlapped a rival
    misled,      \* history: keys answered as recorded without any effect
    closings, reviews,   \* history: by key, times it was closed, reviews launched
    overtaken,   \* history: keys of calls that others closed the bead before
    unreviewed,  \* history: keys of closings that were left without a review
    synced       \* history: synced[t]: keys t was synced under; twice in again
reviewVars == <<reviews, overtaken, unreviewed>>
toolVars == <<bead, keys, tracker, handling, requests, faults, applied,
              troubled, misled, closings, reviewVars, synced>>

Key == {c.key : c \in ToolRequest}
NoRuns == [seen |-> {}, again |-> {}]
ForgetfulEntry == [retries |-> 0, done |-> {}]
Free == [call |-> NoRequest, await |-> "none", read |-> <<>>, todo |-> {}, ok |-> {}]
Busy == {k \in Handler : handling[k] # Free}

ToolsInit ==
    /\ bead = "open" /\ keys = {}
    /\ tracker = [t \in Target |-> ForgetfulEntry]
    /\ handling = [k \in Handler |-> Free]
    /\ requests = 0 /\ faults = 0
    /\ applied = [key \in Key |-> 0] /\ troubled = {} /\ misled = {}
    /\ closings = [key \in Key |-> 0] /\ reviews = [key \in Key |-> 0]
    /\ overtaken = {} /\ unreviewed = {} /\ synced = [t \in Target |-> NoRuns]

Await(k, what) == handling' = [handling EXCEPT ![k].await = what]
Answer(k) == handling' = [handling EXCEPT ![k] = Free]

-----------------------------------------------------------------------------
\* Calls of the same tool, for there is one bead, or under the same key.
Rivals(c) == {k \in Busy : handling[k].call.tool = c.tool \/ handling[k].call.key = c.key}

Arrives(k, c) ==
    /\ k \notin Busy /\ requests < MaxRequests
    /\ requests' = requests + 1

\* The answer "already recorded".
SkipRecorded(k, c) ==
    /\ Arrives(k, c) /\ c.key \in keys
    /\ misled' = IF applied[c.key] = 0 /\ ~c.preview THEN misled \cup {c.key} ELSE misled
    /\ UNCHANGED <<bead, keys, tracker, handling, faults, applied, troubled,
                   closings, reviewVars, synced>>

\* Authorization, empty messages and the policy: nothing is touched.
Refuse(k, c) ==
    /\ Arrives(k, c) /\ c.key \notin keys /\ EvaluatePolicy(c.policy) # "allow"
    /\ UNCHANGED <<bead, keys, tracker, handling, faults, applied, troubled,
                   misled, closings, reviewVars, synced>>

Enters(k, c) ==
    /\ Arrives(k, c) /\ c.key \notin keys /\ EvaluatePolicy(c.policy) = "allow"
    /\ troubled' = troubled \cup {handling[r].call.key : r \in Rivals(c)}
                            \cup (IF Rivals(c) = {} THEN {} ELSE {c.key})
    /\ UNCHANGED <<bead, keys, tracker, faults, applied, misled, closings, reviewVars, synced>>

FirstAwait == [claim |-> "ready", update |-> "note", compact |-> "note", close |-> "show"]
EnterTool(k, c) ==
    /\ c.tool # "sync" /\ Enters(k, c)
    /\ handling' = [handling EXCEPT ![k] = [Free EXCEPT !.call = c, !.await = FirstAwait[c.tool]]]

-----------------------------------------------------------------------------
(* The calls of bd, in order.  What they await is in handling[k].await.     *)
Stays(k) == UNCHANGED <<tracker, requests, misled, synced>>

Fits(c) == IF c.tool = "claim" THEN bead = "open" ELSE bead # "closed"
AfterShow == [claim |-> "claim", close |-> "note"]

\* A task that is closed is closed once more.
BugNoRecheck(k) ==
    LET h == handling[k] IN
    /\ h.await \in {"ready", "show"}
    /\ Await(k, IF h.await = "ready" THEN "show" ELSE AfterShow[h.call.tool])
    /\ Stays(k) /\ UNCHANGED <<bead, keys, faults, applied, troubled, closings, reviewVars>>

\* show, which a claim does twice: once as its list of ready work.
Show(k) ==
    LET h == handling[k] IN
    /\ h.await \in {"ready", "show"}
    /\ IF ~Fits(h.call) THEN Answer(k)
       ELSE Await(k, IF h.await = "ready" THEN "show" ELSE AfterShow[h.call.tool])
    /\ Stays(k) /\ UNCHANGED <<bead, keys, faults, applied, troubled, closings, reviewVars>>

\* What the awaited command does to the bead when bd carries it out.
CarriedOut(k) ==
    LET h == handling[k] IN
    /\ h.await = "claim" => bead = "open"
    /\ bead' = CASE h.await = "claim" -> "in_progress"
                 [] h.await = "close" -> "closed" [] OTHER -> bead
    /\ applied' = IF h.await = "note" THEN [applied EXCEPT ![h.call.key] = @ + 1] ELSE applied
    /\ closings' = IF h.await = "close" /\ bead # "closed"
                   THEN [closings EXCEPT ![h.call.key] = @ + 1] ELSE closings

Following(c, await) ==
    CASE await = "claim" -> "note"
      [] await = "note" /\ c.tool = "close" -> "close"
      [] await = "note" /\ c.tool # "close" -> IF c.tool = "claim" THEN "record" ELSE "push"
      [] await = "close" -> "push"
      [] await = "push" -> "record"

BdCommands == {"claim", "note", "close", "push"}
Command(k) ==
    /\ handling[k].await \in BdCommands
    /\ CarriedOut(k)
    /\ Await(k, Following(handling[k].call, handling[k].await))
    /\ Stays(k) /\ UNCHANGED <<keys, faults, troubled, reviewVars>>

\* bd fails or is given up: the handler throws, with or without an effect.
CommandFails(k) ==
    /\ handling[k].await \in BdCommands \cup {"ready", "show"} /\ faults < MaxFaults
    /\ \/ handling[k].await \in BdCommands /\ CarriedOut(k)
       \/ UNCHANGED <<bead, applied, closings>>
    /\ Answer(k)
    /\ troubled' = troubled \cup {handling[k].call.key}
    /\ faults' = faults + 1
    /\ Stays(k) /\ UNCHANGED <<keys, reviewVars>>

Reviewed(k, launched) ==
    LET h == handling[k] IN
    /\ launched => h.call.tool = "close" /\ h.call.review
    /\ reviews' = IF launched THEN [reviews EXCEPT ![h.call.key] = @ + 1] ELSE reviews
    /\ unreviewed' = IF h.call.tool = "close" /\ ~launched
                     THEN unreviewed \cup {h.call.key} ELSE unreviewed

\* The key is forgotten.
BugKeyNotRecorded(k, launched) ==
    /\ handling[k].await = "record"
    /\ Reviewed(k, launched)
    /\ Answer(k)
    /\ Stays(k) /\ UNCHANGED <<bead, keys, faults, applied, troubled, closings, overtaken>>

\* Without an await in between: the key, and a review of what was closed.  The
\* review is not launched when the request says so, the client may not send
\* prompts or there is no supervisor, nor when the event log or the launch
\* throws: the key is recorded by then.
RecordAndReview(k, launched) ==
    /\ handling[k].await = "record"
    /\ keys' = keys \cup {handling[k].call.key}
    /\ Reviewed(k, launched)
    /\ Answer(k)
    /\ Stays(k) /\ UNCHANGED <<bead, faults, applied, troubled, closings, overtaken>>

-----------------------------------------------------------------------------
(* Remote trackers: every target has read its entry before the first await, *)
(* and all are run at once.                                                 *)
Runs(c, t, entry) ==
    /\ c.force \/ c.key \notin entry.done
    /\ c.preview => t \in StatusTarget

\* Targets run whatever they have completed.
BugAllTargetsRun(k, c) ==
    /\ c.tool = "sync" /\ Enters(k, c)
    /\ handling' = [handling EXCEPT ![k] = [call |-> c, await |-> "targets",
            read |-> tracker, todo |-> Target, ok |-> {}]]

EnterSync(k, c) ==
    /\ c.tool = "sync" /\ Enters(k, c)
    /\ handling' = [handling EXCEPT ![k] = [call |-> c, await |-> "targets",
            read |-> tracker, todo |-> {t \in Target : Runs(c, t, tracker[t])}, ok |-> {}]]

Reached(c, t) == [seen |-> synced[t].seen \cup {c.key},
                  again |-> synced[t].again \cup ({c.key} \cap synced[t].seen)]

\* The entry is written from what was read before the await.
TargetAnswers(k, t, good) ==
    LET h == handling[k] IN
    /\ h.await = "targets" /\ t \in h.todo /\ (good \/ faults < MaxFaults)
    /\ tracker' = [tracker EXCEPT ![t] =
            IF good THEN [retries |-> 0, done |-> h.read[t].done \cup {h.call.key}]
            ELSE [h.read[t] EXCEPT !.retries = @ + 1]]
    /\ synced' = IF good /\ ~h.call.preview /\ ~h.call.force
                 THEN [synced EXCEPT ![t] = Reached(h.call, t)] ELSE synced
    /\ handling' = [handling EXCEPT ![k].todo = @ \ {t},
                                    ![k].ok = IF good THEN @ \cup {t} ELSE @]
    /\ faults' = IF good THEN faults ELSE faults + 1
    /\ UNCHANGED <<bead, keys, requests, applied, troubled, misled, closings, reviewVars>>

RequiredFailed(h) ==
    \E t \in RequiredTarget : Runs(h.call, t, h.read[t]) /\ t \notin h.ok
Completed(h) == ~h.call.preview /\ h.ok # {} /\ ~RequiredFailed(h)

SyncAnswered(k) ==
    LET h == handling[k] IN
    /\ h.await = "targets" /\ h.todo = {}
    /\ keys' = IF h.call.preview \/ Completed(h) THEN keys \cup {h.call.key} ELSE keys
    /\ applied' = IF Completed(h) THEN [applied EXCEPT ![h.call.key] = @ + 1] ELSE applied
    /\ Answer(k)
    /\ Stays(k) /\ UNCHANGED <<bead, faults, troubled, closings, reviewVars>>

-----------------------------------------------------------------------------
(* Others claim the bead, reopen it or close it, before or after a call has *)
(* looked at it; the process ends and another starts with empty tables, a   *)
(* life of its own for the histories.                                       *)
Unclosed == {k \in Busy : handling[k].call.tool = "close" /\ handling[k].await \in {"note", "close"}}
OthersChange ==
    /\ bead' \in {"open", "in_progress", "closed"} \ {bead}
    /\ overtaken' = IF bead' = "closed" THEN overtaken \cup {handling[k].call.key : k \in Unclosed}
                    ELSE overtaken
    /\ UNCHANGED <<keys, tracker, handling, requests, faults, applied, troubled,
                   misled, closings, reviews, unreviewed, synced>>

RestartServer ==
    /\ faults < MaxFaults /\ faults' = faults + 1
    /\ keys' = {} /\ tracker' = [t \in Target |-> ForgetfulEntry]
    /\ handling' = [k \in Handler |-> Free]
    /\ applied' = [key \in Key |-> 0] /\ troubled' = {} /\ misled' = {}
    /\ closings' = [key \in Key |-> 0] /\ reviews' = [key \in Key |-> 0]
    /\ overtaken' = {} /\ unreviewed' = {} /\ synced' = [t \in Target |-> NoRuns]
    /\ UNCHANGED <<bead, requests>>

ToolsNext ==
    \/ \E k \in Handler, c \in ToolRequest :
        SkipRecorded(k, c) \/ Refuse(k, c) \/ EnterTool(k, c) \/ EnterSync(k, c)
    \/ \E k \in Handler :
        Show(k) \/ Command(k) \/ CommandFails(k) \/ SyncAnswered(k)
    \/ \E k \in Handler, launched \in BOOLEAN : RecordAndReview(k, launched)
    \/ \E k \in Handler, t \in Target, good \in BOOLEAN : TargetAnswers(k, t, good)
    \/ OthersChange \/ RestartServer

ToolsSpec == ToolsInit /\ [][ToolsNext]_toolVars

-----------------------------------------------------------------------------
(* A client that repeats a call after its answer does not repeat its effect, *)
(* whatever other calls, claims and reopenings come in between: no key is    *)
(* applied twice in the life of a process, unless the call failed or was     *)
(* repeated before it was answered; and "skipped because the key was already *)
(* recorded" is only ever said of a change that was made (idempotentResult,  *)
(* recordIdempotency).                                                       *)
AppliedOnce == misled = {} /\ \A key \in Key \ troubled : applied[key] <= 1

(* A review session is launched for a closing, and one for each: not for a   *)
(* close that is refused or skipped, nor for one that finds the bead closed, *)
(* however calls, reopenings and closings by others are interleaved.  Under  *)
(* every key there are as many reviews as closings, save the closings whose  *)
(* review was switched off or denied or could not be launched.  Calls that   *)
(* failed or overlapped, and those that somebody else overtook between       *)
(* bd show and bd close, which are reviewed though they closed nothing, do   *)
(* not count (ciclo_close_work, closeBeadsTaskWithPolicy,                    *)
(* launchTaskReviewSession).                                                 *)
CloseKeys == {c.key : c \in {d \in ToolRequest : d.tool = "close"}}
UnderWay(key) == \E k \in Busy : handling[k].call.key = key
ReviewedOnce ==
    \A key \in CloseKeys \ (troubled \cup overtaken) : ~UnderWay(key) =>
        /\ reviews[key] <= closings[key]
        /\ key \notin unreviewed => reviews[key] = closings[key]

(* A sync repeated because one target failed leaves alone the targets that   *)
(* it had reached (triggerTarget), unless syncs overlapped.                  *)
TargetsReachedOnce == \A t \in Target : synced[t].again \subseteq troubled
=============================================================================
