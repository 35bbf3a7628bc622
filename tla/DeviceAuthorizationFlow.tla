------------------------ MODULE DeviceAuthorizationFlow ------------------------
(***************************************************************************)
(* The device-code login of auth-device-flow.ts: a client starts it, a     *)
(* user approves or denies it somewhere else, and the client polls until   *)
(* it is handed its tokens, once.  Records live in one process's memory;   *)
(* only a record whose tokens were issued is ever deleted.                 *)
(***************************************************************************)
EXTENDS Naturals

CONSTANTS
    Device,          \* device codes that may be drawn
    Client,          \* principals that approve
    NoOne,           \* no principal
    CodeTtl,         \* lifetime of a device code
    PollInterval,    \* the interval a client is told at first
    SlowDown,        \* what an early poll adds to it
    MaxTime          \* bound on the clock
ASSUME DeviceAssumption ==
    /\ NoOne \notin Client
    /\ CodeTtl \in Nat /\ PollInterval \in Nat /\ SlowDown \in Nat /\ MaxTime \in Nat

VARIABLES now, device

Unstarted == [status |-> "unstarted", by |-> NoOne, expiresAt |-> 0,
              interval |-> 0, polled |-> {}]
DeviceStatus == {"unstarted", "pending", "approved", "denied", "expired", "issued"}

\* "polled" holds the time of the last poll, when there was one.
DeviceTypeOK ==
    /\ now \in 0..MaxTime
    /\ device \in [Device -> [status : DeviceStatus, by : Client \cup {NoOne},
            expiresAt : Nat, interval : Nat, polled : SUBSET (0..MaxTime)]]

CodeExpired(d) == now >= device[d].expiresAt
Known(d) == device[d].status \notin {"unstarted", "issued"}

DeviceStart(d) ==
    /\ device[d].status = "unstarted"
    /\ device' = [device EXCEPT ![d] = [status |-> "pending", by |-> NoOne,
            expiresAt |-> now + CodeTtl, interval |-> PollInterval, polled |-> {}]]

\* approve() and deny() change nothing unless the record is pending in time.
DeviceApprove(d, c) ==
    /\ device[d].status = "pending" /\ ~CodeExpired(d)
    /\ device' = [device EXCEPT ![d].status = "approved", ![d].by = c]

DeviceDeny(d) ==
    /\ device[d].status = "pending" /\ ~CodeExpired(d)
    /\ device' = [device EXCEPT ![d].status = "denied"]

PolledEarly(d) == \E t \in device[d].polled : now - t < device[d].interval

\* The tokens are due: approved, in time, and not polled too early.
TokensDue(d) ==
    /\ Known(d) /\ ~CodeExpired(d) /\ ~PolledEarly(d)
    /\ device[d].status = "approved"

\* An interval beyond the bound on the clock is as good as any longer one.
Lengthened(interval) == IF interval > MaxTime THEN interval ELSE interval + SlowDown

\* The record of a device whose tokens were issued is not deleted.
BugRecordStays(d) ==
    CASE ~Known(d) -> device
      [] Known(d) /\ CodeExpired(d) -> [device EXCEPT ![d].status = "expired"]
      [] OTHER -> [device EXCEPT ![d].polled = {now}]
\* poll(): what it leaves of the record.
Polled(d) ==
    CASE ~Known(d) -> device
      [] Known(d) /\ CodeExpired(d) -> [device EXCEPT ![d].status = "expired"]
      [] Known(d) /\ ~CodeExpired(d) /\ PolledEarly(d) ->
            [device EXCEPT ![d].interval = Lengthened(@), ![d].polled = {now}]
      [] TokensDue(d) -> [device EXCEPT ![d].status = "issued"]
      [] OTHER -> [device EXCEPT ![d].polled = {now}]
=============================================================================
