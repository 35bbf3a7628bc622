--------------------------- MODULE ClientAccessProofs ---------------------------
(***************************************************************************)
(* Proofs about ClientAccess: its types, that the device flow and the        *)
(* registry implement ClientLogin (for which a login must have one live      *)
(* token set at most), and that the walks over the grants agree.            *)
(***************************************************************************)
EXTENDS ClientAccess, FiniteSetTheorems, TLAPS

IssuedSet == [status : {"stored", "revoked"}, principal : Client, device : Device,
              expiresAt : Nat, refreshExpiresAt : Nat]
DeviceRecord == [status : DeviceStatus, by : Client \cup {NoOne}, expiresAt : Nat,
                 interval : Nat, polled : SUBSET (0..MaxTime)]

LEMMA TokenSetIssued ==
  ASSUME TypeOK, NEW c \in Client, NEW d \in Device
  PROVE  TokenSet(c, d) \in IssuedSet
BY TokenAssumption DEF TypeOK, DeviceTypeOK, TokenSet, IssuedSet

LEMMA FreshOrIssued ==
  ASSUME TypeOK, NEW t \in Token
  PROVE  /\ token[t] \in IssuedSet \cup {Unissued}
         /\ Fresh(t) <=> token[t] = Unissued
         /\ ~Fresh(t) <=> token[t] \in IssuedSet
BY DEF TypeOK, TokenTypeOK, IssuedSet, Fresh, Unissued

LEMMA PolledTyped ==
  ASSUME TypeOK, NEW d \in Device
  PROVE  Polled(d) \in [Device -> DeviceRecord]
<1>1. device \in [Device -> DeviceRecord] /\ now \in 0..MaxTime
  BY DEF TypeOK, DeviceTypeOK, DeviceRecord
<1>2. Lengthened(device[d].interval) \in Nat
  BY <1>1, DeviceAssumption DEF DeviceRecord, Lengthened
<1>3. /\ [device[d] EXCEPT !.status = "expired"] \in DeviceRecord
      /\ [device[d] EXCEPT !.status = "issued"] \in DeviceRecord
      /\ [device[d] EXCEPT !.polled = {now}] \in DeviceRecord
      /\ [device[d] EXCEPT !.interval = Lengthened(@), !.polled = {now}] \in DeviceRecord
  BY <1>1, <1>2 DEF DeviceRecord, DeviceStatus
<1>4. \/ Polled(d) = device
      \/ \E r \in DeviceRecord : Polled(d) = [device EXCEPT ![d] = r]
  BY <1>1, <1>3 DEF Polled, TokensDue
<1>5. QED
  BY <1>1, <1>4

(* Tokens of a login exist exactly when they were issued, they name the one    *)
(* who approved it, and one set at most is stored.                            *)
OneLiveSet ==
    \A d \in Device : \A t, u \in Chain(d) :
        token[t].status = "stored" /\ token[u].status = "stored" => t = u
Named(d) ==
    /\ device[d].status \in {"unstarted", "pending"} => approver[d] = NoOne
    /\ device[d].status = "approved" => device[d].by \in Client /\ approver[d] = device[d].by
    /\ \A t \in Chain(d) : token[t].principal = approver[d]
LoginInv ==
    /\ TypeOK
    /\ \A d \in Device : Named(d) /\ (Chain(d) # {} <=> device[d].status = "issued")
    /\ OneLiveSet

TokensKept == UNCHANGED token
Grows(d) ==   \* the poll that hands out the first set of login d
    /\ device' = [device EXCEPT ![d].status = "issued"] /\ device[d].status = "approved"
    /\ \E t \in Token : Fresh(t) /\ token' = [token EXCEPT ![t] = TokenSet(device[d].by, d)]
Closes(d) ==  \* denied, or polled too late
    /\ device[d].status \in {"pending", "approved", "denied", "expired"}
    /\ \E s \in {"denied", "expired"} : device' = [device EXCEPT ![d].status = s]
Repolled(d) ==  \* another poll that changes no status
    \E r \in DeviceRecord : /\ device' = [device EXCEPT ![d] = r]
                            /\ r.status = device[d].status /\ r.by = device[d].by

(* What a poll does to the record and the tokens. *)
LEMMA PollEffect ==
  ASSUME LoginInv, NEW d \in Device, Poll(d)
  PROVE  \/ Grows(d)
         \/ TokensKept /\ (device' = device \/ Closes(d) \/ Repolled(d))
<1>1. device \in [Device -> DeviceRecord] /\ now \in 0..MaxTime
  BY DEF LoginInv, TypeOK, DeviceTypeOK, DeviceRecord
<1>2. CASE TokensDue(d)
  BY <1>1, <1>2 DEF Poll, Polled, TokensDue, Grows
<1>3. CASE ~TokensDue(d) /\ Known(d) /\ CodeExpired(d)
  BY <1>1, <1>3 DEF Poll, Polled, Known, Closes, TokensKept, DeviceRecord, DeviceStatus
<1>4. CASE ~TokensDue(d) /\ Known(d) /\ ~CodeExpired(d)
  <2>1. Lengthened(device[d].interval) \in Nat
    BY <1>1, DeviceAssumption DEF DeviceRecord, Lengthened
  <2>2. device' \in {[device EXCEPT ![d].interval = Lengthened(@), ![d].polled = {now}],
                     [device EXCEPT ![d].polled = {now}]}
    BY <1>4 DEF Poll, Polled
  <2> DEFINE R == {[device[d] EXCEPT !.interval = Lengthened(@), !.polled = {now}],
                   [device[d] EXCEPT !.polled = {now}]}
  <2>3. \A r \in R : /\ r \in DeviceRecord
                     /\ r.status = device[d].status /\ r.by = device[d].by
    BY <1>1, <2>1 DEF DeviceRecord
  <2>4. \E r \in R : device' = [device EXCEPT ![d] = r]
    BY <1>1, <2>2
  <2>5. QED
    BY <1>4, <2>3, <2>4 DEF Poll, Repolled, TokensKept
<1>5. CASE ~Known(d)
  BY <1>5 DEF Poll, Polled, TokensDue, TokensKept
<1>6. QED
  BY <1>2, <1>3, <1>4, <1>5

(* How the chains change. *)
LEMMA ChainsAfterNew ==
  ASSUME TypeOK, NEW t \in Token, Fresh(t), NEW r \in IssuedSet,
         token' = [token EXCEPT ![t] = r]
  PROVE  /\ \A d : Chain(d)' = IF d = r.device THEN Chain(d) \cup {t} ELSE Chain(d)
         /\ t \notin Chain(r.device)
<1>1. token \in [Token -> IssuedSet \cup {Unissued}]
  BY DEF TypeOK, TokenTypeOK, IssuedSet
<1>2. /\ token'[t] = r /\ r.status # "unissued"
      /\ \A u \in Token \ {t} : token'[u] = token[u]
  BY <1>1 DEF IssuedSet
<1>3. QED
  BY <1>2 DEF Chain, Fresh

LEMMA ChainsAfterRevoke ==
  ASSUME TypeOK, NEW t \in Token, Revoke(t)
  PROVE  /\ \A d : Chain(d)' = Chain(d)
         /\ \A u \in Token : token'[u].principal = token[u].principal
         /\ \A u \in Token : u # t => token'[u].status = token[u].status
         /\ token[t] \in IssuedSet /\ token'[t].status = "revoked"
         /\ token' \in [Token -> IssuedSet \cup {Unissued}]
<1>1. token \in [Token -> IssuedSet \cup {Unissued}]
  BY DEF TypeOK, TokenTypeOK, IssuedSet
<1>2. token[t] \in IssuedSet
  BY <1>1 DEF Revoke, Unissued
<1> DEFINE r == [token[t] EXCEPT !.status = "revoked"]
<1>3. /\ r \in IssuedSet /\ r.status = "revoked" /\ r.device = token[t].device
      /\ r.principal = token[t].principal /\ token[t].status # "unissued"
  BY <1>2 DEF IssuedSet
<1>4. token' = [token EXCEPT ![t] = r]
  BY <1>1 DEF Revoke
<1> HIDE DEF r
<1>5. /\ token'[t] = r
      /\ \A u \in Token \ {t} : token'[u] = token[u]
      /\ token' \in [Token -> IssuedSet \cup {Unissued}]
  BY <1>1, <1>3, <1>4
<1>6. \A d : Chain(d)' = Chain(d)
  BY <1>3, <1>5 DEF Chain, Fresh, IssuedSet
<1>7. QED
  BY <1>2, <1>3, <1>5, <1>6

LEMMA ChainsAfterRefresh ==
  ASSUME TypeOK, NEW t \in Token, NEW new \in Token, Refresh(t, new)
  PROVE  /\ token[t] \in IssuedSet /\ token[t].status = "stored" /\ t # new
         /\ \A d : Chain(d)' = IF d = token[t].device THEN Chain(d) \cup {new} ELSE Chain(d)
         /\ t \in Chain(token[t].device) /\ new \notin Chain(token[t].device)
         /\ token'[new] = TokenSet(token[t].principal, token[t].device)
         /\ token'[t].status = "revoked"
         /\ \A u \in Token \ {new} : token'[u].principal = token[u].principal
         /\ \A u \in Token \ {t, new} : token'[u] = token[u]
         /\ token' \in [Token -> IssuedSet \cup {Unissued}]
<1>1. token \in [Token -> IssuedSet \cup {Unissued}]
  BY DEF TypeOK, TokenTypeOK, IssuedSet
<1>2. token[t] \in IssuedSet /\ token[t].status = "stored" /\ t # new
  BY <1>1 DEF Refresh, Refreshable, Unissued, Fresh
<1> DEFINE r == [token[t] EXCEPT !.status = "revoked"]
           n == TokenSet(token[t].principal, token[t].device)
<1>3. /\ r \in IssuedSet /\ r.status = "revoked" /\ r.device = token[t].device
      /\ r.principal = token[t].principal
  BY <1>2 DEF IssuedSet
<1>4. n \in IssuedSet /\ n.device = token[t].device
  BY <1>2, TokenSetIssued DEF TokenSet, IssuedSet
<1>5. token' = [token EXCEPT ![new] = n, ![t] = r]
  BY <1>1, <1>2 DEF Refresh
<1> HIDE DEF r, n
<1>6. /\ token'[t] = r /\ token'[new] = n
      /\ \A u \in Token \ {t, new} : token'[u] = token[u]
      /\ token' \in [Token -> IssuedSet \cup {Unissued}]
  BY <1>1, <1>2, <1>3, <1>4, <1>5
<1>7. token[t].status # "unissued" /\ r.status # "unissued" /\ n.status # "unissued"
  BY <1>2, <1>3, <1>4 DEF IssuedSet
<1>8. Fresh(new)
  BY DEF Refresh
<1>9. /\ \A d : Chain(d)' = IF d = token[t].device THEN Chain(d) \cup {new} ELSE Chain(d)
      /\ t \in Chain(token[t].device) /\ new \notin Chain(token[t].device)
  BY <1>2, <1>3, <1>4, <1>6, <1>7, <1>8 DEF Chain, Fresh
<1>10. QED
  BY <1>2, <1>3, <1>6, <1>9 DEF n

LEMMA LoginInit == Init => LoginInv
<1> SUFFICES ASSUME Init PROVE LoginInv
  OBVIOUS
<1>1. TypeOK
  BY DeviceAssumption DEF Init, TypeOK, DeviceTypeOK, TokenTypeOK, Unstarted, DeviceStatus, Unissued
<1>2. \A d : Chain(d) = {}
  BY DEF Init, Chain, Fresh, Unissued
<1>3. \A d \in Device : Named(d) /\ device[d].status = "unstarted"
  BY <1>2 DEF Init, Named, Unstarted
<1>4. QED
  BY <1>1, <1>2, <1>3 DEF LoginInv, OneLiveSet

LEMMA TypeStep ==
  ASSUME LoginInv, Next
  PROVE  TypeOK'
<1>1. /\ TypeOK /\ device \in [Device -> DeviceRecord] /\ now \in 0..MaxTime /\ MaxTime \in Nat
      /\ token \in [Token -> IssuedSet \cup {Unissued}]
      /\ approver \in [Device -> Client \cup {NoOne}]
  BY DeviceAssumption DEF LoginInv, TypeOK, DeviceTypeOK, DeviceRecord, TokenTypeOK, IssuedSet
<1>2. SUFFICES /\ device' \in [Device -> DeviceRecord] /\ now' \in 0..MaxTime
               /\ token' \in [Token -> IssuedSet \cup {Unissued}]
               /\ approver' \in [Device -> Client \cup {NoOne}] /\ session' = session
  BY <1>1 DEF TypeOK, DeviceTypeOK, DeviceRecord, TokenTypeOK, IssuedSet
<1>3. ASSUME NEW d \in Device, Start(d) PROVE device' \in [Device -> DeviceRecord]
  <2>1. now + CodeTtl \in Nat /\ PollInterval \in Nat
    BY <1>1, DeviceAssumption
  <2>2. QED
    BY <1>1, <1>3, <2>1 DEF Start, DeviceStart, DeviceRecord, DeviceStatus
<1>4. ASSUME NEW d \in Device, Deny(d) PROVE device' \in [Device -> DeviceRecord]
  BY <1>1, <1>4 DEF Deny, DeviceDeny, DeviceRecord, DeviceStatus
<1>5. ASSUME NEW d \in Device, NEW c \in Client, Approve(d, c)
      PROVE  device' \in [Device -> DeviceRecord]
  BY <1>1, <1>5 DEF Approve, DeviceApprove, DeviceRecord, DeviceStatus
<1>6. ASSUME NEW d \in Device, Poll(d)
      PROVE  device' \in [Device -> DeviceRecord] /\ token' \in [Token -> IssuedSet \cup {Unissued}]
  <2>1. device' \in [Device -> DeviceRecord]
    BY <1>1, <1>6, PolledTyped DEF Poll
  <2>2. CASE Grows(d)
    BY <1>1, <2>1, <2>2, TokenSetIssued DEF Grows, LoginInv, Named
  <2>3. QED
    BY <1>1, <1>6, <2>1, <2>2, PollEffect DEF TokensKept
<1>7. CASE \E d \in Device : Start(d) \/ Deny(d) \/ Poll(d)
  BY <1>1, <1>3, <1>4, <1>6, <1>7 DEF Start, Deny, Poll
<1>8. CASE \E d \in Device, c \in Client : Approve(d, c)
  BY <1>1, <1>5, <1>8 DEF Approve
<1>9. CASE \E t, new \in Token : RefreshToken(t, new)
  BY <1>1, <1>9, ChainsAfterRefresh DEF RefreshToken
<1>10. CASE \E t \in Token : RevokeToken(t)
  BY <1>1, <1>10, ChainsAfterRevoke DEF RevokeToken
<1>11. CASE Tick
  BY <1>1, <1>11 DEF Tick
<1>12. QED
  BY <1>7, <1>8, <1>9, <1>10, <1>11 DEF Next

HasLive(d) == \E t \in Chain(d) : token[t].status = "stored"
TokensSame == \A d \in Device : HasLive(d)' <=> HasLive(d)
(* Only login d changes, and it gets status s. *)
StatusBecomes(d, s) ==
    \A e \in Device : device'[e].status = IF e = d THEN s ELSE device[e].status
StatusKept == \A e \in Device : device'[e].status = device[e].status

LEMMA TokensKeptStep ==
  ASSUME LoginInv, TypeOK', TokensKept,
         \A d \in Device : device'[d].status = "issued" <=> device[d].status = "issued",
         \A d \in Device : device[d].status = "issued" => approver'[d] = approver[d],
         \A d \in Device : device'[d].status \in {"unstarted", "pending"} => approver'[d] = NoOne,
         \A d \in Device : device'[d].status = "approved"
                              => device'[d].by \in Client /\ approver'[d] = device'[d].by
  PROVE  LoginInv' /\ TokensSame
<1>1. \A d : Chain(d)' = Chain(d)
  BY DEF TokensKept, Chain, Fresh
<1>2. \A d \in Device : Chain(d) # {} <=> device[d].status = "issued"
  BY DEF LoginInv
<1>3. \A d \in Device : \A t \in Chain(d) : token'[t].principal = approver'[d]
  BY <1>2 DEF LoginInv, Named, TokensKept
<1>4. OneLiveSet'
  BY <1>1 DEF LoginInv, OneLiveSet, TokensKept
<1>5. \A d \in Device : Named(d)'
  BY <1>1, <1>3 DEF Named
<1>6. QED
  BY <1>1, <1>2, <1>4, <1>5 DEF LoginInv, TokensSame, HasLive, TokensKept

LEMMA StartStep ==
  ASSUME LoginInv, TypeOK', NEW d \in Device, Start(d)
  PROVE  /\ LoginInv' /\ TokensSame /\ UNCHANGED approver
         /\ StatusBecomes(d, "pending") /\ device[d].status = "unstarted"
<1>1. device \in [Device -> DeviceRecord] /\ TokensKept /\ approver' = approver
  BY DEF LoginInv, TypeOK, DeviceTypeOK, DeviceRecord, Start, TokensKept
<1>2. StatusBecomes(d, "pending") /\ device[d].status = "unstarted"
  BY <1>1 DEF Start, DeviceStart, StatusBecomes
<1>3. \A e \in Device \ {d} : device'[e] = device[e]
  BY <1>1 DEF Start, DeviceStart
<1>4. \A e \in Device : Named(e)
  BY DEF LoginInv
<1>5. QED
  BY <1>1, <1>2, <1>3, <1>4, TokensKeptStep DEF StatusBecomes, Named

LEMMA ApproveStep ==
  ASSUME LoginInv, TypeOK', NEW d \in Device, NEW c \in Client, Approve(d, c)
  PROVE  /\ LoginInv' /\ TokensSame /\ approver' = [approver EXCEPT ![d] = c]
         /\ StatusBecomes(d, "approved") /\ device[d].status = "pending"
<1>1. /\ device \in [Device -> DeviceRecord] /\ TokensKept
      /\ approver \in [Device -> Client \cup {NoOne}] /\ approver' = [approver EXCEPT ![d] = c]
  BY DEF LoginInv, TypeOK, DeviceTypeOK, DeviceRecord, Approve, TokensKept
<1>2. StatusBecomes(d, "approved") /\ device[d].status = "pending" /\ device'[d].by = c
  BY <1>1 DEF Approve, DeviceApprove, StatusBecomes, DeviceRecord
<1>3. \A e \in Device \ {d} : device'[e] = device[e]
  BY <1>1 DEF Approve, DeviceApprove
<1>4. \A e \in Device : Named(e)
  BY DEF LoginInv
<1>5. QED
  BY <1>1, <1>2, <1>3, <1>4, TokensKeptStep DEF StatusBecomes, Named

LEMMA ClosesStep ==
  ASSUME LoginInv, TypeOK', NEW d \in Device, Closes(d), TokensKept, UNCHANGED approver
  PROVE  /\ LoginInv' /\ TokensSame
         /\ \E s \in {"denied", "expired"} : StatusBecomes(d, s)
         /\ device[d].status \in {"pending", "approved", "denied", "expired"}
<1>1. device \in [Device -> DeviceRecord]
  BY DEF LoginInv, TypeOK, DeviceTypeOK, DeviceRecord
<1>2. PICK s \in {"denied", "expired"} : device' = [device EXCEPT ![d].status = s]
  BY DEF Closes
<1>3. StatusBecomes(d, s) /\ device[d].status \in {"pending", "approved", "denied", "expired"}
  BY <1>1, <1>2 DEF Closes, StatusBecomes, DeviceRecord
<1>4. \A e \in Device \ {d} : device'[e] = device[e]
  BY <1>1, <1>2
<1>5. \A e \in Device : Named(e)
  BY DEF LoginInv
<1>6. QED
  BY <1>1, <1>3, <1>4, <1>5, TokensKeptStep DEF StatusBecomes, Named

LEMMA QuietStep ==
  ASSUME LoginInv, TypeOK', TokensKept, UNCHANGED approver,
         device' = device \/ \E d \in Device : Repolled(d)
  PROVE  LoginInv' /\ TokensSame /\ StatusKept
<1>1. device \in [Device -> DeviceRecord]
  BY DEF LoginInv, TypeOK, DeviceTypeOK, DeviceRecord
<1>2. \A e \in Device : device'[e].status = device[e].status /\ device'[e].by = device[e].by
  BY <1>1 DEF Repolled
<1>3. \A e \in Device : Named(e)
  BY DEF LoginInv
<1>4. QED
  BY <1>2, <1>3, TokensKeptStep DEF StatusKept, Named

LEMMA GrowsStep ==
  ASSUME LoginInv, TypeOK', NEW d \in Device, Grows(d), UNCHANGED approver
  PROVE  /\ LoginInv' /\ StatusBecomes(d, "issued") /\ device[d].status = "approved"
         /\ ~HasLive(d) /\ \A e \in Device : HasLive(e)' <=> HasLive(e) \/ e = d
<1>1. TypeOK /\ device \in [Device -> DeviceRecord] /\ device[d].status = "approved"
  BY DEF LoginInv, TypeOK, DeviceTypeOK, DeviceRecord, Grows
<1> DEFINE r == TokenSet(device[d].by, d)
<1>2. PICK t \in Token : Fresh(t) /\ token' = [token EXCEPT ![t] = r]
  BY DEF Grows
<1>3. device[d].by \in Client /\ approver[d] = device[d].by /\ Chain(d) = {}
  BY <1>1 DEF LoginInv, Named
<1>4. /\ r \in IssuedSet /\ r.device = d /\ r.principal = approver[d] /\ r.status = "stored"
  BY <1>1, <1>3, TokenSetIssued DEF TokenSet
<1> HIDE DEF r
<1>5. /\ \A e : Chain(e)' = IF e = d THEN Chain(e) \cup {t} ELSE Chain(e)
  BY <1>1, <1>2, <1>4, ChainsAfterNew
<1>6. token'[t] = r /\ \A u \in Token \ {t} : token'[u] = token[u]
  BY <1>1, <1>2 DEF TypeOK, TokenTypeOK
<1>7. StatusBecomes(d, "issued") /\ \A e \in Device \ {d} : device'[e] = device[e]
  BY <1>1 DEF Grows, StatusBecomes, DeviceRecord
<1>8. \A e \in Device \ {d} : Chain(e)' = Chain(e) /\ \A u \in Chain(e) : token'[u] = token[u]
  BY <1>2, <1>5, <1>6 DEF Chain
<1>9. Chain(d)' = {t}
  BY <1>3, <1>5
<1>10. \A e \in Device : Named(e) /\ (Chain(e) # {} <=> device[e].status = "issued")
  BY DEF LoginInv
<1>11. \A e \in Device : Named(e)' /\ (Chain(e)' # {} <=> device'[e].status = "issued")
  <2>1. Named(d)' /\ Chain(d)' # {} /\ device'[d].status = "issued"
    BY <1>4, <1>6, <1>7, <1>9 DEF Named, StatusBecomes
  <2>2. \A e \in Device \ {d} : Named(e)' /\ (Chain(e)' # {} <=> device'[e].status = "issued")
    BY <1>7, <1>8, <1>10 DEF Named
  <2>3. QED
    BY <2>1, <2>2
<1>12. OneLiveSet'
  BY <1>8, <1>9 DEF LoginInv, OneLiveSet
<1>13. ~HasLive(d) /\ \A e \in Device : HasLive(e)' <=> HasLive(e) \/ e = d
  <2>1. ~HasLive(d) /\ HasLive(d)'
    BY <1>3, <1>4, <1>6, <1>9 DEF HasLive
  <2>2. \A e \in Device \ {d} : HasLive(e)' <=> HasLive(e)
    BY <1>8 DEF HasLive
  <2>3. QED
    BY <2>1, <2>2
<1>14. QED
  BY <1>1, <1>7, <1>11, <1>12, <1>13 DEF LoginInv

LEMMA RefreshStep ==
  ASSUME LoginInv, TypeOK', NEW t \in Token, NEW new \in Token, RefreshToken(t, new)
  PROVE  LoginInv' /\ TokensSame /\ UNCHANGED approver /\ StatusKept
<1>1. TypeOK /\ UNCHANGED <<device, approver>> /\ Refresh(t, new)
  BY DEF LoginInv, RefreshToken
<1>0. PICK d \in Device : d = token[t].device
  BY <1>1, ChainsAfterRefresh DEF IssuedSet
<1>2. /\ token[t] \in IssuedSet /\ token[t].status = "stored" /\ t # new
      /\ \A e : Chain(e)' = IF e = d THEN Chain(e) \cup {new} ELSE Chain(e)
      /\ t \in Chain(d) /\ new \notin Chain(d)
      /\ token'[new] = TokenSet(token[t].principal, d) /\ token'[t].status = "revoked"
      /\ \A u \in Token \ {new} : token'[u].principal = token[u].principal
      /\ \A u \in Token \ {t, new} : token'[u] = token[u]
  BY <1>0, <1>1, ChainsAfterRefresh
<1>3. /\ token'[new].status = "stored" /\ token'[new].principal = token[t].principal
      /\ token[t].principal = approver[d]
  BY <1>2 DEF TokenSet, LoginInv, Named, IssuedSet
<1>4. \A e \in Device \ {d} : Chain(e)' = Chain(e) /\ t \notin Chain(e) /\ new \notin Chain(e)
  BY <1>0, <1>1, <1>2 DEF Chain, Refresh
<1>5. \A e \in Device \ {d} : \A u \in Chain(e) : token'[u] = token[u]
  BY <1>2, <1>4 DEF Chain
<1>6. \A u \in Chain(d) : token[u].status = "stored" => u = t
  BY <1>2, <1>3 DEF LoginInv, OneLiveSet
<1>7. \A u \in Chain(d)' : token'[u].status = "stored" => u = new
  BY <1>2, <1>6 DEF Chain
<1>8. \A e \in Device : Named(e) /\ (Chain(e) # {} <=> device[e].status = "issued")
  BY DEF LoginInv
<1>9. \A e \in Device : Named(e)' /\ (Chain(e)' # {} <=> device'[e].status = "issued")
  <2>1. \A u \in Chain(d)' : token'[u].principal = approver[d]
    BY <1>2, <1>3, <1>8 DEF Named, Chain
  <2>2. Named(d)' /\ (Chain(d)' # {} <=> device'[d].status = "issued")
    BY <1>1, <1>2, <1>3, <1>8, <2>1 DEF Named
  <2>3. \A e \in Device \ {d} : Named(e)' /\ (Chain(e)' # {} <=> device'[e].status = "issued")
    BY <1>1, <1>4, <1>5, <1>8 DEF Named
  <2>4. QED
    BY <2>2, <2>3
<1>10. OneLiveSet'
  BY <1>4, <1>5, <1>7 DEF LoginInv, OneLiveSet
<1>11. TokensSame
  <2>1. HasLive(d) /\ HasLive(d)'
    BY <1>2, <1>3 DEF HasLive
  <2>2. \A e \in Device \ {d} : HasLive(e)' <=> HasLive(e)
    BY <1>4, <1>5 DEF HasLive
  <2>3. QED
    BY <2>1, <2>2 DEF TokensSame
<1>12. QED
  BY <1>1, <1>9, <1>10, <1>11 DEF LoginInv, StatusKept

LEMMA RevokeStep ==
  ASSUME LoginInv, TypeOK', NEW t \in Token, RevokeToken(t)
  PROVE  /\ LoginInv' /\ UNCHANGED approver /\ StatusKept
         /\ \/ TokensSame
            \/ \E d \in Device : /\ device[d].status = "issued" /\ HasLive(d)
                                 /\ \A e \in Device : HasLive(e)' <=> HasLive(e) /\ e # d
<1>1. TypeOK /\ UNCHANGED <<device, approver>> /\ Revoke(t)
  BY DEF LoginInv, RevokeToken
<1>2. /\ \A e : Chain(e)' = Chain(e)
      /\ \A u \in Token : token'[u].principal = token[u].principal
      /\ \A u \in Token : u # t => token'[u].status = token[u].status
      /\ token[t] \in IssuedSet /\ token'[t].status = "revoked"
  BY <1>1, ChainsAfterRevoke
<1>3. PICK d \in Device : d = token[t].device /\ t \in Chain(d)
  BY <1>2 DEF IssuedSet, Chain, Fresh
<1>4. \A e \in Device : Named(e) /\ (Chain(e) # {} <=> device[e].status = "issued")
  BY DEF LoginInv
<1>5. \A e \in Device : Named(e)' /\ (Chain(e)' # {} <=> device'[e].status = "issued")
  <2>1. \A e \in Device : \A u \in Chain(e) : token'[u].principal = approver[e]
    BY <1>2, <1>4 DEF Named, Chain
  <2>2. QED
    BY <1>1, <1>2, <1>4, <2>1 DEF Named
<1>6. \A u \in Token : token'[u].status = "stored" => u # t /\ token[u].status = "stored"
  BY <1>2
<1>7. OneLiveSet'
  <2> SUFFICES ASSUME NEW e \in Device, NEW u \in Chain(e)', NEW v \in Chain(e)',
                      token'[u].status = "stored", token'[v].status = "stored"
               PROVE  u = v
    BY DEF OneLiveSet
  <2>1. u \in Chain(e) /\ v \in Chain(e)
    BY <1>2
  <2>2. u \in Token /\ v \in Token
    BY <2>1 DEF Chain
  <2>3. token[u].status = "stored" /\ token[v].status = "stored"
    BY <1>6, <2>2
  <2>4. QED
    BY <2>1, <2>3 DEF LoginInv, OneLiveSet
<1>8. CASE token[t].status = "revoked"
  <2>1. \A u \in Token : token'[u].status = token[u].status
    BY <1>2, <1>8
  <2>2. TokensSame
    BY <1>2, <2>1 DEF TokensSame, HasLive, Chain
  <2>3. QED
    BY <1>1, <1>5, <1>7, <2>2 DEF LoginInv, StatusKept
<1>9. CASE token[t].status = "stored"
  <2>1. HasLive(d) /\ device[d].status = "issued"
    BY <1>3, <1>4, <1>9 DEF HasLive
  <2>2. ~HasLive(d)'
    BY <1>2, <1>3, <1>6, <1>9 DEF HasLive, LoginInv, OneLiveSet, Chain
  <2>3. \A e \in Device \ {d} : t \notin Chain(e)
    BY <1>3 DEF Chain
  <2>4. \A e \in Device \ {d} : HasLive(e)' <=> HasLive(e)
    BY <1>2, <2>3 DEF HasLive, Chain
  <2>5. QED
    BY <1>1, <1>3, <1>5, <1>7, <2>1, <2>2, <2>4 DEF LoginInv, StatusKept
<1>10. QED
  BY <1>1, <1>8, <1>9 DEF Revoke

LEMMA LoginStep == LoginInv /\ [Next]_vars => LoginInv'
<1> SUFFICES ASSUME LoginInv, [Next]_vars PROVE LoginInv'
  OBVIOUS
<1>1. CASE UNCHANGED vars
  BY <1>1 DEF vars, LoginInv, TypeOK, DeviceTypeOK, TokenTypeOK, Named, Chain, Fresh, OneLiveSet
<1>2. CASE Next
  <2>1. TypeOK'
    BY <1>2, TypeStep
  <2>2. ASSUME NEW d \in Device, Deny(d) PROVE LoginInv'
    BY <2>1, <2>2, ClosesStep DEF Deny, DeviceDeny, Closes, TokensKept
  <2>3. ASSUME NEW d \in Device, Poll(d) PROVE LoginInv'
    BY <2>1, <2>3, PollEffect, GrowsStep, ClosesStep, QuietStep DEF Poll
  <2>4. CASE Tick
    BY <2>1, <2>4, QuietStep DEF Tick, TokensKept
  <2>5. QED
    BY <1>2, <2>1, <2>2, <2>3, <2>4, StartStep, ApproveStep, RefreshStep, RevokeStep DEF Next
<1>3. QED
  BY <1>1, <1>2

LEMMA LoginHolds == Spec => []LoginInv
BY LoginInit, LoginStep, PTL DEF Spec

(* Devices, tokens, the session and the approvals always have their types. *)
THEOREM TypeCorrect == Spec => []TypeOK
<1>1. LoginInv => TypeOK
  BY DEF LoginInv
<1>2. QED
  BY <1>1, LoginHolds, PTL

-----------------------------------------------------------------------------
(* The refinement: what ClientLogin sees of a login. *)
PhaseOf(status) ==
    CASE status \in {"unstarted", "pending"} -> "waiting"
      [] status \in {"denied", "expired"} -> "closed"
      [] status = "approved" -> "approved"
      [] OTHER -> "handed_out"

PhaseMap == [d \in Device |-> LoginPhase(d)]
ByMap == [d \in Device |-> NamedBy(d)]
LiveMap == [d \in Device |-> LiveSets(d)]
Seen ==
    /\ PhaseMap = [d \in Device |-> PhaseOf(device[d].status)]
    /\ ByMap = approver /\ approver \in [Device -> Client \cup {NoOne}]
    /\ LiveMap = [d \in Device |-> IF HasLive(d) THEN 1 ELSE 0]
    /\ \A d \in Device : device[d].status \in DeviceStatus

LEMMA AtMostOneSet ==
  ASSUME NEW H, \A t, u \in H : t = u
  PROVE  Cardinality(H) = IF H = {} THEN 0 ELSE 1
<1>1. CASE H = {}
  BY <1>1, FS_EmptySet
<1>2. ASSUME NEW t \in H
      PROVE  Cardinality(H) = 1
  <2>1. H = {t}
    OBVIOUS
  <2>2. QED
    BY <2>1, FS_Singleton
<1>3. QED
  BY <1>1, <1>2

LEMMA WhatIsSeen == LoginInv => Seen
<1> SUFFICES ASSUME LoginInv PROVE Seen
  OBVIOUS
<1>1. \A d \in Device : device[d].status \in DeviceStatus
  BY DEF LoginInv, TypeOK, DeviceTypeOK
<1>2. ASSUME NEW d \in Device
      PROVE  LoginPhase(d) = PhaseOf(device[d].status)
  <2>1. device[d].status = "approved" => Chain(d) = {}
    BY DEF LoginInv
  <2>2. QED
    BY <1>1, <2>1 DEF LoginPhase, PhaseOf, DeviceStatus
<1>3. /\ approver \in [Device -> Client \cup {NoOne}]
      /\ \A d \in Device : NamedBy(d) = approver[d]
  BY DEF LoginInv, TypeOK, Named, NamedBy
<1>4. ByMap = approver
  BY <1>3 DEF ByMap
<1>5. ASSUME NEW d \in Device
      PROVE  LiveSets(d) = IF HasLive(d) THEN 1 ELSE 0
  <2>1. \A t, u \in {v \in Chain(d) : token[v].status = "stored"} : t = u
    BY DEF LoginInv, OneLiveSet
  <2>2. QED
    BY <2>1, AtMostOneSet DEF LiveSets, HasLive
<1>6. QED
  BY <1>1, <1>2, <1>3, <1>4, <1>5 DEF Seen, PhaseMap, LiveMap

(* How the views follow the records. *)
LEMMA SeenAfter ==
  ASSUME Seen, Seen'
  PROVE  /\ StatusKept => PhaseMap' = PhaseMap
         /\ \A d \in Device : \A s : StatusBecomes(d, s)
                => PhaseMap' = [PhaseMap EXCEPT ![d] = PhaseOf(s)]
         /\ approver' = approver => ByMap' = ByMap
         /\ TokensSame => LiveMap' = LiveMap
         /\ \A d \in Device : (\A e \in Device : HasLive(e)' <=> HasLive(e) \/ e = d)
                => LiveMap' = [LiveMap EXCEPT ![d] = 1]
         /\ \A d \in Device : (\A e \in Device : HasLive(e)' <=> HasLive(e) /\ e # d)
                => LiveMap' = [LiveMap EXCEPT ![d] = 0]
<1>1. StatusKept => PhaseMap' = PhaseMap
  BY DEF Seen, StatusKept
<1>2. ASSUME NEW d \in Device, NEW s, StatusBecomes(d, s)
      PROVE  PhaseMap' = [PhaseMap EXCEPT ![d] = PhaseOf(s)]
  BY <1>2 DEF Seen, StatusBecomes
<1>3. TokensSame => LiveMap' = LiveMap
  BY DEF Seen, TokensSame
<1>4. ASSUME NEW d \in Device
      PROVE  /\ (\A e \in Device : HasLive(e)' <=> HasLive(e) \/ e = d)
                    => LiveMap' = [LiveMap EXCEPT ![d] = 1]
             /\ (\A e \in Device : HasLive(e)' <=> HasLive(e) /\ e # d)
                    => LiveMap' = [LiveMap EXCEPT ![d] = 0]
  BY DEF Seen
<1>5. QED
  BY <1>1, <1>2, <1>3, <1>4 DEF Seen

LoginViews == <<PhaseMap, ByMap, LiveMap>>

LEMMA StepIsLogin ==
  ASSUME LoginInv, TypeOK', Seen, Seen', Next
  PROVE  Login!Next \/ UNCHANGED LoginViews
<1> USE DEF PhaseMap, ByMap, LiveMap
<1>1. \A d \in Device : /\ PhaseMap[d] = PhaseOf(device[d].status)
                        /\ LiveMap[d] = IF HasLive(d) THEN 1 ELSE 0
  BY DEF Seen
<1> HIDE DEF PhaseMap, ByMap, LiveMap
<1>2. ASSUME NEW d \in Device, Start(d) PROVE UNCHANGED LoginViews
  <2>1. /\ TokensSame /\ UNCHANGED approver /\ StatusBecomes(d, "pending")
        /\ device[d].status = "unstarted"
    BY <1>2, StartStep
  <2>2. PhaseMap' = PhaseMap
    BY <1>1, <2>1 DEF PhaseOf, Seen, StatusBecomes
  <2>3. QED
    BY <2>1, <2>2, SeenAfter DEF LoginViews
<1>3. ASSUME NEW d \in Device, NEW c \in Client, Approve(d, c) PROVE Login!Approve(d)
  <2>1. /\ TokensSame /\ approver' = [approver EXCEPT ![d] = c]
        /\ StatusBecomes(d, "approved") /\ device[d].status = "pending"
    BY <1>3, ApproveStep
  <2>2. /\ PhaseMap[d] = "waiting" /\ PhaseMap' = [PhaseMap EXCEPT ![d] = "approved"]
        /\ LiveMap' = LiveMap /\ ByMap' = [ByMap EXCEPT ![d] = c]
    BY <1>1, <2>1, SeenAfter DEF PhaseOf, Seen
  <2>3. QED
    BY <2>2 DEF Login!Approve, Login!Becomes, PhaseMap, ByMap, LiveMap
<1>4. ASSUME NEW d \in Device, Closes(d), TokensKept, UNCHANGED approver
      PROVE  Login!Close(d) \/ UNCHANGED LoginViews
  <2>1. PICK s \in {"denied", "expired"} : StatusBecomes(d, s)
    BY <1>4, ClosesStep
  <2>2. TokensSame /\ device[d].status \in {"pending", "approved", "denied", "expired"}
    BY <1>4, ClosesStep
  <2>3. /\ PhaseMap[d] \in {"waiting", "approved", "closed"}
        /\ PhaseMap' = [PhaseMap EXCEPT ![d] = "closed"]
        /\ LiveMap' = LiveMap /\ ByMap' = ByMap
    BY <1>1, <1>4, <2>1, <2>2, SeenAfter DEF PhaseOf
  <2>4. CASE PhaseMap[d] = "closed"
    BY <2>3, <2>4 DEF LoginViews, PhaseMap
  <2>5. CASE PhaseMap[d] \in {"waiting", "approved"}
    BY <2>3, <2>5 DEF Login!Close, Login!Becomes, PhaseMap, ByMap, LiveMap
  <2>6. QED
    BY <2>3, <2>4, <2>5
<1>5. ASSUME NEW d \in Device, Grows(d), UNCHANGED approver PROVE Login!HandOut(d)
  <2>1. /\ StatusBecomes(d, "issued") /\ device[d].status = "approved"
        /\ \A e \in Device : HasLive(e)' <=> HasLive(e) \/ e = d
    BY <1>5, GrowsStep
  <2>2. /\ PhaseMap[d] = "approved" /\ PhaseMap' = [PhaseMap EXCEPT ![d] = "handed_out"]
        /\ LiveMap' = [LiveMap EXCEPT ![d] = 1] /\ ByMap' = ByMap
    BY <1>1, <1>5, <2>1, SeenAfter DEF PhaseOf
  <2>3. QED
    BY <2>2 DEF Login!HandOut, Login!Becomes, PhaseMap, ByMap, LiveMap
<1>6. ASSUME NEW t \in Token, RevokeToken(t)
      PROVE  Login!Next \/ UNCHANGED LoginViews
  <2>1. StatusKept /\ PhaseMap' = PhaseMap /\ ByMap' = ByMap
    BY <1>6, RevokeStep, SeenAfter
  <2>2. CASE TokensSame
    BY <2>1, <2>2, SeenAfter DEF LoginViews
  <2>3. ASSUME NEW d \in Device, device[d].status = "issued", HasLive(d),
               \A e \in Device : HasLive(e)' <=> HasLive(e) /\ e # d
        PROVE  Login!Revoke(d)
    <3>1. /\ PhaseMap[d] = "handed_out" /\ LiveMap[d] = 1
          /\ LiveMap' = [LiveMap EXCEPT ![d] = 0]
      BY <1>1, <2>3, SeenAfter DEF PhaseOf
    <3>2. QED
      BY <2>1, <3>1 DEF Login!Revoke, PhaseMap, ByMap, LiveMap
  <2>4. QED
    BY <1>6, <2>2, <2>3, RevokeStep DEF Login!Next
<1>7. ASSUME StatusKept, TokensSame, UNCHANGED approver PROVE UNCHANGED LoginViews
  BY <1>7, SeenAfter DEF LoginViews
<1>8. ASSUME NEW d \in Device, Deny(d) PROVE Login!Next \/ UNCHANGED LoginViews
  BY <1>4, <1>8 DEF Deny, DeviceDeny, Closes, TokensKept, Login!Next
<1>9. ASSUME NEW d \in Device, Poll(d) PROVE Login!Next \/ UNCHANGED LoginViews
  <2>1. UNCHANGED approver
    BY <1>9 DEF Poll
  <2>2. CASE Grows(d) \/ (TokensKept /\ Closes(d))
    BY <1>4, <1>5, <2>1, <2>2 DEF Login!Next
  <2>3. CASE TokensKept /\ (device' = device \/ Repolled(d))
    BY <1>7, <2>1, <2>3, QuietStep
  <2>4. QED
    BY <1>9, <2>2, <2>3, PollEffect
<1>10. CASE Tick
  BY <1>7, <1>10, QuietStep DEF Tick, TokensKept
<1>11. CASE \E t, new \in Token : RefreshToken(t, new)
  BY <1>7, <1>11, RefreshStep
<1>12. CASE \E d \in Device, c \in Client : Approve(d, c)
  BY <1>3, <1>12 DEF Login!Next
<1>13. QED
  BY <1>2, <1>6, <1>8, <1>9, <1>10, <1>11, <1>12 DEF Next

(* Tokens follow an approval, name the one who approved, are handed out once   *)
(* though polls are repeated and codes expire at any point, and are replaced, *)
(* never multiplied (DeviceAuthorizationFlow.poll, TokenRegistry): every step *)
(* is a step of ClientLogin or leaves its variables alone.                    *)
THEOREM LoginIsImplemented == Spec => ImplementsLogin
<1>1. Init /\ Seen => Login!Init
  <2> SUFFICES ASSUME Init, Seen PROVE Login!Init
    OBVIOUS
  <2>1. \A d \in Device : Chain(d) = {} /\ device[d].status = "unstarted" /\ approver[d] = NoOne
    BY DEF Init, Unstarted, Chain, Fresh, Unissued
  <2>2. /\ PhaseMap = [d \in Device |-> "waiting"] /\ ByMap = [d \in Device |-> NoOne]
        /\ LiveMap = [d \in Device |-> 0]
    BY <2>1 DEF Seen, PhaseOf, HasLive
  <2>3. QED
    BY <2>2 DEF Login!Init, PhaseMap, ByMap, LiveMap
<1>2. LoginInv /\ LoginInv' /\ Seen /\ Seen' /\ [Next]_vars
        => [Login!Next]_<<[d \in Device |-> LoginPhase(d)], [d \in Device |-> NamedBy(d)],
                         [d \in Device |-> LiveSets(d)]>>
  <2> SUFFICES ASSUME LoginInv, LoginInv', Seen, Seen', [Next]_vars
               PROVE  Login!Next \/ UNCHANGED LoginViews
    BY DEF LoginViews, PhaseMap, ByMap, LiveMap
  <2>1. CASE UNCHANGED vars
    <3>1. StatusKept /\ TokensSame /\ UNCHANGED approver
      BY <2>1 DEF vars, StatusKept, TokensSame, HasLive, Chain, Fresh
    <3>2. QED
      BY <3>1, SeenAfter DEF LoginViews
  <2>2. QED
    BY <2>1, StepIsLogin DEF LoginInv
<1>3. QED
  BY <1>1, <1>2, WhatIsSeen, LoginHolds, PTL DEF Spec, ImplementsLogin, Login!Spec
-----------------------------------------------------------------------------
(* The walks over the grants. *)
RequestsMade ==
    \A r \in Request : r.action \in DOMAIN ActionCapability /\ (r.bootstrap => r.action \notin Mutating)

LEMMA CapabilityOfAction ==
  ASSUME NEW a \in DOMAIN ActionCapability
  PROVE  ActionCapability[a] \in Capability
BY DEF ActionCapability, Capability

LEMMA RoutesAreGranted ==
  ASSUME NEW ctx, NEW grants, NEW r, NEW p \in OperatorRoutes(ctx, grants, r)
  PROVE  EvaluateAccessGrant(grants, p, ActionCapability[r.action], r.scope, ctx.now)
BY DEF OperatorRoutes, EvaluateAccessGrant

(* The decision and the view name the same principal, blanks apart. *)
LEMMA SamePrincipal ==
  ASSUME NEW ctx, ctx.mode = "multiuser", ctx.token.active \in BOOLEAN,
         ctx.token.given \/ ~ctx.token.active, ~ShownPadded(ctx),
         ~InactiveToken(ctx), ~WrongPrincipal(ctx), Principal(ctx) # None
  PROVE  ViewPrincipal(ctx) = Principal(ctx)
<1>1. CASE ctx.token.active
  <2>1. ctx.principal = None \/ ctx.principal = ctx.token.principal
    BY <1>1 DEF WrongPrincipal
  <2>2. ViewPrincipal(ctx) = ctx.token.principal
    BY <1>1 DEF ViewPrincipal
  <2>3. Principal(ctx) = CleanPrincipal(ctx.token.principal)
    BY <1>1, <2>1 DEF Principal
  <2>4. QED
    BY <2>2, <2>3 DEF ShownPadded
<1>2. CASE ~ctx.token.active
  <2>1. Principal(ctx) = CleanPrincipal(ctx.principal)
    BY <1>2 DEF Principal
  <2>2. ViewPrincipal(ctx) = ctx.principal
    BY <1>2, <2>1 DEF ViewPrincipal
  <2>3. QED
    BY <2>1, <2>2 DEF ShownPadded
<1>3. QED
  BY <1>1, <1>2

LEMMA WhatIsAllowedIsShown ==
  ASSUME RequestsMade, NEW ctx, NEW grants, NEW r \in Request,
         ctx.mode \in {"single", "multiuser"}, ctx.token.active \in BOOLEAN,
         ctx.token.given \/ ~ctx.token.active,
         AuthorizeClientRequest(ctx, grants, r), r.action \in Mutating, ~ShownPadded(ctx)
  PROVE  ActionCapability[r.action] \in ViewCapabilities(ctx, grants)
<1>1. r.action \in DOMAIN ActionCapability /\ ~r.bootstrap
  BY DEF RequestsMade
<1>2. CASE ctx.mode = "single"
  BY <1>1, <1>2, CapabilityOfAction DEF ViewCapabilities, ViewPrincipal
<1>3. CASE ctx.mode = "multiuser"
  <2>1. /\ ~InactiveToken(ctx) /\ ~WrongPrincipal(ctx) /\ Principal(ctx) # None
        /\ Granted(ctx, grants, r)
    BY <1>1 DEF AuthorizeClientRequest
  <2>2. EvaluateAccessGrant(grants, Principal(ctx), ActionCapability[r.action], r.scope, ctx.now)
    BY <1>3, <2>1 DEF Granted
  <2>3. PICK g \in grants : /\ g.principal = ViewPrincipal(ctx)
                            /\ ActionCapability[r.action] \in EffectiveCapabilities(g)
    BY <1>3, <2>1, <2>2, SamePrincipal DEF EvaluateAccessGrant
  <2>4. QED
    BY <1>3, <2>3 DEF ViewCapabilities
<1>4. QED
  BY <1>2, <1>3

(* The walks over the grants agree for any grants, tokens and requests, at any  *)
(* time: a denial is referred only to operators who could do the thing, and   *)
(* what is allowed is shown unless the name is padded with blanks, which only *)
(* the decision trims (operatorRoutes, evaluateAccessGrant, cleanPrincipal    *)
(* and the session's access view).  It needs what the callers keep: no request that   *)
(* is let in before the login changes anything (ciclo_auth_device_start and   *)
(* _poll, the requests of the bootstrap, read the status).                    *)
THEOREM GrantsAgree ==
  ASSUME RequestsMade
  PROVE  Spec => []GrantViewsAgree
<1>1. TypeOK => GrantViewsAgree
  <2> SUFFICES ASSUME TypeOK, NEW ctx \in Contexts, NEW r \in Request
               PROVE  /\ AuditDecision(ctx, session.grants, r) = "delegated" =>
                           \A p \in OperatorRoutes(ctx, session.grants, r) :
                              EvaluateAccessGrant(session.grants, p, ActionCapability[r.action],
                                                  r.scope, ctx.now)
                      /\ AuthorizeClientRequest(ctx, session.grants, r) /\ r.action \in Mutating
                         /\ ~ShownPadded(ctx)
                           => ActionCapability[r.action] \in ViewCapabilities(ctx, session.grants)
    BY DEF GrantViewsAgree
  <2>1. PICK o \in Origin, t \in Token \cup {None} : ctx = Context(o, t)
    BY DEF Contexts
  <2>2. ctx.mode = session.mode /\ ctx.token = Introspected(t)
    BY <2>1 DEF Context
  <2>3. ctx.mode \in {"single", "multiuser"}
    BY <2>2 DEF TypeOK
  <2>4. ctx.token.active \in BOOLEAN /\ (ctx.token.given \/ ~ctx.token.active)
    <3>1. CASE t = None
      BY <2>2, <3>1 DEF Introspected
    <3>2. CASE t # None
      <4>1. ctx.token.given = TRUE /\ ctx.token.active = Active(t)
        BY <2>2, <3>2 DEF Introspected
      <4>2. Active(t) \in BOOLEAN
        BY DEF Active
      <4>3. QED
        BY <4>1, <4>2
    <3>3. QED
      BY <3>1, <3>2
  <2>5. \A p \in OperatorRoutes(ctx, session.grants, r) :
           EvaluateAccessGrant(session.grants, p, ActionCapability[r.action], r.scope, ctx.now)
    BY RoutesAreGranted
  <2>6. AuthorizeClientRequest(ctx, session.grants, r) /\ r.action \in Mutating
          /\ ~ShownPadded(ctx) => ActionCapability[r.action] \in ViewCapabilities(ctx, session.grants)
    BY <2>3, <2>4, WhatIsAllowedIsShown
  <2>7. QED
    BY <2>5, <2>6
<1>2. QED
  BY <1>1, TypeCorrect, PTL
================================================================================
