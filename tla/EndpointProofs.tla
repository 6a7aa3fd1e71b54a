---------------------------- MODULE EndpointProofs ----------------------------
(* The request of a client that passes no timeout is always in one place    *)
(* and its answer is its own, for any number of clients, servers and calls. *)
EXTENDS Endpoint, Lists, FiniteSetTheorems

Patient  == Clients \ Timed
Waits(c) == pc[c] \in Inside /\ ~Over(c)

(* Where a server is while it works on a record, and the part of that time  *)
(* in which the record's call cannot be over.                               *)
Work    == {"check", "refused", "finish", "finished", "wake"}
Busy(c) == {"check", IF c \in Callers THEN "finish" ELSE "refused"}

(* The servers: where they are, and that no record is of a later call.      *)
ServersSound ==
  /\ \A s \in Servers : pc[s] \in {"run", "recv", "block", "unlink"} \cup Work
  /\ \A s \in Servers : serving[s] # None <=> pc[s] \in Work
  /\ \A s \in Servers : Contains(receivers, s) <=> pc[s] \in {"block", "unlink"}
  /\ \A s \in Servers : serving[s] # None => serving[s][2] <= count[serving[s][1]]
  /\ \A s \in Servers : pc[s] = "refused" => serving[s] \in answered
  /\ \A s \in Servers : \A r \in replies[s] : r[1] \in Callers /\ r[2] <= count[r[1]]
  /\ \A r \in dropped : r[2] <= count[r[1]]

(* The clients: a record that is linked is that of a call.                  *)
ClientsSound ==
  /\ IsInjective(senders)
  /\ \A c \in Clients : pc[c] \in {"run"} \cup Inside
  /\ \A c \in Clients : Contains(senders, c) => count[c] >= 1
  /\ \A c \in Clients : pc[c] # "run" => count[c] >= 1

(* What holds a record of a patient client is about its current call, which *)
(* is not over.                                                             *)
Held(c) ==
  /\ Contains(senders, c) => Waits(c)
  /\ \A s \in Servers : serving[s] # None /\ serving[s][1] = c /\ pc[s] \in Busy(c) =>
                          serving[s] = Current(c) /\ Waits(c)
  /\ \A s \in Servers : serving[s] = Current(c) /\ Waits(c) => pc[s] \in Busy(c)
  /\ \A s \in Servers : \A r \in replies[s] : r[1] = c => r = Current(c) /\ Waits(c)

(* At most one place holds the current record ...                           *)
Apart(c) ==
  /\ Contains(senders, c) =>
       \A s \in Servers : serving[s] # Current(c) /\ Current(c) \notin replies[s]
  /\ Current(c) \in dropped =>
       /\ ~Contains(senders, c)
       /\ \A s \in Servers : serving[s] # Current(c) /\ Current(c) \notin replies[s]
  /\ \A s, t \in Servers : serving[s] = Current(c) /\ serving[t] = Current(c) => s = t
  /\ \A s, t \in Servers : Current(c) \in replies[s] /\ Current(c) \in replies[t] => s = t
  /\ \A s, t \in Servers : serving[s] = Current(c) => Current(c) \notin replies[t]

(* ... and while the client waits, one does.                                *)
Placed(c) ==
  Waits(c) => \/ Contains(senders, c)
              \/ \E s \in Servers : serving[s] = Current(c)
              \/ \E s \in Servers : Current(c) \in replies[s]
              \/ Current(c) \in dropped

Told(c) == pc[c] # "run" /\ Over(c) =>
             Current(c) \in answered \cup (IF c \in Senders THEN received ELSE {})

Owned(c) == Held(c) /\ Apart(c) /\ Placed(c) /\ Told(c)
Sound    == TypeOK /\ ServersSound /\ ClientsSound
IInv     == Sound /\ \A c \in Patient : Owned(c)
-----------------------------------------------------------------------------
Flags  == [delivered : BOOLEAN, replied : BOOLEAN, sealed : BOOLEAN, result : Results]
Labels == {"run", "look", "first", "rouse", "poll", "recv", "check", "refused", "finish",
           "finished", "block", "unlink", "wake"}
Answer(f, x) == [f EXCEPT !.result = x, !.replied = TRUE]
Copied(f)    == [f EXCEPT !.delivered = TRUE]
Ended(f)     == [f EXCEPT !.result = "ok"]

(* What a server writes to a record, and what that leaves as it was.        *)
LEMMA FlagsKept ==
  ASSUME NEW f \in Flags, NEW x \in Results
  PROVE  /\ Answer(f, x) \in Flags /\ Copied(f) \in Flags /\ Ended(f) \in Flags
         /\ Answer(f, x).replied = TRUE /\ Answer(f, x).delivered = f.delivered
         /\ Copied(f).delivered = TRUE /\ Copied(f).replied = f.replied
         /\ Ended(f).delivered = f.delivered /\ Ended(f).replied = f.replied
         /\ f.result \in Results
BY DEF Flags, Answer, Copied, Ended, Results

LEMMA FreshFlags ==
  ASSUME NEW sealed \in BOOLEAN
  PROVE  Fresh(sealed) \in Flags /\ ~Fresh(sealed).replied /\ ~Fresh(sealed).delivered
BY DEF Fresh, Flags, Results

(* A step of a thread from one location to another.                         *)
LEMMA Went ==
  ASSUME TypeOK, NEW t \in Clients \cup Servers, NEW l \in Labels, Goto(t, l)
  PROVE  /\ pc' \in [Clients \cup Servers -> Labels]
         /\ pc'[t] = l /\ \A u \in Clients \cup Servers : u # t => pc'[u] = pc[u]
BY DEF TypeOK, Goto, Labels

(* A server's write to the record of r's client: it is done, or r's call is *)
(* over and it may have gone elsewhere.                                     *)
LEMMA Wrote ==
  ASSUME TypeOK, NEW r \in Records, NEW f \in Flags, Write(r, f)
  PROVE  /\ pend' \in [Clients -> Flags]
         /\ \A c \in Clients : c # r[1] => pend'[c] = pend[c]
         /\ pend'[r[1]] = f \/ (~UnderWay(r) /\ pend'[r[1]] = pend[r[1]])
<1>1. r[1] \in Clients /\ pend \in [Clients -> Flags]
  BY DEF Records, TypeOK, Flags
<1>2. CASE pend' = [pend EXCEPT ![r[1]] = f]
  BY <1>1, <1>2
<1>3. CASE ~UnderWay(r) /\ UNCHANGED pend
  BY <1>1, <1>3
<1> QED BY <1>2, <1>3 DEF Write

(* The records servers work on.                                             *)
LEMMA InHand ==
  ASSUME Sound, EndpointAssumption, NEW s \in Servers, pc[s] \in Work
  PROVE  /\ serving[s] \in Records /\ serving[s] # None
         /\ serving[s][1] \in Clients /\ serving[s][1] # s
         /\ serving[s] = <<serving[s][1], serving[s][2]>>
<1>1. serving[s] \in Records /\ serving[s] # None
  BY DEF Sound, ServersSound, TypeOK
<1> QED BY <1>1 DEF Records, EndpointAssumption
-----------------------------------------------------------------------------

(* A client's step: it begins a call, goes on in it, or ends it.            *)
Steps(c) == CallLook(c) \/ CallFirst(c) \/ CallRouse(c)
Calls(c) == CallQueue(c) \/ Steps(c) \/ CallReturn(c) \/ CallTimeout(c)

(* The clients' steps keep what holds of every client and server.           *)
LEMMA ClientKeepsSound ==
  ASSUME Sound, EndpointAssumption, NEW c \in Clients,
         Calls(c)
  PROVE  Sound'
<1>1. /\ senders \in Seq(Clients) /\ IsInjective(senders) /\ count \in [Clients -> 0..MaxCalls]
      /\ pend \in [Clients -> Flags] /\ pc \in [Clients \cup Servers -> Labels]
      /\ c \in Clients \cup Servers /\ c \notin Servers /\ TypeOK /\ MaxCalls \in Nat
  BY DEF Sound, TypeOK, ClientsSound, Flags, Labels, EndpointAssumption
<1>2. /\ UNCHANGED <<receivers, serving, replies, answered, received, dropped>>
      /\ asleep' \in SUBSET Servers
  BY <1>1 DEF Calls, Steps, CallQueue, CallLook, CallFirst, CallRouse, CallReturn, CallTimeout,
              clientVars, serverVars, history, TypeOK
<1>10. first' \in [Clients -> Servers \cup {None}]
  <2>1. first \in [Clients -> Servers \cup {None}] /\ receivers \in Seq(Servers)
    BY <1>1 DEF TypeOK
  <2>2. receivers # <<>> => Head(receivers) \in Servers
    BY <2>1
  <2>3. \/ first' = first \/ first' = [first EXCEPT ![c] = None]
        \/ receivers # <<>> /\ first' = [first EXCEPT ![c] = Head(receivers)]
    BY DEF Calls, Steps, CallQueue, CallLook, CallFirst, CallRouse, CallReturn, CallTimeout, clientVars
  <2> QED BY <2>1, <2>2, <2>3
<1>3. /\ count' \in [Clients -> 0..MaxCalls] /\ \A d \in Clients : count'[d] >= count[d]
      /\ CallQueue(c) => count'[c] >= 1
      /\ ~CallQueue(c) => count' = count
  <2>1. CASE CallQueue(c)
    <3>1. count' = [count EXCEPT ![c] = @ + 1] /\ count[c] < MaxCalls
      BY <2>1 DEF CallQueue
    <3>2. count[c] + 1 \in 0..MaxCalls /\ count[c] + 1 >= 1 /\ count[c] + 1 >= count[c]
      BY <1>1, <3>1
    <3> QED BY <1>1, <2>1, <3>1, <3>2
  <2>2. CASE ~CallQueue(c)
    <3>1. count' = count
      BY <2>2 DEF Calls, Steps, CallLook, CallFirst, CallRouse, CallReturn, CallTimeout, clientVars
    <3> QED BY <1>1, <2>2, <3>1
  <2> QED BY <2>1, <2>2
<1>4. pend' \in [Clients -> Flags]
  <2>1. CASE CallQueue(c)
    BY <1>1, <2>1, FreshFlags DEF CallQueue
  <2>2. CASE ~CallQueue(c)
    BY <1>1, <2>2 DEF Calls, Steps, CallLook, CallFirst, CallRouse, CallReturn, CallTimeout, clientVars
  <2> QED BY <2>1, <2>2
<1>5. /\ senders' \in Seq(Clients) /\ IsInjective(senders')
      /\ \A d \in Clients : Contains(senders', d) => Contains(senders, d) \/ (CallQueue(c) /\ d = c)
  <2>1. CASE CallQueue(c)
    <3>1. senders' = Append(senders, c) /\ ~Contains(senders, c)
      BY <1>1, <2>1 DEF CallQueue, Contains, Range
    <3> QED BY <1>1, <2>1, <3>1, AppendOnce
  <2>2. CASE CallTimeout(c)
    <3>1. senders' = RemoveFirst(senders, c)
      BY <2>2 DEF CallTimeout
    <3> QED BY <1>1, <3>1, RemoveOnce
  <2>3. CASE ~CallQueue(c) /\ ~CallTimeout(c)
    <3>1. senders' = senders
      BY <2>3 DEF Calls, Steps, CallLook, CallFirst, CallRouse, CallReturn, clientVars
    <3> QED BY <1>1, <3>1
  <2> QED BY <2>1, <2>2, <2>3
<1>6. /\ pc' \in [Clients \cup Servers -> Labels]
      /\ pc'[c] \in {"run"} \cup Inside /\ \A u \in Clients \cup Servers : u # c => pc'[u] = pc[u]
      /\ ~CallQueue(c) => pc[c] # "run"
  <2>1. PICK l \in {"run"} \cup Inside : Goto(c, l) /\ (~CallQueue(c) => pc[c] # "run")
    BY DEF Calls, Steps, CallQueue, CallLook, CallFirst, CallRouse, CallReturn, CallTimeout, Inside
  <2> QED BY <1>1, <2>1, Went DEF Labels, Inside
<1>7. TypeOK'
  BY <1>2, <1>3, <1>4, <1>5, <1>6, <1>10 DEF Sound, TypeOK, Flags, Labels
<1>8. ServersSound'
  <2>1. \A s \in Servers : pc'[s] = pc[s]
    BY <1>1, <1>6
  <2>2. ASSUME NEW r \in Records, r[2] <= count[r[1]] PROVE r[2] <= count'[r[1]]
    <3>1. PICK d \in Clients, n \in 1..MaxCalls : r = <<d, n>>
      BY DEF Records
    <3>2. n <= count[d] /\ count'[d] >= count[d] /\ count[d] \in Nat /\ count'[d] \in Nat /\ n \in Nat
      BY <1>1, <1>3, <2>2, <3>1
    <3> QED BY <3>1, <3>2
  <2>3. ServersSound
    BY DEF Sound
  <2>4. \A s \in Servers : serving[s] # None => serving[s] \in Records
    BY DEF Sound, TypeOK
  <2>5. (\A s \in Servers : \A r \in replies[s] : r \in Records) /\ \A r \in dropped : r \in Records
    BY DEF Sound, TypeOK
  <2>8. \A r \in dropped : r[2] <= count'[r[1]]
    BY <2>2, <2>3, <2>5 DEF ServersSound
  <2>6. \A s \in Servers : serving[s] # None => serving[s][2] <= count'[serving[s][1]]
    BY <2>2, <2>3, <2>4 DEF ServersSound
  <2>7. \A s \in Servers : \A r \in replies[s] : r[1] \in Callers /\ r[2] <= count'[r[1]]
    BY <2>2, <2>3, <2>5 DEF ServersSound
  <2> QED BY <1>2, <2>1, <2>3, <2>6, <2>7, <2>8 DEF ServersSound
<1>9. ClientsSound'
  <2>1. \A d \in Clients : pc'[d] \in {"run"} \cup Inside
    BY <1>6 DEF Sound, ClientsSound
  <2>2. \A d \in Clients : Contains(senders', d) => count'[d] >= 1
    <3>1. SUFFICES ASSUME NEW d \in Clients, Contains(senders', d) PROVE count'[d] >= 1
      OBVIOUS
    <3>2. CASE CallQueue(c) /\ d = c
      BY <1>3, <3>2
    <3>3. CASE Contains(senders, d)
      <4>1. count[d] >= 1 /\ count'[d] >= count[d] /\ count[d] \in Nat /\ count'[d] \in Nat
        BY <1>1, <1>3, <3>3 DEF Sound, ClientsSound
      <4> QED BY <4>1
    <3> QED BY <1>5, <3>1, <3>2, <3>3
  <2>3. \A d \in Clients : pc'[d] # "run" => count'[d] >= 1
    <3>1. SUFFICES ASSUME NEW d \in Clients, pc'[d] # "run" PROVE count'[d] >= 1
      OBVIOUS
    <3>2. CASE CallQueue(c) /\ d = c
      BY <1>3, <3>2
    <3>3. CASE ~(CallQueue(c) /\ d = c)
      <4>1. pc[d] # "run"
        BY <1>6, <3>1, <3>3
      <4>2. count[d] >= 1 /\ count'[d] >= count[d] /\ count[d] \in Nat /\ count'[d] \in Nat
        BY <1>1, <1>3, <4>1 DEF Sound, ClientsSound
      <4> QED BY <4>2
    <3> QED BY <3>2, <3>3
  <2> QED BY <1>5, <2>1, <2>2, <2>3 DEF ClientsSound
<1> QED BY <1>7, <1>8, <1>9 DEF Sound

(* A server's step, and what all of them leave alone.                       *)
Handles(s) == \/ Refuse(s) \/ Refused(s) \/ Deliver(s) \/ KeepReply(s) \/ DropReply(s)
              \/ Finish(s) \/ Finished(s) \/ ReplyWake(s) \/ \E r \in Records : Reply(s, r)
Looks(s)   == \/ Recv(s) \/ RecvTake(s) \/ RecvLink(s) \/ RecvTimeout(s) \/ RecvBlock(s)
              \/ RecvUnlink(s)

(* A server that looks for a record writes to none.                         *)
LEMMA LooksEffect ==
  ASSUME Sound, EndpointAssumption, NEW s \in Servers, Looks(s)
  PROVE  /\ UNCHANGED <<pend, count, first, replies, answered, received, dropped>>
         /\ pc[s] \in {"run", "recv", "block", "unlink"}
         /\ pc' \in [Clients \cup Servers -> Labels]
         /\ \A u \in Clients \cup Servers : u # s => pc'[u] = pc[u]
         /\ \A c \in Clients : c # s
         /\ \/ /\ pc'[s] \in {"run", "recv", "block", "unlink"} /\ UNCHANGED <<senders, serving>>
            \/ /\ pc'[s] = "check" /\ senders # <<>> /\ senders' = Tail(senders)
               /\ serving' = [serving EXCEPT ![s] = Current(Head(senders))]
               /\ receivers' = receivers /\ pc[s] = "recv"
<1>1. \A c \in Clients : c # s
  BY DEF EndpointAssumption
<1>2. PICK l \in {"run", "recv", "block", "unlink", "check"} : Goto(s, l)
  BY DEF Looks, Recv, RecvTake, RecvLink, RecvTimeout, RecvBlock, RecvUnlink
<1>3. /\ pc' \in [Clients \cup Servers -> Labels]
      /\ pc'[s] = l /\ \A u \in Clients \cup Servers : u # s => pc'[u] = pc[u]
  BY <1>2, Went DEF Sound, Labels
<1>4. CASE RecvTake(s)
  <2>1. Goto(s, "check")
    BY <1>4 DEF RecvTake
  <2>2. pc'[s] = "check"
    BY <2>1, Went DEF Sound, Labels
  <2> QED BY <1>1, <1>3, <1>4, <2>2 DEF RecvTake, history
<1>5. CASE Recv(s) \/ RecvLink(s) \/ RecvTimeout(s) \/ RecvBlock(s) \/ RecvUnlink(s)
  <2>1. PICK k \in {"run", "recv", "block", "unlink"} : Goto(s, k)
    BY <1>5 DEF Recv, RecvLink, RecvTimeout, RecvBlock, RecvUnlink
  <2>2. pc'[s] \in {"run", "recv", "block", "unlink"}
    BY <2>1, Went DEF Sound, Labels
  <2> QED BY <1>1, <1>3, <1>5, <2>2
          DEF Recv, RecvLink, RecvTimeout, RecvBlock, RecvUnlink, clientVars, serverVars, history
<1> QED BY <1>4, <1>5 DEF Looks

(* The receivers stay distinct, and a server is among them exactly while it *)
(* blocks.                                                                  *)
LEMMA ReceiversKept ==
  ASSUME Sound, EndpointAssumption, NEW s \in Servers, Looks(s)
  PROVE  /\ receivers' \in Seq(Servers) /\ IsInjective(receivers') /\ asleep' \in SUBSET Servers
         /\ \A t \in Servers : Contains(receivers', t) <=> pc'[t] \in {"block", "unlink"}
<1>1. /\ receivers \in Seq(Servers) /\ IsInjective(receivers) /\ asleep \in SUBSET Servers
      /\ \A t \in Servers : Contains(receivers, t) <=> pc[t] \in {"block", "unlink"}
      /\ s \in Clients \cup Servers
  BY DEF Sound, TypeOK, ServersSound
<1>2. \A t \in Servers : t # s => pc'[t] = pc[t]
  BY LooksEffect
<1>3. CASE RecvLink(s)
  <2>1. receivers' = Append(receivers, s) /\ ~Contains(receivers, s) /\ asleep' = asleep
    BY <1>1, <1>3 DEF RecvLink
  <2>2. pc'[s] = "block"
    BY <1>3, <1>1, Went DEF RecvLink, Sound, Labels
  <2> QED BY <1>1, <1>2, <2>1, <2>2, AppendOnce
<1>4. CASE RecvUnlink(s)
  <2>1. receivers' = RemoveFirst(receivers, s) /\ asleep' = asleep
    BY <1>4 DEF RecvUnlink
  <2>2. pc'[s] = "recv"
    BY <1>4, <1>1, Went DEF RecvUnlink, Sound, Labels
  <2> QED BY <1>1, <1>2, <2>1, <2>2, RemoveOnce
<1>8. CASE RecvTimeout(s)
  <2>1. receivers' = RemoveFirst(receivers, s) /\ asleep' = asleep
    BY <1>8 DEF RecvTimeout
  <2>2. pc'[s] = "run"
    BY <1>8, <1>1, Went DEF RecvTimeout, Sound, Labels
  <2> QED BY <1>1, <1>2, <2>1, <2>2, RemoveOnce
<1>5. CASE RecvBlock(s)
  <2>1. receivers' = receivers /\ asleep' = asleep \cup {s} /\ pc[s] = "block"
    BY <1>5 DEF RecvBlock
  <2>2. pc'[s] = "unlink"
    BY <1>5, <1>1, Went DEF RecvBlock, Sound, Labels
  <2> QED BY <1>1, <1>2, <2>1, <2>2
<1>6. CASE Recv(s)
  <2>1. receivers' = receivers /\ asleep' = asleep /\ pc[s] = "run"
    BY <1>6 DEF Recv, serverVars
  <2>2. pc'[s] = "recv"
    BY <1>6, <1>1, Went DEF Recv, Sound, Labels
  <2> QED BY <1>1, <1>2, <2>1, <2>2
<1>7. CASE RecvTake(s)
  <2>1. receivers' = receivers /\ asleep' = asleep /\ pc[s] = "recv"
    BY <1>7 DEF RecvTake
  <2>2. pc'[s] = "check"
    BY <1>7, <1>1, Went DEF RecvTake, Sound, Labels
  <2> QED BY <1>1, <1>2, <2>1, <2>2
<1> QED BY <1>3, <1>4, <1>5, <1>6, <1>7, <1>8 DEF Looks

(* Each way a server handles a record r: where it goes, what it writes, and *)
(* where it keeps r afterwards.                                             *)
RefusesIt(s, r) ==
  /\ pc[s] = "check" /\ pc'[s] = "refused" /\ serving[s] = r
  /\ Write(r, Answer(pend[r[1]], "seal"))
  /\ answered' = answered \cup {r} /\ UNCHANGED <<serving, replies, received, dropped>>
IsRefused(s, r) ==
  /\ pc[s] = "refused" /\ pc'[s] = "recv" /\ serving[s] = r
  /\ Write(r, Copied(pend[r[1]]))
  /\ serving' = [serving EXCEPT ![s] = None] /\ UNCHANGED <<replies, answered, received, dropped>>
DeliversIt(s, r) ==
  /\ pc[s] = "check" /\ pc'[s] = "finish" /\ serving[s] = r
  /\ Write(r, Copied(pend[r[1]]))
  /\ received' = received \cup {r} /\ UNCHANGED <<serving, replies, answered, dropped>>
KeepsIt(s, r) ==
  /\ pc[s] = "finish" /\ pc'[s] = "run" /\ serving[s] = r /\ r[1] \in Callers
  /\ UNCHANGED pend
  /\ replies' = [replies EXCEPT ![s] = @ \cup {r}]
  /\ serving' = [serving EXCEPT ![s] = None] /\ UNCHANGED <<answered, received, dropped>>
LosesIt(s, r) ==
  /\ pc[s] = "finish" /\ pc'[s] = "run" /\ serving[s] = r /\ r[1] \in Callers
  /\ dropped' = dropped \cup {r}
  /\ serving' = [serving EXCEPT ![s] = None] /\ UNCHANGED <<pend, replies, answered, received>>
FinishesIt(s, r) ==
  /\ pc[s] = "finish" /\ pc'[s] = "finished" /\ serving[s] = r
  /\ Write(r, Answer(pend[r[1]], pend[r[1]].result))
  /\ answered' = answered \cup {r} /\ UNCHANGED <<serving, replies, received, dropped>>
IsFinished(s, r) ==
  /\ pc[s] = "finished" /\ pc'[s] = "run" /\ serving[s] = r
  /\ Write(r, Ended(pend[r[1]]))
  /\ serving' = [serving EXCEPT ![s] = None] /\ UNCHANGED <<replies, answered, received, dropped>>
Forgets(s, r) ==
  /\ pc[s] = "wake" /\ pc'[s] = "run" /\ serving[s] = r /\ UNCHANGED pend
  /\ serving' = [serving EXCEPT ![s] = None] /\ UNCHANGED <<replies, answered, received, dropped>>
DropsIt(s, r) ==
  /\ pc[s] = "run" /\ pc'[s] = "run" /\ r \in replies[s]
  /\ pend[r[1]].replied \/ ~UnderWay(r)
  /\ replies' = [replies EXCEPT ![s] = @ \ {r}]
  /\ UNCHANGED <<pend, serving, answered, received, dropped>>
RepliesTo(s, r) ==
  /\ pc[s] = "run" /\ pc'[s] = "wake" /\ r \in replies[s]
  /\ Write(r, Answer(pend[r[1]], "ok"))
  /\ replies' = [replies EXCEPT ![s] = @ \ {r}]
  /\ serving' = [serving EXCEPT ![s] = r]
  /\ answered' = answered \cup {r} /\ UNCHANGED <<received, dropped>>

HandlesIt(s, r) == \/ RefusesIt(s, r) \/ IsRefused(s, r) \/ DeliversIt(s, r) \/ KeepsIt(s, r)
                   \/ LosesIt(s, r) \/ FinishesIt(s, r) \/ IsFinished(s, r)
                   \/ Forgets(s, r) \/ DropsIt(s, r) \/ RepliesTo(s, r)

LEMMA HandlesEffect ==
  ASSUME Sound, EndpointAssumption, NEW s \in Servers, Handles(s)
  PROVE  /\ \E r \in Records : HandlesIt(s, r)
         /\ UNCHANGED <<senders, receivers, count, asleep, first>>
         /\ pc' \in [Clients \cup Servers -> Labels]
         /\ \A u \in Clients \cup Servers : u # s => pc'[u] = pc[u]
         /\ \A c \in Clients : c # s
<1>1. \A c \in Clients : c # s
  BY DEF EndpointAssumption
<1>2. UNCHANGED <<senders, receivers, count, asleep, first>>
  BY DEF Handles, Refuse, Refused, Deliver, KeepReply, DropReply, Finish, Finished, ReplyWake, Reply,
         clientVars, serverVars
<1>3. s \in Clients \cup Servers /\ TypeOK
  BY DEF Sound
<1>4. ASSUME NEW l \in Labels, Goto(s, l)
      PROVE  /\ pc' \in [Clients \cup Servers -> Labels] /\ pc'[s] = l
             /\ \A u \in Clients \cup Servers : u # s => pc'[u] = pc[u]
  BY <1>3, <1>4, Went
<1>5. ASSUME pc[s] \in Work PROVE serving[s] \in Records
  BY <1>5, InHand
<1>6. /\ {"refused", "recv", "finish", "finished", "run", "wake"} \subseteq Labels
      /\ {"check", "refused", "finish", "finished", "wake"} \subseteq Work
  BY DEF Labels, Work
<1>7. CASE Refuse(s)
  <2>1. Goto(s, "refused") /\ pc[s] = "check"
    BY <1>7 DEF Refuse
  <2>2. RefusesIt(s, serving[s])
    BY <1>4, <1>6, <1>7, <2>1 DEF Refuse, RefusesIt, Answer, serverVars
  <2> QED BY <1>1, <1>2, <1>4, <1>5, <1>6, <2>1, <2>2 DEF HandlesIt
<1>8. CASE Refused(s)
  <2>1. Goto(s, "recv") /\ pc[s] = "refused"
    BY <1>8 DEF Refused
  <2>2. IsRefused(s, serving[s])
    BY <1>4, <1>6, <1>8, <2>1 DEF Refused, IsRefused, Copied, history
  <2> QED BY <1>1, <1>2, <1>4, <1>5, <1>6, <2>1, <2>2 DEF HandlesIt
<1>9. CASE Deliver(s)
  <2>1. Goto(s, "finish") /\ pc[s] = "check"
    BY <1>9 DEF Deliver
  <2>2. DeliversIt(s, serving[s])
    BY <1>4, <1>6, <1>9, <2>1 DEF Deliver, DeliversIt, Copied, serverVars
  <2> QED BY <1>1, <1>2, <1>4, <1>5, <1>6, <2>1, <2>2 DEF HandlesIt
<1>10. CASE KeepReply(s)
  <2>1. Goto(s, "run") /\ pc[s] = "finish"
    BY <1>10 DEF KeepReply
  <2>2. KeepsIt(s, serving[s])
    BY <1>4, <1>6, <1>10, <2>1 DEF KeepReply, KeepsIt, history, clientVars
  <2> QED BY <1>1, <1>2, <1>4, <1>5, <1>6, <2>1, <2>2 DEF HandlesIt
<1>14. CASE DropReply(s)
  <2>1. Goto(s, "run") /\ pc[s] = "finish"
    BY <1>14 DEF DropReply
  <2>2. LosesIt(s, serving[s])
    BY <1>4, <1>6, <1>14, <2>1 DEF DropReply, LosesIt, clientVars
  <2> QED BY <1>1, <1>2, <1>4, <1>5, <1>6, <2>1, <2>2 DEF HandlesIt
<1>11. CASE Finish(s)
  <2>1. Goto(s, "finished") /\ pc[s] = "finish"
    BY <1>11 DEF Finish
  <2>2. FinishesIt(s, serving[s])
    <3>1. Answer(pend[serving[s][1]], pend[serving[s][1]].result)
            = [pend[serving[s][1]] EXCEPT !.replied = TRUE]
      <4>1. serving[s][1] \in Clients
        BY <1>5, <1>6, <2>1 DEF Records
      <4>2. pend[serving[s][1]] \in Flags
        BY <1>3, <4>1 DEF TypeOK, Flags
      <4> QED BY <4>2 DEF Answer, Flags
    <3> QED BY <1>4, <1>6, <1>11, <2>1, <3>1 DEF Finish, FinishesIt, serverVars
  <2> QED BY <1>1, <1>2, <1>4, <1>5, <1>6, <2>1, <2>2 DEF HandlesIt
<1>15. CASE Finished(s)
  <2>1. Goto(s, "run") /\ pc[s] = "finished"
    BY <1>15 DEF Finished
  <2>2. IsFinished(s, serving[s])
    BY <1>4, <1>6, <1>15, <2>1 DEF Finished, IsFinished, Ended, history
  <2> QED BY <1>1, <1>2, <1>4, <1>5, <1>6, <2>1, <2>2 DEF HandlesIt
<1>12. CASE ReplyWake(s)
  <2>1. Goto(s, "run") /\ pc[s] = "wake"
    BY <1>12 DEF ReplyWake
  <2>2. Forgets(s, serving[s])
    BY <1>4, <1>6, <1>12, <2>1 DEF ReplyWake, Forgets, history, clientVars
  <2> QED BY <1>1, <1>2, <1>4, <1>5, <1>6, <2>1, <2>2 DEF HandlesIt
<1>13. ASSUME NEW r \in Records, Reply(s, r)
       PROVE  /\ HandlesIt(s, r)
              /\ pc' \in [Clients \cup Servers -> Labels]
              /\ \A u \in Clients \cup Servers : u # s => pc'[u] = pc[u]
  <2>1. CASE Reads(r, "replied", TRUE) /\ UNCHANGED <<pend, answered, serving, pc>>
    <3>1. pend[r[1]].replied \/ ~UnderWay(r)
      BY <2>1 DEF Reads
    <3>2. DropsIt(s, r)
      BY <1>13, <2>1, <3>1 DEF Reply, DropsIt
    <3> QED BY <1>3, <2>1, <3>2 DEF HandlesIt, TypeOK, Labels
  <2>2. CASE Goto(s, "wake")
    <3>1. pc'[s] = "wake" /\ pc[s] = "run"
      BY <1>4, <1>6, <1>13, <2>2 DEF Reply
    <3>2. RepliesTo(s, r)
      BY <1>13, <3>1 DEF Reply, RepliesTo, Answer
    <3> QED BY <1>4, <1>6, <2>2, <3>2 DEF HandlesIt
  <2> QED BY <1>13, <2>1, <2>2 DEF Reply
<1> QED BY <1>1, <1>2, <1>7, <1>8, <1>9, <1>10, <1>11, <1>12, <1>13, <1>14, <1>15 DEF Handles

(* What handling a record writes to the clients' records: only r's client's *)
(* changes, and whether its call is over changes only if r is that call or  *)
(* the write is one its call may see late.                                  *)
LEMMA HandlesTypes ==
  ASSUME Sound, EndpointAssumption, NEW s \in Servers, NEW r \in Records, HandlesIt(s, r)
  PROVE  /\ pend' \in [Clients -> Flags]
         /\ \A c \in Clients : c # r[1] => pend'[c] = pend[c]
         /\ serving' \in [Servers -> Records \cup {None}] /\ serving'[s] \in {r, None, serving[s]}
         /\ replies' \in [Servers -> SUBSET Records] /\ replies'[s] \in SUBSET (replies[s] \cup {r})
         /\ \A t \in Servers : t # s => serving'[t] = serving[t] /\ replies'[t] = replies[t]
         /\ answered' \in SUBSET Records /\ received' \in SUBSET Records
         /\ answered \subseteq answered' /\ received \subseteq received'
         /\ dropped' \in SUBSET Records /\ (dropped' = dropped \/ LosesIt(s, r))
<1>1. /\ pend \in [Clients -> Flags] /\ r[1] \in Clients /\ pend[r[1]] \in Flags
      /\ serving \in [Servers -> Records \cup {None}] /\ replies \in [Servers -> SUBSET Records]
      /\ answered \in SUBSET Records /\ received \in SUBSET Records /\ TypeOK
      /\ dropped \in SUBSET Records
  BY DEF Sound, TypeOK, Records, Flags
<1>2. /\ pend' \in [Clients -> Flags]
      /\ \A c \in Clients : c # r[1] => pend'[c] = pend[c]
  <2>1. \A x \in Results : /\ Answer(pend[r[1]], x) \in Flags /\ Copied(pend[r[1]]) \in Flags
                           /\ Ended(pend[r[1]]) \in Flags /\ pend[r[1]].result \in Results
    BY <1>1, FlagsKept
  <2>2. "seal" \in Results /\ "ok" \in Results
    BY DEF Results
  <2>3. CASE pend' = pend
    BY <1>1, <2>3
  <2>4. ASSUME NEW f \in Flags, Write(r, f)
        PROVE  pend' \in [Clients -> Flags] /\ \A c \in Clients : c # r[1] => pend'[c] = pend[c]
    BY <1>1, <2>4, Wrote
  <2>5. CASE \/ Write(r, Answer(pend[r[1]], "seal")) \/ Write(r, Answer(pend[r[1]], "ok"))
             \/ Write(r, Answer(pend[r[1]], pend[r[1]].result))
             \/ Write(r, Copied(pend[r[1]])) \/ Write(r, Ended(pend[r[1]]))
    BY <2>1, <2>2, <2>4, <2>5
  <2> QED BY <2>3, <2>5 DEF HandlesIt, RefusesIt, IsRefused, DeliversIt, KeepsIt, LosesIt,
                            FinishesIt, IsFinished,
                            Forgets, DropsIt, RepliesTo
<1>3. /\ serving' \in [Servers -> Records \cup {None}] /\ serving'[s] \in {r, None, serving[s]}
      /\ \A t \in Servers : t # s => serving'[t] = serving[t]
  <2>1. \/ serving' = serving \/ serving' = [serving EXCEPT ![s] = None]
        \/ serving' = [serving EXCEPT ![s] = r]
    BY DEF HandlesIt, RefusesIt, IsRefused, DeliversIt, KeepsIt, LosesIt, FinishesIt, IsFinished, Forgets, DropsIt,
           RepliesTo
  <2> QED BY <1>1, <2>1
<1>4. /\ replies' \in [Servers -> SUBSET Records] /\ replies'[s] \in SUBSET (replies[s] \cup {r})
      /\ \A t \in Servers : t # s => replies'[t] = replies[t]
  <2>1. \/ replies' = replies \/ replies' = [replies EXCEPT ![s] = @ \ {r}]
        \/ replies' = [replies EXCEPT ![s] = @ \cup {r}]
    BY DEF HandlesIt, RefusesIt, IsRefused, DeliversIt, KeepsIt, LosesIt, FinishesIt, IsFinished, Forgets, DropsIt,
           RepliesTo
  <2> QED BY <1>1, <2>1
<1>5. /\ answered' \in SUBSET Records /\ received' \in SUBSET Records
      /\ answered \subseteq answered' /\ received \subseteq received'
      /\ dropped' \in SUBSET Records /\ (dropped' = dropped \/ LosesIt(s, r))
  BY <1>1 DEF HandlesIt, RefusesIt, IsRefused, DeliversIt, KeepsIt, LosesIt, FinishesIt, IsFinished, Forgets, DropsIt,
              RepliesTo
<1> QED BY <1>2, <1>3, <1>4, <1>5

(* The servers' steps keep what holds of every client and server.           *)
LEMMA LooksKeepsSound ==
  ASSUME Sound, EndpointAssumption, NEW s \in Servers, Looks(s)
  PROVE  Sound'
<1>1. /\ senders \in Seq(Clients) /\ IsInjective(senders) /\ count \in [Clients -> 0..MaxCalls]
      /\ serving \in [Servers -> Records \cup {None}] /\ MaxCalls \in Nat
      /\ s \in Clients \cup Servers
  BY DEF Sound, TypeOK, ClientsSound, EndpointAssumption
<1>2. /\ UNCHANGED <<pend, count, first, replies, answered, received, dropped>>
      /\ pc[s] \in {"run", "recv", "block", "unlink"}
      /\ pc' \in [Clients \cup Servers -> Labels]
      /\ \A u \in Clients \cup Servers : u # s => pc'[u] = pc[u]
      /\ \A c \in Clients : c # s
  BY LooksEffect
<1>3. /\ receivers' \in Seq(Servers) /\ IsInjective(receivers') /\ asleep' \in SUBSET Servers
      /\ \A t \in Servers : Contains(receivers', t) <=> pc'[t] \in {"block", "unlink"}
  BY ReceiversKept
<1>4. /\ senders' \in Seq(Clients) /\ IsInjective(senders')
      /\ \A c \in Clients : Contains(senders', c) => Contains(senders, c)
      /\ serving' \in [Servers -> Records \cup {None}]
      /\ \A t \in Servers : t # s => serving'[t] = serving[t]
      /\ pc'[s] \in {"run", "recv", "block", "unlink", "check"}
      /\ serving'[s] # None <=> pc'[s] = "check"
      /\ serving'[s] # None => serving'[s] \in Records /\ serving'[s][2] <= count[serving'[s][1]]
  <2>1. serving[s] = None
    BY <1>2 DEF Sound, ServersSound, Work
  <2>2. CASE pc'[s] \in {"run", "recv", "block", "unlink"} /\ UNCHANGED <<senders, serving>>
    BY <1>1, <2>1, <2>2
  <2>3. CASE /\ pc'[s] = "check" /\ senders # <<>> /\ senders' = Tail(senders)
             /\ serving' = [serving EXCEPT ![s] = Current(Head(senders))]
    <3>1. PICK c : c = Head(senders)
      OBVIOUS
    <3>2. /\ Tail(senders) \in Seq(Clients) /\ IsInjective(Tail(senders)) /\ c \in Clients
          /\ \A x : Contains(Tail(senders), x) => Contains(senders, x)
          /\ Contains(senders, c)
      BY <1>1, <2>3, <3>1, TailOnce
    <3>3. count[c] \in 1..MaxCalls
      BY <1>1, <3>2 DEF Sound, ClientsSound
    <3>4. Current(c) \in Records /\ Current(c)[1] = c /\ Current(c)[2] <= count[c]
      BY <3>2, <3>3 DEF Current, Records
    <3>5. Current(c) # None
      BY <1>1, <3>4 DEF EndpointAssumption, Records
    <3>6. serving' = [serving EXCEPT ![s] = Current(c)] /\ serving'[s] = Current(c)
      BY <1>1, <2>3, <3>1
    <3> QED BY <1>1, <2>3, <3>2, <3>4, <3>5, <3>6
  <2> QED BY <2>2, <2>3, LooksEffect
<1>5. TypeOK'
  BY <1>1, <1>2, <1>3, <1>4 DEF Sound, TypeOK, Labels
<1>6. ServersSound'
  <2>1. \A t \in Servers : pc'[t] \in {"run", "recv", "block", "unlink"} \cup Work
    BY <1>2, <1>4 DEF Sound, ServersSound, Work
  <2>2. \A t \in Servers : serving'[t] # None <=> pc'[t] \in Work
    BY <1>2, <1>4 DEF Sound, ServersSound, Work
  <2>3. \A t \in Servers : serving'[t] # None => serving'[t][2] <= count[serving'[t][1]]
    BY <1>4 DEF Sound, ServersSound
  <2>4. \A t \in Servers : pc'[t] = "refused" => serving'[t] \in answered
    BY <1>2, <1>4 DEF Sound, ServersSound
  <2>5. /\ \A t \in Servers : \A r \in replies[t] : r[1] \in Callers /\ r[2] <= count[r[1]]
        /\ \A r \in dropped : r[2] <= count[r[1]]
    BY DEF Sound, ServersSound
  <2> QED BY <1>2, <1>3, <2>1, <2>2, <2>3, <2>4, <2>5 DEF ServersSound
<1>7. ClientsSound'
  BY <1>2, <1>4 DEF Sound, ClientsSound
<1> QED BY <1>5, <1>6, <1>7 DEF Sound

LEMMA HandlesKeepsSound ==
  ASSUME Sound, EndpointAssumption, NEW s \in Servers, Handles(s)
  PROVE  Sound'
<1>1. PICK r \in Records : HandlesIt(s, r)
  BY HandlesEffect
<1>2. /\ UNCHANGED <<senders, receivers, count, asleep, first>>
      /\ pc' \in [Clients \cup Servers -> Labels]
      /\ \A u \in Clients \cup Servers : u # s => pc'[u] = pc[u]
      /\ \A c \in Clients : c # s
  BY HandlesEffect
<1>3. /\ pend' \in [Clients -> Flags]
      /\ serving' \in [Servers -> Records \cup {None}]
      /\ replies' \in [Servers -> SUBSET Records] /\ replies'[s] \in SUBSET (replies[s] \cup {r})
      /\ \A t \in Servers : t # s => serving'[t] = serving[t] /\ replies'[t] = replies[t]
      /\ answered' \in SUBSET Records /\ received' \in SUBSET Records
      /\ answered \subseteq answered' /\ received \subseteq received'
      /\ dropped' \in SUBSET Records /\ (dropped' = dropped \/ LosesIt(s, r))
  BY <1>1, HandlesTypes
<1>4. TypeOK'
  BY <1>2, <1>3 DEF Sound, TypeOK, Labels, Flags
<1>5. /\ serving \in [Servers -> Records \cup {None}] /\ replies \in [Servers -> SUBSET Records]
      /\ r # None /\ r[1] \in Clients /\ r[2] \in Nat
      /\ MaxCalls \in Nat /\ count \in [Clients -> 0..MaxCalls]
  BY DEF Sound, TypeOK, EndpointAssumption, Records
<1>6. \A t \in Servers : pc'[t] \in {"run", "recv", "block", "unlink"} \cup Work
  BY <1>1, <1>2 DEF Sound, ServersSound, Work, HandlesIt, RefusesIt, IsRefused, DeliversIt, KeepsIt,
                    LosesIt, FinishesIt, IsFinished, Forgets, DropsIt, RepliesTo
<1>7. serving'[s] # None <=> pc'[s] \in Work
  BY <1>1, <1>5 DEF Sound, ServersSound, Work, HandlesIt, RefusesIt, IsRefused, DeliversIt, KeepsIt,
                    LosesIt, FinishesIt, IsFinished, Forgets, DropsIt, RepliesTo
<1>8. \A t \in Servers : Contains(receivers, t) <=> pc'[t] \in {"block", "unlink"}
  BY <1>1, <1>2 DEF Sound, ServersSound, HandlesIt, RefusesIt, IsRefused, DeliversIt, KeepsIt,
                    LosesIt, FinishesIt, IsFinished, Forgets, DropsIt, RepliesTo
<1>9. serving'[s] # None => serving'[s] = r
  BY <1>1, <1>5 DEF Sound, ServersSound, Work, HandlesIt, RefusesIt, IsRefused, DeliversIt, KeepsIt,
                    LosesIt, FinishesIt, IsFinished, Forgets, DropsIt, RepliesTo
<1>10. pc'[s] = "refused" => r \in answered' /\ serving'[s] = r
  BY <1>1, <1>5 DEF HandlesIt, RefusesIt, IsRefused, DeliversIt, KeepsIt,
                    LosesIt, FinishesIt, IsFinished, Forgets, DropsIt, RepliesTo
<1>11. r[2] <= count[r[1]]
  BY <1>1, <1>5 DEF Sound, ServersSound, HandlesIt, RefusesIt, IsRefused, DeliversIt, KeepsIt,
                    LosesIt, FinishesIt, IsFinished, Forgets, DropsIt, RepliesTo
<1>12. replies'[s] # replies[s] => replies'[s] \subseteq replies[s] \/ r[1] \in Callers
  BY <1>1, <1>5 DEF HandlesIt, RefusesIt, IsRefused, DeliversIt, KeepsIt,
                    LosesIt, FinishesIt, IsFinished, Forgets, DropsIt, RepliesTo
<1>13. ServersSound'
  <2>1. \A t \in Servers : serving'[t] # None <=> pc'[t] \in Work
    BY <1>2, <1>3, <1>7 DEF Sound, ServersSound
  <2>2. \A t \in Servers : serving'[t] # None => serving'[t][2] <= count[serving'[t][1]]
    BY <1>3, <1>9, <1>11 DEF Sound, ServersSound
  <2>3. \A t \in Servers : pc'[t] = "refused" => serving'[t] \in answered'
    BY <1>2, <1>3, <1>10 DEF Sound, ServersSound
  <2>4. \A t \in Servers : \A q \in replies'[t] : q[1] \in Callers /\ q[2] <= count[q[1]]
    BY <1>3, <1>11, <1>12 DEF Sound, ServersSound
  <2>5. \A q \in dropped' : q[2] <= count[q[1]]
    BY <1>3, <1>11 DEF Sound, ServersSound, LosesIt
  <2> QED BY <1>2, <1>6, <1>8, <2>1, <2>2, <2>3, <2>4, <2>5 DEF ServersSound
<1>14. ClientsSound'
  BY <1>2 DEF Sound, ClientsSound
<1> QED BY <1>4, <1>13, <1>14 DEF Sound
-----------------------------------------------------------------------------
(* One patient client.  A step that is about others leaves its request      *)
(* where it is.                                                             *)
LEMMA OthersKeep ==
  ASSUME Sound, Sound', EndpointAssumption, NEW c \in Patient, Owned(c),
         pc'[c] = pc[c], count'[c] = count[c], Over(c)' <=> Over(c),
         Contains(senders', c) <=> Contains(senders, c),
         \A s \in Servers : serving[s] # None /\ serving[s][1] = c =>
                              serving'[s] = serving[s] /\ pc'[s] = pc[s],
         \A s \in Servers : serving'[s] # None /\ serving'[s][1] = c => serving'[s] = serving[s],
         \A s \in Servers, r \in Records : r[1] = c => (r \in replies'[s] <=> r \in replies[s]),
         \A r \in Records : r[1] = c => (r \in dropped' <=> r \in dropped),
         answered \subseteq answered', received \subseteq received'
  PROVE  Owned(c)'
<1>1. /\ Current(c)' = Current(c) /\ Current(c)[1] = c /\ Current(c) # None
      /\ Waits(c)' <=> Waits(c)
  <2>1. Current(c) \in Clients \X Nat
    BY DEF Sound, TypeOK, Patient, Current, EndpointAssumption
  <2> QED BY <2>1 DEF Current, Waits, EndpointAssumption
<1>2. \A s \in Servers : serving'[s] = Current(c) <=> serving[s] = Current(c)
  BY <1>1
<1>3. \A s \in Servers : \A r \in replies'[s] \cup replies[s] : r \in Records
  BY DEF Sound, TypeOK
<1>4. /\ \A s \in Servers : Current(c) \in replies'[s] <=> Current(c) \in replies[s]
      /\ Current(c) \in dropped' <=> Current(c) \in dropped
  <2>1. \A r \in dropped' \cup dropped : r \in Records
    BY DEF Sound, TypeOK
  <2> QED BY <1>1, <1>3, <2>1
<1>5. Held(c)'
  <2>1. ASSUME NEW s \in Servers, serving'[s] # None, serving'[s][1] = c
        PROVE  serving[s] # None /\ serving[s][1] = c /\ serving'[s] = serving[s] /\ pc'[s] = pc[s]
    BY <2>1
  <2>2. Held(c)
    BY DEF Owned
  <2>3. \A s \in Servers : serving'[s] # None /\ serving'[s][1] = c /\ pc'[s] \in Busy(c) =>
                          serving'[s] = Current(c) /\ Waits(c)
    BY <2>1, <2>2 DEF Held
  <2>4. \A s \in Servers : serving'[s] = Current(c) /\ Waits(c) => pc'[s] \in Busy(c)
    BY <1>1, <2>1, <2>2 DEF Held
  <2>5. \A s \in Servers : \A r \in replies'[s] : r[1] = c => r = Current(c) /\ Waits(c)
    BY <1>3, <2>2 DEF Held
  <2>6. Contains(senders', c) => Waits(c)
    BY <2>2 DEF Held
  <2> QED BY <1>1, <2>3, <2>4, <2>5, <2>6 DEF Held, Busy
<1>6. Apart(c)'
  BY <1>1, <1>2, <1>4 DEF Owned, Apart
<1>7. Placed(c)'
  BY <1>1, <1>2, <1>4 DEF Owned, Placed
<1>8. Told(c)'
  BY <1>1 DEF Owned, Told
<1> QED BY <1>5, <1>6, <1>7, <1>8 DEF Owned

(* Its own steps: it links the record of a new call, which nothing else     *)
(* holds, and it returns only from a call that nothing holds any more.      *)
LEMMA OwnKeeps ==
  ASSUME Sound, Sound', EndpointAssumption, NEW c \in Patient, Owned(c),
         CallQueue(c) \/ Steps(c) \/ CallReturn(c)
  PROVE  Owned(c)'
<1>1. /\ c \in Clients /\ TypeOK /\ senders \in Seq(Clients) /\ IsInjective(senders)
      /\ UNCHANGED <<serving, replies, answered, received, dropped>>
      /\ \A s \in Servers : pc'[s] = pc[s]
      /\ Held(c) /\ Apart(c) /\ Placed(c) /\ Told(c)
  <2>1. c \in Clients /\ c \in Clients \cup Servers /\ c \notin Servers /\ TypeOK
    BY DEF Sound, Patient, EndpointAssumption
  <2>2. PICK l \in {"run"} \cup Inside : Goto(c, l)
    BY DEF Steps, CallQueue, CallLook, CallFirst, CallRouse, CallReturn, Inside
  <2>3. \A u \in Clients \cup Servers : u # c => pc'[u] = pc[u]
    BY <2>1, <2>2, Went DEF Labels, Inside
  <2>4. UNCHANGED <<serving, replies, answered, received, dropped>>
    BY DEF Steps, CallQueue, CallLook, CallFirst, CallRouse, CallReturn, serverVars, history
  <2> QED BY <2>1, <2>3, <2>4 DEF Sound, TypeOK, ClientsSound, Owned
<1>2. CASE CallQueue(c)
  <2>1. /\ senders' = Append(senders, c) /\ ~Contains(senders, c)
        /\ pc[c] = "run" /\ pc'[c] = "look"
    <3>1. Goto(c, "look")
      BY <1>2 DEF CallQueue
    <3>2. pc'[c] = "look"
      BY <1>1, <3>1, Went DEF Labels
    <3> QED BY <1>1, <1>2, <3>2 DEF CallQueue, Contains, Range
  <2>2. Contains(senders', c)
    BY <1>1, <2>1, AppendOnce
  <2>3. ~Over(c)'
    <3>1. PICK sealed \in BOOLEAN : pend' = [pend EXCEPT ![c] = Fresh(sealed)]
      BY <1>2 DEF CallQueue
    <3>2. pend'[c] = Fresh(sealed)
      BY <1>1, <3>1 DEF TypeOK
    <3> QED BY <3>2, FreshFlags DEF Over
  <2>4. Waits(c)' /\ ~Waits(c)
    BY <2>1, <2>3 DEF Waits, Inside
  <2>5. PICK n \in Nat : n = count[c] /\ count'[c] = n + 1 /\ Current(c)' = <<c, n + 1>>
    <3>1. count' = [count EXCEPT ![c] = @ + 1]
      BY <1>2 DEF CallQueue
    <3>2. count'[c] = count[c] + 1 /\ count[c] \in Nat
      BY <1>1, <3>1 DEF TypeOK
    <3> QED BY <3>2 DEF Current
  <2> DEFINE new == <<c, n + 1>>
  <2>6. new \notin dropped /\ \A s \in Servers : serving[s] # new /\ new \notin replies[s]
    <3>1. \A r \in Records : r[2] <= count[r[1]] => r # new
      BY <2>5
    <3>2. new \in Clients \X Nat /\ new # None
      BY <1>1, <2>5 DEF EndpointAssumption
    <3>3. \A s \in Servers : serving[s] # None => serving[s] \in Records /\ serving[s] # new
      BY <3>1 DEF Sound, TypeOK, ServersSound
    <3>4. \A s \in Servers : \A r \in replies[s] : r \in Records /\ r # new
      BY <3>1 DEF Sound, TypeOK, ServersSound
    <3>5. \A r \in dropped : r \in Records /\ r # new
      BY <3>1 DEF Sound, TypeOK, ServersSound
    <3> QED BY <3>2, <3>3, <3>4, <3>5
  <2>7. Current(c)' = new
    BY <2>5
  <2> HIDE DEF new
  <2>8. Held(c)'
    <3>1. \A s \in Servers : serving[s] # None /\ serving[s][1] = c => pc'[s] \notin Busy(c)
      BY <1>1, <2>4 DEF Held
    <3>2. \A s \in Servers : \A r \in replies[s] : r[1] # c
      BY <1>1, <2>4 DEF Held
    <3>3. \A s \in Servers : serving'[s] = serving[s] /\ replies'[s] = replies[s]
      BY <1>1
    <3>4. \A s \in Servers : serving'[s] # None /\ serving'[s][1] = c => pc'[s] \notin Busy(c)
      BY <3>1, <3>3
    <3> QED BY <2>4, <2>6, <2>7, <3>2, <3>3, <3>4 DEF Held, Busy
  <2>9. Apart(c)'
    BY <1>1, <2>6, <2>7 DEF Apart
  <2>10. Placed(c)'
    BY <2>2 DEF Placed
  <2>11. Told(c)'
    BY <2>3 DEF Told
  <2> QED BY <2>8, <2>9, <2>10, <2>11 DEF Owned
<1>3. CASE Steps(c) \/ CallReturn(c)
  <2>1. /\ UNCHANGED <<senders, pend, count>>
        /\ Current(c)' = Current(c) /\ (Over(c)' <=> Over(c))
    BY <1>3 DEF Steps, CallLook, CallFirst, CallRouse, CallReturn, clientVars, Current, Over
  <2>2. /\ Waits(c)' <=> Waits(c)
        /\ pc'[c] # "run" => pc[c] # "run"
    <3>1. CASE Steps(c)
      <4>1. pc[c] \in Inside /\ \E l \in Inside : Goto(c, l)
        BY <3>1 DEF Steps, CallLook, CallFirst, CallRouse, Inside
      <4>2. pc'[c] \in Inside
        BY <1>1, <4>1, Went DEF Labels, Inside
      <4>3. "run" \notin Inside
        BY DEF Inside
      <4> QED BY <2>1, <4>1, <4>2, <4>3 DEF Waits
    <3>2. CASE CallReturn(c)
      <4>1. Goto(c, "run") /\ pc[c] = "poll" /\ Over(c)
        BY <3>2 DEF CallReturn
      <4>2. pc'[c] = "run"
        BY <1>1, <4>1, Went DEF Labels
      <4> QED BY <2>1, <4>1, <4>2 DEF Waits
    <3> QED BY <1>3, <3>1, <3>2
  <2>3. Held(c)'
    BY <1>1, <2>1, <2>2 DEF Held, Busy
  <2>4. Apart(c)'
    BY <1>1, <2>1 DEF Apart
  <2>5. Placed(c)'
    BY <1>1, <2>1, <2>2 DEF Placed
  <2>6. Told(c)'
    BY <1>1, <2>1, <2>2 DEF Told
  <2> QED BY <2>3, <2>4, <2>5, <2>6 DEF Owned
<1> QED BY <1>2, <1>3

(* A server takes its record off the list.                                  *)
LEMMA TakeKeeps ==
  ASSUME Sound, Sound', EndpointAssumption, NEW c \in Patient, Owned(c),
         NEW s \in Servers, Looks(s), pc'[s] = "check", senders # <<>>, senders' = Tail(senders),
         Head(senders) = c, serving' = [serving EXCEPT ![s] = Current(c)]
  PROVE  Owned(c)'
<1>1. /\ senders \in Seq(Clients) /\ IsInjective(senders) /\ c \in Clients /\ c # s
      /\ UNCHANGED <<pend, count, replies, answered, received, dropped>>
      /\ pc'[c] = pc[c] /\ \A t \in Servers : t # s => pc'[t] = pc[t]
      /\ serving'[s] = Current(c) /\ \A t \in Servers : t # s => serving'[t] = serving[t]
      /\ Held(c) /\ Apart(c) /\ Placed(c) /\ Told(c)
  <2>1. c \in Clients /\ c # s /\ c \in Clients \cup Servers /\ serving \in [Servers -> Records \cup {None}]
    BY LooksEffect DEF Sound, TypeOK, Patient
  <2>2. \A u \in Clients \cup Servers : u # s => pc'[u] = pc[u]
    BY LooksEffect
  <2>3. UNCHANGED <<pend, count, replies, answered, received, dropped>>
    BY LooksEffect
  <2> QED BY <2>1, <2>2, <2>3 DEF Sound, TypeOK, ClientsSound, Owned
<1>2. Contains(senders, c) /\ ~Contains(senders', c)
  BY <1>1, TailOnce
<1>3. /\ Current(c)' = Current(c) /\ Current(c)[1] = c /\ (Over(c)' <=> Over(c))
      /\ Waits(c) /\ Waits(c)'
  BY <1>1, <1>2 DEF Held, Waits, Current, Over
<1>4. Held(c)'
  <2>1. \A t \in Servers : serving'[t] # None /\ serving'[t][1] = c /\ pc'[t] \in Busy(c) =>
                             serving'[t] = Current(c)
    BY <1>1 DEF Held
  <2>2. \A t \in Servers : serving'[t] = Current(c) => pc'[t] \in Busy(c)
    BY <1>1, <1>2, <1>3 DEF Apart, Busy
  <2> QED BY <1>1, <1>2, <1>3, <2>1, <2>2 DEF Held, Busy
<1>5. Apart(c)'
  BY <1>1, <1>2, <1>3 DEF Apart
<1>6. Placed(c)'
  BY <1>1, <1>3 DEF Placed
<1>7. Told(c)'
  <2>1. ~Over(c)'
    BY <1>3 DEF Waits
  <2> QED BY <2>1 DEF Told
<1> QED BY <1>4, <1>5, <1>6, <1>7 DEF Owned

(* Whether the call is over, after a server wrote to its record: an answer  *)
(* ends a call, a copy ends a send, and the other write ends neither.       *)
LEMMA OverAfter ==
  ASSUME Sound, EndpointAssumption, NEW c \in Clients, NEW r \in Records, r[1] = c, NEW x \in Results
  PROVE  /\ Write(r, Answer(pend[r[1]], x)) =>
              IF c \in Callers THEN UnderWay(r) => Over(c)' ELSE Over(c)' <=> Over(c)
         /\ Write(r, Copied(pend[r[1]])) =>
              IF c \in Callers THEN Over(c)' <=> Over(c) ELSE UnderWay(r) => Over(c)'
         /\ Write(r, Ended(pend[r[1]])) => (Over(c)' <=> Over(c))
<1>1. pend[c] \in Flags /\ TypeOK
  BY DEF Sound, TypeOK, Flags
<1>2. /\ Answer(pend[c], x) \in Flags /\ Copied(pend[c]) \in Flags
      /\ Answer(pend[c], x).replied = TRUE /\ Answer(pend[c], x).delivered = pend[c].delivered
      /\ Copied(pend[c]).delivered = TRUE /\ Copied(pend[c]).replied = pend[c].replied
      /\ Ended(pend[c]) \in Flags /\ Ended(pend[c]).delivered = pend[c].delivered
      /\ Ended(pend[c]).replied = pend[c].replied
  BY <1>1, FlagsKept
<1>3. ASSUME NEW f \in Flags, Write(r, f)
      PROVE  pend'[c] = f \/ (~UnderWay(r) /\ pend'[c] = pend[c])
  BY <1>1, <1>3, Wrote
<1>4. ASSUME Write(r, Answer(pend[r[1]], x))
      PROVE  IF c \in Callers THEN UnderWay(r) => Over(c)' ELSE Over(c)' <=> Over(c)
  <2>1. \/ pend'[c] = Answer(pend[c], x)
        \/ ~UnderWay(r) /\ pend'[c] = pend[c]
    BY <1>2, <1>3, <1>4
  <2>2. CASE c \in Callers
    BY <1>2, <2>1, <2>2 DEF Over
  <2>3. CASE c \notin Callers
    <3>1. pend'[c].delivered = pend[c].delivered
      BY <1>2, <2>1
    <3> QED BY <2>3, <3>1 DEF Over
  <2> QED BY <2>2, <2>3
<1>5. ASSUME Write(r, Copied(pend[r[1]]))
      PROVE  IF c \in Callers THEN Over(c)' <=> Over(c) ELSE UnderWay(r) => Over(c)'
  <2>1. \/ pend'[c] = Copied(pend[c])
        \/ ~UnderWay(r) /\ pend'[c] = pend[c]
    BY <1>2, <1>3, <1>5
  <2>2. CASE c \notin Callers
    BY <1>2, <2>1, <2>2 DEF Over
  <2>3. CASE c \in Callers
    <3>1. pend'[c].replied = pend[c].replied
      BY <1>2, <2>1
    <3> QED BY <2>3, <3>1 DEF Over
  <2> QED BY <2>2, <2>3
<1>6. ASSUME Write(r, Ended(pend[r[1]])) PROVE Over(c)' <=> Over(c)
  <2>1. pend'[c] = Ended(pend[c]) \/ pend'[c] = pend[c]
    BY <1>2, <1>3, <1>6
  <2>2. pend'[c].delivered = pend[c].delivered /\ pend'[c].replied = pend[c].replied
    BY <1>2, <2>1
  <2> QED BY <2>2 DEF Over
<1> QED BY <1>4, <1>5, <1>6

(* What is known of a step that handles a record r of the client: all else  *)
(* of the client's state stays.                                             *)
LEMMA HandlesMine ==
  ASSUME Sound, EndpointAssumption, NEW c \in Patient, NEW s \in Servers, Handles(s),
         NEW r \in Records, HandlesIt(s, r), r[1] = c
  PROVE  /\ Current(c)' = Current(c) /\ Current(c)[1] = c /\ Current(c) # None
         /\ senders' = senders /\ pc'[c] = pc[c] /\ r # None
         /\ \A t \in Servers : t # s => /\ serving'[t] = serving[t] /\ pc'[t] = pc[t]
                                        /\ replies'[t] = replies[t]
         /\ serving \in [Servers -> Records \cup {None}]
         /\ replies \in [Servers -> SUBSET Records]
         /\ answered \subseteq answered' /\ received \subseteq received'
         /\ r = Current(c) /\ Waits(c) => UnderWay(r)
<1>1. c \in Clients /\ c \in Clients \cup Servers /\ c # s
  BY DEF Patient, EndpointAssumption
<1>2. Current(c) \in Clients \X Nat
  BY <1>1 DEF Sound, TypeOK, Current
<1>3. UNCHANGED <<senders, count>> /\ pc'[c] = pc[c]
      /\ \A t \in Servers : t # s => pc'[t] = pc[t]
  BY <1>1, HandlesEffect
<1>4. r # None
  BY DEF EndpointAssumption, Records
<1>5. Current(c) # None /\ Current(c)[1] = c
  BY <1>1, <1>2 DEF EndpointAssumption, Current
<1> QED BY <1>3, <1>4, <1>5, HandlesTypes DEF Sound, TypeOK, Current, Waits, UnderWay

(* A server lets go of a record it is done with.                            *)
LEMMA LetGoKeeps ==
  ASSUME Sound, EndpointAssumption, NEW c \in Patient, Owned(c), NEW s \in Servers, Handles(s),
         NEW r \in Records, HandlesIt(s, r), r[1] = c,
         serving[s] = r, pc[s] \notin Busy(c), serving' = [serving EXCEPT ![s] = None],
         replies' = replies, dropped' = dropped, Over(c)' <=> Over(c)
  PROVE  Owned(c)'
<1>1. /\ Current(c)' = Current(c) /\ Current(c)[1] = c /\ Current(c) # None
      /\ senders' = senders /\ pc'[c] = pc[c] /\ r # None
      /\ \A t \in Servers : t # s => serving'[t] = serving[t] /\ pc'[t] = pc[t]
      /\ serving \in [Servers -> Records \cup {None}]
      /\ answered \subseteq answered' /\ received \subseteq received'
      /\ Held(c) /\ Apart(c) /\ Placed(c) /\ Told(c)
  BY HandlesMine DEF Owned
<1>2. (Waits(c)' <=> Waits(c)) /\ serving'[s] = None
  BY <1>1 DEF Waits
<1>3. serving[s] = Current(c) => ~Waits(c)
  BY DEF Owned, Held
<1>4. Held(c)'
  <2>1. \A t \in Servers : serving'[t] # None => t # s
    BY <1>2
  <2>2. \A t \in Servers : serving'[t] # None /\ serving'[t][1] = c /\ pc'[t] \in Busy(c) =>
                             serving'[t] = Current(c) /\ Waits(c)
    BY <1>1, <2>1 DEF Held
  <2>3. \A t \in Servers : serving'[t] = Current(c) /\ Waits(c) => pc'[t] \in Busy(c)
    BY <1>1, <2>1 DEF Held
  <2> QED BY <1>1, <1>2, <2>2, <2>3 DEF Held, Busy
<1>5. Apart(c)'
  BY <1>1, <1>2 DEF Apart
<1>6. Placed(c)'
  BY <1>1, <1>2, <1>3 DEF Placed
<1>7. Told(c)'
  BY <1>1 DEF Told
<1> QED BY <1>4, <1>5, <1>6, <1>7 DEF Owned

(* The call is over: its record was in the server's hands, and what still   *)
(* holds it is the server that finishes with it.                            *)
LEMMA OverKeeps ==
  ASSUME Sound, EndpointAssumption, NEW c \in Patient, Owned(c), NEW s \in Servers, Handles(s),
         NEW r \in Records, HandlesIt(s, r), r[1] = c, r = Current(c), Over(c)',
         serving[s] = r \/ r \in replies[s],
         serving'[s] \in {r, None}, pc'[s] \notin Busy(c) \/ serving'[s] = None,
         replies'[s] = replies[s] \ {r}, dropped' = dropped,
         r \in answered' \cup (IF c \in Senders THEN received' ELSE {})
  PROVE  Owned(c)'
<1>1. /\ Current(c)' = r /\ r # None
      /\ senders' = senders /\ pc'[c] = pc[c]
      /\ \A t \in Servers : t # s => /\ serving'[t] = serving[t] /\ pc'[t] = pc[t]
                                     /\ replies'[t] = replies[t]
      /\ Held(c) /\ Apart(c) /\ Placed(c) /\ Told(c)
  BY HandlesMine DEF Owned
<1>2. ~Waits(c)'
  BY DEF Waits
<1>3. ~Contains(senders', c) /\ r \notin dropped
  BY <1>1 DEF Apart
<1>4. \A t \in Servers : t # s => serving'[t] # r /\ r \notin replies'[t]
  BY <1>1 DEF Apart
<1>5. \A t \in Servers : r \notin replies'[t]
  BY <1>4
<1>6. Held(c)'
  <2>1. \A t \in Servers : ~(serving'[t] # None /\ serving'[t][1] = c /\ pc'[t] \in Busy(c))
    BY <1>1, <1>4 DEF Held
  <2>2. \A t \in Servers : \A q \in replies'[t] : q[1] # c
    <3>1. \A t \in Servers : replies'[t] \subseteq replies[t]
      BY <1>1
    <3> QED BY <1>1, <1>5, <3>1 DEF Held
  <2> QED BY <1>1, <1>2, <1>3, <2>1, <2>2 DEF Held, Busy
<1>7. Apart(c)'
  BY <1>1, <1>3, <1>4, <1>5 DEF Apart
<1>8. Placed(c)'
  BY <1>2 DEF Placed
<1>9. Told(c)'
  BY <1>1 DEF Told
<1> QED BY <1>6, <1>7, <1>8, <1>9 DEF Owned

(* The server goes on with the record, or leaves it behind a capability.    *)
LEMMA GoesOnKeeps ==
  ASSUME Sound, EndpointAssumption, NEW c \in Patient, Owned(c), NEW s \in Servers, Handles(s),
         NEW r \in Records, HandlesIt(s, r), r[1] = c, serving[s] = r, r = Current(c), Waits(c),
         Over(c)' <=> Over(c),
         \/ /\ serving'[s] = r /\ replies'[s] = replies[s] /\ pc'[s] \in Busy(c)
            /\ dropped' = dropped
         \/ serving'[s] = None /\ replies'[s] = replies[s] \cup {r} /\ dropped' = dropped
         \/ serving'[s] = None /\ replies'[s] = replies[s] /\ dropped' = dropped \cup {r}
  PROVE  Owned(c)'
<1>1. /\ Current(c)' = r /\ r # None
      /\ senders' = senders /\ pc'[c] = pc[c]
      /\ \A t \in Servers : t # s => /\ serving'[t] = serving[t] /\ pc'[t] = pc[t]
                                     /\ replies'[t] = replies[t]
      /\ Held(c) /\ Apart(c) /\ Placed(c) /\ Told(c)
  BY HandlesMine DEF Owned
<1>2. Waits(c)'
  BY <1>1 DEF Waits
<1>3. ~Contains(senders', c) /\ r \notin dropped
  BY <1>1 DEF Apart
<1>4. /\ \A t \in Servers : t # s => serving'[t] # r /\ r \notin replies'[t]
      /\ r \notin replies[s]
  BY <1>1 DEF Apart
<1>5. Held(c)'
  <2>1. \A t \in Servers : serving'[t] # None /\ serving'[t][1] = c /\ pc'[t] \in Busy(c) =>
                             serving'[t] = r
    BY <1>1 DEF Held
  <2>2. \A t \in Servers : serving'[t] = r => pc'[t] \in Busy(c)
    BY <1>1, <1>4
  <2>3. \A t \in Servers : \A q \in replies'[t] : q[1] = c => q = r
    BY <1>1 DEF Held
  <2> QED BY <1>1, <1>2, <1>3, <2>1, <2>2, <2>3 DEF Held, Busy
<1>6. Apart(c)'
  BY <1>1, <1>3, <1>4 DEF Apart
<1>7. Placed(c)'
  BY <1>1 DEF Placed
<1>8. Told(c)'
  <2>1. ~Over(c)'
    BY <1>2 DEF Waits
  <2> QED BY <2>1 DEF Told
<1> QED BY <1>5, <1>6, <1>7, <1>8 DEF Owned

(* The server goes on with a record whose call is over.                     *)
LEMMA StaysLate ==
  ASSUME Sound, EndpointAssumption, NEW c \in Patient, Owned(c), NEW s \in Servers, Handles(s),
         NEW r \in Records, HandlesIt(s, r), r[1] = c,
         serving[s] = r, pc[s] \notin Busy(c), pc'[s] \notin Busy(c), serving' = serving,
         replies' = replies, dropped' = dropped, Over(c)' <=> Over(c)
  PROVE  Owned(c)'
<1>1. /\ Current(c)' = Current(c) /\ Current(c)[1] = c /\ Current(c) # None
      /\ senders' = senders /\ pc'[c] = pc[c]
      /\ \A t \in Servers : t # s => pc'[t] = pc[t]
      /\ answered \subseteq answered' /\ received \subseteq received'
      /\ Held(c) /\ Apart(c) /\ Placed(c) /\ Told(c)
  BY HandlesMine DEF Owned
<1>2. Waits(c)' <=> Waits(c)
  BY <1>1 DEF Waits
<1>3. serving[s] = Current(c) => ~Waits(c)
  BY DEF Owned, Held
<1>4. Held(c)'
  BY <1>1, <1>2, <1>3 DEF Held, Busy
<1>5. Apart(c)'
  BY <1>1 DEF Apart
<1>6. Placed(c)'
  BY <1>1, <1>2 DEF Placed
<1>7. Told(c)'
  BY <1>1 DEF Told
<1> QED BY <1>4, <1>5, <1>6, <1>7 DEF Owned

LEMMA HandlesKeepsOwned ==
  ASSUME Sound, EndpointAssumption, NEW c \in Patient, Owned(c), NEW s \in Servers, Handles(s),
         NEW r \in Records, HandlesIt(s, r), r[1] = c
  PROVE  Owned(c)'
<1>1. /\ Current(c) # None /\ r # None /\ c \in Clients
      /\ serving \in [Servers -> Records \cup {None}] /\ replies \in [Servers -> SUBSET Records]
      /\ r = Current(c) /\ Waits(c) => UnderWay(r)
      /\ Held(c) /\ Apart(c)
      /\ c \in Callers <=> c \notin Senders
  BY HandlesMine DEF Owned, Patient, Clients, EndpointAssumption
<1>2. /\ "seal" \in Results /\ "ok" \in Results
      /\ \A x \in Results : Write(r, Answer(pend[r[1]], x)) =>
              IF c \in Callers THEN UnderWay(r) => Over(c)' ELSE Over(c)' <=> Over(c)
      /\ Write(r, Copied(pend[r[1]])) =>
              IF c \in Callers THEN Over(c)' <=> Over(c) ELSE UnderWay(r) => Over(c)'
      /\ Write(r, Ended(pend[r[1]])) => (Over(c)' <=> Over(c))
      /\ pend[r[1]].result \in Results
  <2>1. pend[c] \in Flags
    BY <1>1 DEF Sound, TypeOK, Flags
  <2>2. pend[c].result \in Results /\ "seal" \in Results /\ "ok" \in Results
    BY <2>1, FlagsKept DEF Results
  <2> QED BY <1>1, <2>2, OverAfter
<1>3. serving[s] = r /\ pc[s] \in Busy(c) => r = Current(c) /\ Waits(c) /\ UnderWay(r)
  BY <1>1 DEF Held
<1>4. r \in replies[s] => /\ r = Current(c) /\ Waits(c) /\ UnderWay(r) /\ c \in Callers
                          /\ serving[s] # r
  BY <1>1 DEF Held, Apart, Sound, ServersSound
<1>5. serving[s] = r /\ r = Current(c) => r \notin replies[s]
  BY <1>1 DEF Apart
<1>6. pend' = pend => (Over(c)' <=> Over(c))
  BY DEF Over
<1>7. CASE RefusesIt(s, r)
  <2>1. /\ serving[s] = r /\ pc[s] \in Busy(c) /\ serving'[s] = r /\ replies'[s] = replies[s]
        /\ pc'[s] = "refused" /\ r \in answered' /\ Write(r, Answer(pend[r[1]], "seal"))
        /\ dropped' = dropped
    BY <1>7 DEF RefusesIt, Busy
  <2>2. CASE c \in Callers
    <3>1. Over(c)' /\ replies'[s] = replies[s] \ {r} /\ pc'[s] \notin Busy(c)
      BY <1>2, <1>3, <1>5, <2>1, <2>2 DEF Busy
    <3> QED BY <1>3, <2>1, <3>1, OverKeeps
  <2>3. CASE c \notin Callers
    <3>1. (Over(c)' <=> Over(c)) /\ pc'[s] \in Busy(c)
      BY <1>2, <2>1, <2>3 DEF Busy
    <3> QED BY <1>3, <2>1, <3>1, GoesOnKeeps
  <2> QED BY <2>2, <2>3
<1>8. CASE IsRefused(s, r)
  <2>1. /\ serving[s] = r /\ pc[s] = "refused" /\ replies' = replies
        /\ serving' = [serving EXCEPT ![s] = None] /\ serving'[s] = None
        /\ Write(r, Copied(pend[r[1]])) /\ r \in answered' /\ dropped' = dropped
    BY <1>1, <1>8 DEF IsRefused, Sound, ServersSound
  <2>2. CASE c \in Callers
    <3>1. pc[s] \notin Busy(c) /\ (Over(c)' <=> Over(c))
      BY <1>2, <2>1, <2>2 DEF Busy
    <3> QED BY <2>1, <3>1, LetGoKeeps
  <2>3. CASE c \notin Callers
    <3>1. pc[s] \in Busy(c)
      BY <2>1, <2>3 DEF Busy
    <3>2. Over(c)' /\ replies'[s] = replies[s] \ {r}
      BY <1>2, <1>3, <1>5, <2>1, <2>3, <3>1
    <3> QED BY <1>3, <2>1, <3>1, <3>2, OverKeeps
  <2> QED BY <2>2, <2>3
<1>9. CASE DeliversIt(s, r)
  <2>1. /\ serving[s] = r /\ pc[s] \in Busy(c) /\ serving'[s] = r /\ replies'[s] = replies[s]
        /\ pc'[s] = "finish" /\ r \in received' /\ Write(r, Copied(pend[r[1]]))
        /\ dropped' = dropped
    BY <1>9 DEF DeliversIt, Busy
  <2>2. CASE c \in Callers
    <3>1. (Over(c)' <=> Over(c)) /\ pc'[s] \in Busy(c)
      BY <1>2, <2>1, <2>2 DEF Busy
    <3> QED BY <1>3, <2>1, <3>1, GoesOnKeeps
  <2>3. CASE c \notin Callers
    <3>1. Over(c)' /\ replies'[s] = replies[s] \ {r} /\ pc'[s] \notin Busy(c) /\ c \in Senders
      BY <1>1, <1>2, <1>3, <1>5, <2>1, <2>3 DEF Busy
    <3> QED BY <1>3, <2>1, <3>1, OverKeeps
  <2> QED BY <2>2, <2>3
<1>10. CASE KeepsIt(s, r)
  <2>1. /\ serving[s] = r /\ pc[s] \in Busy(c) /\ serving'[s] = None
        /\ replies'[s] = replies[s] \cup {r} /\ pend' = pend /\ dropped' = dropped
    BY <1>1, <1>10 DEF KeepsIt, Busy
  <2> QED BY <1>3, <1>6, <2>1, GoesOnKeeps
<1>15. CASE LosesIt(s, r)
  <2>1. /\ serving[s] = r /\ pc[s] \in Busy(c) /\ serving'[s] = None
        /\ replies'[s] = replies[s] /\ dropped' = dropped \cup {r} /\ pend' = pend
    BY <1>1, <1>15 DEF LosesIt, Busy
  <2> QED BY <1>3, <1>6, <2>1, GoesOnKeeps
<1>11. CASE FinishesIt(s, r)
  <2>1. /\ serving[s] = r /\ pc[s] = "finish" /\ pc'[s] = "finished" /\ replies' = replies
        /\ serving' = serving /\ Write(r, Answer(pend[r[1]], pend[r[1]].result))
        /\ r \in answered' /\ dropped' = dropped
    BY <1>11 DEF FinishesIt
  <2>2. CASE c \in Callers
    <3>1. pc[s] \in Busy(c) /\ pc'[s] \notin Busy(c)
      BY <2>1, <2>2 DEF Busy
    <3>2. Over(c)' /\ replies'[s] = replies[s] \ {r}
      BY <1>2, <1>3, <1>5, <2>1, <2>2, <3>1
    <3> QED BY <1>3, <2>1, <3>1, <3>2, OverKeeps
  <2>3. CASE c \notin Callers
    <3>1. pc[s] \notin Busy(c) /\ pc'[s] \notin Busy(c) /\ (Over(c)' <=> Over(c))
      BY <1>2, <2>1, <2>3 DEF Busy
    <3> QED BY <2>1, <3>1, StaysLate
  <2> QED BY <2>2, <2>3
<1>16. CASE IsFinished(s, r)
  <2>1. /\ serving[s] = r /\ pc[s] = "finished" /\ replies' = replies /\ dropped' = dropped
        /\ serving' = [serving EXCEPT ![s] = None] /\ Write(r, Ended(pend[r[1]]))
    BY <1>16 DEF IsFinished
  <2>2. pc[s] \notin Busy(c) /\ (Over(c)' <=> Over(c))
    BY <1>1, <1>2, <2>1 DEF Busy
  <2> QED BY <2>1, <2>2, LetGoKeeps
<1>12. CASE Forgets(s, r)
  <2>1. /\ serving[s] = r /\ pc[s] \notin Busy(c) /\ replies' = replies /\ pend' = pend
        /\ serving' = [serving EXCEPT ![s] = None] /\ dropped' = dropped
    BY <1>12 DEF Forgets, Busy
  <2> QED BY <1>6, <2>1, LetGoKeeps
<1>13. CASE DropsIt(s, r)
  <2>1. r \in replies[s] /\ (pend[c].replied \/ ~UnderWay(r))
    BY <1>13 DEF DropsIt
  <2> QED BY <1>4, <2>1 DEF Waits, Over
<1>14. CASE RepliesTo(s, r)
  <2>1. /\ r \in replies[s] /\ serving'[s] = r /\ replies'[s] = replies[s] \ {r}
        /\ pc'[s] \notin Busy(c) /\ r \in answered' /\ Write(r, Answer(pend[r[1]], "ok"))
        /\ dropped' = dropped
    BY <1>1, <1>14 DEF RepliesTo, Busy
  <2>2. Over(c)'
    BY <1>2, <1>4, <2>1
  <2> QED BY <1>4, <2>1, <2>2, OverKeeps
<1> QED BY <1>7, <1>8, <1>9, <1>10, <1>11, <1>12, <1>13, <1>14, <1>15, <1>16 DEF HandlesIt
-----------------------------------------------------------------------------
LEMMA ClientKeepsOwned ==
  ASSUME Sound, Sound', EndpointAssumption, NEW c \in Patient, Owned(c), NEW d \in Clients,
         Calls(d)
  PROVE  Owned(c)'
<1>1. CASE d = c
  <2>1. ~CallTimeout(c)
    BY DEF CallTimeout, Patient
  <2> QED BY <1>1, <2>1, OwnKeeps DEF Calls
<1>2. CASE d # c
  <2>1. /\ c \in Clients /\ c \in Clients \cup Servers /\ d \in Clients \cup Servers /\ d \notin Servers
        /\ TypeOK /\ senders \in Seq(Clients) /\ IsInjective(senders)
        /\ count \in [Clients -> 0..MaxCalls]
    BY DEF Sound, TypeOK, ClientsSound, Patient, EndpointAssumption
  <2>2. \A u \in Clients \cup Servers : u # d => pc'[u] = pc[u]
    <3>1. PICK l \in {"run"} \cup Inside : Goto(d, l)
      BY DEF Calls, Steps, CallQueue, CallLook, CallFirst, CallRouse, CallReturn, CallTimeout, Inside
    <3> QED BY <2>1, <3>1, Went DEF Labels, Inside
  <2>3. /\ UNCHANGED <<serving, replies, answered, received, dropped>>
        /\ count'[c] = count[c] /\ pend'[c] = pend[c]
    <3>1. \/ count' = [count EXCEPT ![d] = @ + 1]
          \/ count' = count
      BY DEF Calls, Steps, CallQueue, CallLook, CallFirst, CallRouse, CallReturn, CallTimeout, clientVars
    <3>2. \/ \E sealed \in BOOLEAN : pend' = [pend EXCEPT ![d] = Fresh(sealed)]
          \/ pend' = pend
      BY DEF Calls, Steps, CallQueue, CallLook, CallFirst, CallRouse, CallReturn, CallTimeout, clientVars
    <3>3. UNCHANGED <<serving, replies, answered, received, dropped>>
      BY DEF Calls, Steps, CallQueue, CallLook, CallFirst, CallRouse, CallReturn, CallTimeout,
             serverVars, history
    <3> QED BY <1>2, <2>1, <3>1, <3>2, <3>3 DEF TypeOK
  <2>4. Contains(senders', c) <=> Contains(senders, c)
    <3>1. \/ senders' = senders
          \/ senders' = Append(senders, d) /\ ~Contains(senders, d)
          \/ senders' = RemoveFirst(senders, d)
      BY <2>1 DEF Calls, Steps, CallQueue, CallLook, CallFirst, CallRouse, CallReturn, CallTimeout,
                  clientVars, Contains, Range
    <3>2. CASE senders' = Append(senders, d) /\ ~Contains(senders, d)
      BY <1>2, <2>1, <3>2, AppendOnce
    <3>3. CASE senders' = RemoveFirst(senders, d)
      BY <1>2, <2>1, <3>3, RemoveOnce
    <3>4. CASE senders' = senders
      BY <3>4
    <3> QED BY <3>1, <3>2, <3>3, <3>4
  <2>5. pc'[c] = pc[c] /\ (Over(c)' <=> Over(c)) /\ \A s \in Servers : pc'[s] = pc[s]
    BY <1>2, <2>1, <2>2, <2>3 DEF Over
  <2> QED BY <2>3, <2>4, <2>5, OthersKeep
<1> QED BY <1>1, <1>2

LEMMA LooksKeepsOwned ==
  ASSUME Sound, Sound', EndpointAssumption, NEW c \in Patient, Owned(c), NEW s \in Servers, Looks(s)
  PROVE  Owned(c)'
<1>1. /\ c \in Clients /\ c \in Clients \cup Servers
      /\ senders \in Seq(Clients) /\ IsInjective(senders)
      /\ serving \in [Servers -> Records \cup {None}] /\ serving[s] = None
  BY LooksEffect DEF Sound, TypeOK, ClientsSound, ServersSound, Patient, Work
<1>2. /\ UNCHANGED <<pend, count, replies, answered, received, dropped>>
      /\ \A u \in Clients \cup Servers : u # s => pc'[u] = pc[u]
      /\ c # s
  BY <1>1, LooksEffect
<1>3. pc'[c] = pc[c] /\ (Over(c)' <=> Over(c)) /\ \A t \in Servers : t # s => pc'[t] = pc[t]
  BY <1>1, <1>2 DEF Over
<1>4. CASE UNCHANGED <<senders, serving>>
  BY <1>1, <1>2, <1>3, <1>4, OthersKeep
<1>5. CASE /\ pc'[s] = "check" /\ senders # <<>> /\ senders' = Tail(senders)
           /\ serving' = [serving EXCEPT ![s] = Current(Head(senders))]
  <2>1. PICK d : d = Head(senders)
    OBVIOUS
  <2>2. /\ d \in Clients
        /\ \A x : Contains(Tail(senders), x) <=> Contains(senders, x) /\ x # d
    BY <1>1, <1>5, <2>1, TailOnce
  <2>3. serving' = [serving EXCEPT ![s] = Current(d)]
    BY <1>5, <2>1
  <2>4. CASE d = c
    BY <1>5, <2>1, <2>3, <2>4, TakeKeeps
  <2>5. CASE d # c
    <3>1. /\ serving'[s] = Current(d) /\ Current(d)[1] = d
          /\ \A t \in Servers : t # s => serving'[t] = serving[t]
      BY <1>1, <2>3 DEF Current
    <3>2. Contains(senders', c) <=> Contains(senders, c)
      BY <1>5, <2>2, <2>5
    <3> QED BY <1>1, <1>2, <1>3, <2>5, <3>1, <3>2, OthersKeep
  <2> QED BY <2>4, <2>5
<1> QED BY <1>4, <1>5, LooksEffect

LEMMA HandlesKeepsEach ==
  ASSUME Sound, Sound', EndpointAssumption, NEW c \in Patient, Owned(c), NEW s \in Servers, Handles(s)
  PROVE  Owned(c)'
<1>1. PICK r \in Records : HandlesIt(s, r)
  BY HandlesEffect
<1>2. CASE r[1] = c
  BY <1>1, <1>2, HandlesKeepsOwned
<1>3. CASE r[1] # c
  <2>1. c \in Clients /\ c \in Clients \cup Servers /\ c # s
    BY DEF Patient, EndpointAssumption
  <2>2. /\ UNCHANGED <<senders, count>> /\ pc'[c] = pc[c]
        /\ \A t \in Servers : t # s => pc'[t] = pc[t]
    BY <2>1, HandlesEffect
  <2>3. /\ pend'[c] = pend[c] /\ serving'[s] \in {r, None, serving[s]}
        /\ \A t \in Servers : t # s => serving'[t] = serving[t] /\ replies'[t] = replies[t]
        /\ answered \subseteq answered' /\ received \subseteq received'
    BY <1>1, <1>3, <2>1, HandlesTypes
  <2>4. Over(c)' <=> Over(c)
    BY <2>3 DEF Over
  <2>5. serving[s] \in {r, None}
    BY <1>1 DEF Sound, ServersSound, Work, HandlesIt, RefusesIt, IsRefused, DeliversIt, KeepsIt,
                LosesIt, FinishesIt, IsFinished, Forgets, DropsIt, RepliesTo
  <2>6. \A q \in Records : q # r => (q \in replies'[s] <=> q \in replies[s])
    BY <1>1 DEF Sound, TypeOK, HandlesIt, RefusesIt, IsRefused, DeliversIt, KeepsIt,
                LosesIt, FinishesIt, IsFinished, Forgets, DropsIt, RepliesTo
  <2>7. \A q \in Records : q # r => (q \in dropped' <=> q \in dropped)
    BY <1>1, HandlesTypes DEF LosesIt
  <2> QED BY <1>3, <2>2, <2>3, <2>4, <2>5, <2>6, <2>7, OthersKeep
<1> QED BY <1>2, <1>3

(* The invariant holds at first and is kept by every step.                  *)
LEMMA Start == ASSUME EndpointAssumption, Init PROVE IInv
<1>1. \A t \in Clients \cup Servers : pc[t] = "run"
  BY DEF Init
<1>2. /\ senders = <<>> /\ receivers = <<>> /\ \A c \in Clients : count[c] = 0
      /\ \A s \in Servers : serving[s] = None /\ replies[s] = {}
      /\ asleep = {} /\ answered = {} /\ received = {} /\ dropped = {}
  BY DEF Init
<1>3. (\A x : ~Contains(<<>>, x)) /\ IsInjective(<<>>)
  BY DEF Contains, IsInjective
<1>4. TypeOK
  <2>1. pend \in [Clients -> Flags]
    BY FreshFlags DEF Init
  <2>2. count \in [Clients -> 0..MaxCalls]
    BY DEF Init, EndpointAssumption
  <2>3. /\ pc \in [Clients \cup Servers -> Labels]
        /\ serving \in [Servers -> Records \cup {None}] /\ replies \in [Servers -> SUBSET Records]
        /\ first \in [Clients -> Servers \cup {None}]
    BY DEF Init, Labels
  <2> QED BY <1>2, <1>3, <2>1, <2>2, <2>3 DEF TypeOK, Flags, Labels
<1>5. ServersSound
  BY <1>1, <1>2, <1>3 DEF ServersSound, Work
<1>6. ClientsSound
  BY <1>1, <1>2, <1>3 DEF ClientsSound, Inside
<1>7. ASSUME NEW c \in Patient PROVE Owned(c)
  <2>1. /\ c \in Clients /\ pc[c] = "run" /\ Current(c) = <<c, 0>>
        /\ \A s \in Servers : pc[s] = "run"
    BY <1>1, <1>2 DEF Patient, Current
  <2>2. Current(c) # None
    BY <2>1 DEF EndpointAssumption
  <2> QED BY <1>2, <1>3, <2>1, <2>2 DEF Owned, Held, Apart, Placed, Told, Waits, Inside
<1> QED BY <1>4, <1>5, <1>6, <1>7 DEF IInv, Sound

LEMMA StepKeeps == ASSUME EndpointAssumption, IInv, [Next]_vars PROVE IInv'
<1>1. Sound /\ \A c \in Patient : Owned(c)
  BY DEF IInv
<1>2. ASSUME NEW d \in Clients,
             Calls(d)
      PROVE  IInv'
  BY <1>1, <1>2, ClientKeepsSound, ClientKeepsOwned DEF IInv
<1>3. ASSUME NEW s \in Servers, Looks(s) PROVE IInv'
  BY <1>1, <1>3, LooksKeepsSound, LooksKeepsOwned DEF IInv
<1>4. ASSUME NEW s \in Servers, Handles(s) PROVE IInv'
  BY <1>1, <1>4, HandlesKeepsSound, HandlesKeepsEach DEF IInv
<1>5. CASE UNCHANGED vars
  <2>1. UNCHANGED <<senders, receivers, pend, count, pc, asleep, first, serving, replies, answered,
                    received, dropped>>
    BY <1>5 DEF vars
  <2>2. TypeOK'
    BY <1>1, <2>1 DEF Sound, TypeOK
  <2>3. ServersSound'
    BY <1>1, <2>1 DEF Sound, ServersSound
  <2>4. ClientsSound'
    BY <1>1, <2>1 DEF Sound, ClientsSound
  <2>5. ASSUME NEW c \in Patient PROVE Owned(c)'
    <3>1. Owned(c) /\ Sound /\ Sound'
      BY <1>1, <2>2, <2>3, <2>4 DEF Sound
    <3>2. Over(c)' <=> Over(c)
      BY <2>1 DEF Over
    <3> QED BY <2>1, <3>1, <3>2, OthersKeep
  <2> QED BY <2>2, <2>3, <2>4, <2>5 DEF IInv, Sound
<1>6. CASE Next
  BY <1>2, <1>3, <1>4, <1>6 DEF Next, Calls, Steps, Looks, Handles
<1> QED BY <1>5, <1>6

(* Every reachable state of the endpoint keeps to the invariant: what holds *)
(* a record of a client without a timeout is about the call it is in.       *)
THEOREM RecordsHeld == EndpointAssumption /\ Spec => []IInv
<1> SUFFICES ASSUME EndpointAssumption PROVE Spec => []IInv
  OBVIOUS
<1>1. Init => IInv
  BY Start
<1>2. IInv /\ [Next]_vars => IInv'
  BY StepKeeps
<1> QED BY <1>1, <1>2, PTL DEF Spec

(* The variables of ipc.c's endpoint keep their types.                      *)
THEOREM EndpointTypeCorrect == EndpointAssumption /\ Spec => []TypeOK
<1>1. IInv => TypeOK
  BY DEF IInv, Sound
<1> QED BY <1>1, RecordsHeld, PTL

(* rk_ipc_call and rk_ipc_send without a timeout return only when a server  *)
(* answered this very call, whatever late writes to the stack records of    *)
(* the callers that timed out do.                                           *)
THEOREM AnswersAreOwn == EndpointAssumption /\ Spec => []AnswerIsOwn
<1>1. IInv => AnswerIsOwn
  BY DEF IInv, Owned, Told, AnswerIsOwn, Patient
<1> QED BY <1>1, RecordsHeld, PTL

(* The request of such a client is linked once, in the hands of one server, *)
(* behind one reply capability, or has been dropped by make_reply_cap: none *)
(* is lost otherwise or served twice.                                       *)
THEOREM RequestsInOnePlace == EndpointAssumption /\ Spec => []OnePlace
<1>1. ASSUME IInv PROVE OnePlace
  <2>1. SUFFICES ASSUME NEW c \in Clients \ Timed, pc[c] \in Inside, ~Over(c)
                 PROVE  Linked(c) + Handled(Current(c)) + Kept(Current(c)) + Dropped(Current(c)) = 1
    BY DEF OnePlace
  <2>2. c \in Patient /\ Waits(c) /\ Apart(c) /\ Placed(c)
    BY <1>1, <2>1 DEF Patient, Waits, IInv, Owned
  <2>3. DOMAIN senders = 1..Len(senders) /\ IsInjective(senders)
    BY <1>1 DEF IInv, Sound, TypeOK, ClientsSound
  <2> DEFINE L == {i \in DOMAIN senders : senders[i] = c}
             H == {s \in Servers : serving[s] = Current(c)}
             K == {s \in Servers : Current(c) \in replies[s]}
             D == {d \in dropped : d = Current(c)}
             Total == Linked(c) + Handled(Current(c)) + Kept(Current(c)) + Dropped(Current(c))
  <2>4. /\ Linked(c) = Cardinality(L) /\ Handled(Current(c)) = Cardinality(H)
        /\ Kept(Current(c)) = Cardinality(K) /\ Dropped(Current(c)) = Cardinality(D)
    BY DEF Linked, Handled, Kept, Dropped
  <2>5. /\ Cardinality({}) = 0
        /\ \A x : Cardinality({x}) = 1
    BY FS_EmptySet, FS_Singleton
  <2>6. /\ Contains(senders, c) => \E i : L = {i}
        /\ ~Contains(senders, c) => L = {}
    <3>1. \A i, j \in DOMAIN senders : senders[i] = senders[j] => i = j
      BY <2>3 DEF IsInjective
    <3>2. ASSUME NEW i \in DOMAIN senders, senders[i] = c PROVE L = {i}
      <4>1. i \in L
        BY <3>2
      <4>2. \A j \in L : j = i
        BY <3>1, <3>2
      <4> HIDE DEF L
      <4> QED BY <4>1, <4>2
    <3>3. Contains(senders, c) => \E i \in DOMAIN senders : senders[i] = c
      BY <2>3 DEF Contains
    <3>4. ASSUME ~Contains(senders, c) PROVE \A i \in DOMAIN senders : senders[i] # c
      BY <2>3, <3>4 DEF Contains
    <3>5. ASSUME ~Contains(senders, c) PROVE L = {}
      BY <3>4, <3>5
    <3> HIDE DEF L
    <3> QED BY <3>2, <3>3, <3>5
  <2>7. CASE Contains(senders, c)
    <3>1. H = {} /\ K = {} /\ D = {}
      BY <2>2, <2>7 DEF Apart
    <3>2. Cardinality(L) = 1
      BY <2>5, <2>6, <2>7
    <3> HIDE DEF L, H, K, D
    <3> QED BY <2>4, <2>5, <3>1, <3>2
  <2>8. ASSUME NEW s \in Servers, serving[s] = Current(c)
        PROVE  Total = 1
    <3>1. H = {s} /\ K = {} /\ L = {} /\ D = {}
      BY <2>2, <2>6, <2>8 DEF Apart
    <3>2. Cardinality({s}) = 1
      BY <2>5
    <3> HIDE DEF L, H, K, D
    <3> QED BY <2>4, <2>5, <3>1, <3>2
  <2>9. ASSUME NEW s \in Servers, Current(c) \in replies[s]
        PROVE  Total = 1
    <3>1. H = {} /\ K = {s} /\ L = {} /\ D = {}
      BY <2>2, <2>6, <2>9 DEF Apart
    <3>2. Cardinality({s}) = 1
      BY <2>5
    <3> HIDE DEF L, H, K, D
    <3> QED BY <2>4, <2>5, <3>1, <3>2
  <2>10. ASSUME Current(c) \in dropped
         PROVE  Total = 1
    <3>1. H = {} /\ K = {} /\ L = {} /\ D = {Current(c)}
      BY <2>2, <2>6, <2>10 DEF Apart
    <3>2. Cardinality({Current(c)}) = 1
      BY <2>5
    <3> HIDE DEF L, H, K, D
    <3> QED BY <2>4, <2>5, <3>1, <3>2
  <2> QED BY <2>2, <2>7, <2>8, <2>9, <2>10 DEF Placed
<1> QED BY <1>1, RecordsHeld, PTL
=============================================================================
