------------------------------- MODULE Endpoint -------------------------------
(***************************************************************************)
(* Synchronous message passing of kernel/ipc/ipc.c.  A caller links a      *)
(* pending record that lives on its stack, and polls the record's flags; a *)
(* server takes the record off the list, copies the message out and, for a *)
(* call, keeps a single-use reply capability that points at the record.    *)
(*                                                                         *)
(* A record is named by its caller and by which of the caller's calls it   *)
(* is for.  Once the call has returned, its stack slot may already be the  *)
(* record of the caller's next call: a late write then lands there.        *)
(***************************************************************************)
EXTENDS Naturals, Sequences, FiniteSets, SequencesExt, Functions

CONSTANTS Callers, Senders,  \* the threads that use rk_ipc_call, rk_ipc_send
          Servers,
          Timed,             \* the callers and senders that pass a timeout
          MaxCalls,          \* bound: calls of a client, and of all of them
          None

Clients == Callers \cup Senders

EndpointAssumption == /\ Callers \cap Senders = {}
                       /\ Clients \cap Servers = {}
                       /\ Timed \subseteq Clients /\ MaxCalls \in Nat
                       /\ None \notin Clients \X Nat

VARIABLES
  senders,    \* e->senders, the clients whose record is linked
  receivers,  \* e->receivers, the servers that are linked
  pend,       \* client -> its record
  count,      \* client -> calls made, the last of them perhaps under way
  pc,         \* thread -> where it is
  asleep,     \* the servers that are blocked
  first,      \* client -> the server whose record it read off the list
  serving,    \* server -> the record it is working on
  replies,    \* server -> the records its reply capabilities point at
  answered,   \* the calls a server has replied to, finished or refused (history)
  received,   \* the calls a server has copied out (history)
  dropped     \* the calls whose reply capability could not be made (history)

vars == <<senders, receivers, pend, count, pc, asleep, first, serving, replies,
          answered, received, dropped>>

Records == Clients \X (1..MaxCalls)
Results == {None, "ok", "seal"}

(* A server links itself once, and unlinks itself before it looks again.   *)
TypeOK == /\ senders \in Seq(Clients)
          /\ receivers \in Seq(Servers) /\ IsInjective(receivers)
          /\ pend \in [Clients -> [delivered : BOOLEAN, replied : BOOLEAN,
                                   sealed : BOOLEAN, result : Results]]
          /\ count \in [Clients -> 0..MaxCalls]
          /\ pc \in [Clients \cup Servers ->
                       {"run", "look", "first", "rouse", "poll", "recv", "check", "refused",
                        "finish", "finished", "block", "unlink", "wake"}]
          /\ asleep \subseteq Servers /\ first \in [Clients -> Servers \cup {None}]
          /\ serving \in [Servers -> Records \cup {None}]
          /\ replies \in [Servers -> SUBSET Records]
          /\ answered \subseteq Records /\ received \subseteq Records /\ dropped \subseteq Records

Fresh(sealed) == [delivered |-> FALSE, replied |-> FALSE, sealed |-> sealed, result |-> None]

Init == /\ senders = <<>> /\ receivers = <<>>
        /\ pend = [c \in Clients |-> Fresh(TRUE)]
        /\ count = [c \in Clients |-> 0]
        /\ pc = [t \in Clients \cup Servers |-> "run"]
        /\ asleep = {} /\ first = [c \in Clients |-> None]
        /\ serving = [s \in Servers |-> None]
        /\ replies = [s \in Servers |-> {}]
        /\ answered = {} /\ received = {} /\ dropped = {}

Goto(t, l)   == pc' = [pc EXCEPT ![t] = l]
clientVars   == <<senders, pend, count, first>>
serverVars   == <<receivers, asleep, serving, replies>>
history      == <<answered, received, dropped>>

(* The call a client is in, and whether that call is still under way.      *)
Current(c)   == <<c, count[c]>>
Inside       == {"look", "first", "rouse", "poll"}
UnderWay(r)  == r = Current(r[1]) /\ pc[r[1]] \in Inside
-----------------------------------------------------------------------------
(* rk_ipc_call and rk_ipc_send: seal the message (which a check may later  *)
(* refuse) and link the record.  A late write can make a call return with  *)
(* its record still linked; linking that stack slot again would corrupt    *)
(* the list, and there this client's behaviour ends.                       *)
CallQueue(c) ==
  /\ pc[c] = "run" /\ count[c] < MaxCalls /\ SumFunction(count) < MaxCalls
  /\ c \notin Range(senders)
  /\ \E sealed \in BOOLEAN : pend' = [pend EXCEPT ![c] = Fresh(sealed)]
  /\ senders' = Append(senders, c)
  /\ count' = [count EXCEPT ![c] = @ + 1]
  /\ Goto(c, "look") /\ UNCHANGED <<first, serverVars, history>>

(* With e->lock released again, the client tests whether a server is       *)
(* linked ...                                                              *)
CallLook(c) ==
  /\ pc[c] = "look"
  /\ Goto(c, IF receivers = <<>> THEN "poll" ELSE "first")
  /\ UNCHANGED <<clientVars, serverVars, history>>

(* ... reads the first one's record, which, should the list have become    *)
(* empty meanwhile, are the words beside the list's head ...               *)
CallFirst(c) ==
  /\ pc[c] = "first"
  /\ first' = [first EXCEPT ![c] = IF receivers = <<>> THEN None ELSE Head(receivers)]
  /\ Goto(c, "rouse")
  /\ UNCHANGED <<senders, pend, count, serverVars, history>>

(* ... and wakes it.  A record that is no longer linked may read as        *)
(* anything; of the words beside the head no thread can be made, and what  *)
(* does not fault there wakes nobody.                                      *)
CallRouse(c) ==
  /\ pc[c] = "rouse"
  /\ \/ asleep' = asleep \ {first[c]}
     \/ first[c] \notin Range(receivers) /\ UNCHANGED asleep
  /\ first' = [first EXCEPT ![c] = None]
  /\ Goto(c, "poll")
  /\ UNCHANGED <<senders, pend, count, receivers, serving, replies, history>>

(* A call returns once it is replied to, a send once it is delivered.      *)
Over(c) == IF c \in Callers THEN pend[c].replied ELSE pend[c].delivered

CallReturn(c) == /\ pc[c] = "poll" /\ Over(c)
                 /\ Goto(c, "run") /\ UNCHANGED <<clientVars, serverVars, history>>

(* The deadline has passed: unlink the record if no server has taken it.   *)
CallTimeout(c) == /\ c \in Timed /\ pc[c] = "poll" /\ ~Over(c)
                  /\ senders' = RemoveFirst(senders, c)
                  /\ Goto(c, "run")
                  /\ UNCHANGED <<pend, count, first, serverVars, history>>
-----------------------------------------------------------------------------
(* A record whose call has returned reads as anything.                     *)
Reads(r, field, value) == pend[r[1]][field] = value \/ ~UnderWay(r)

(* A server's write to a record: to the record, to nothing that matters,   *)
(* or, if its call has returned, to the record of the caller's next call.  *)
Write(r, f) == \/ pend' = [pend EXCEPT ![r[1]] = f]
               \/ ~UnderWay(r) /\ UNCHANGED pend

Recv(s) == /\ pc[s] = "run"
           /\ Goto(s, "recv") /\ UNCHANGED <<clientVars, serverVars, history>>

\* mutant: the record stays linked while the server works on it
RecvTake_Linked(s) ==
  /\ pc[s] = "recv" /\ senders # <<>>
  /\ serving' = [serving EXCEPT ![s] = Current(Head(senders))]
  /\ Goto(s, "check")
  /\ UNCHANGED <<clientVars, receivers, asleep, replies, history>>

(* One turn of rk_ipc_recv's loop under e->lock: take the first record ... *)
RecvTake(s) ==
  /\ pc[s] = "recv" /\ senders # <<>>
  /\ serving' = [serving EXCEPT ![s] = Current(Head(senders))]
  /\ senders' = Tail(senders)
  /\ Goto(s, "check")
  /\ UNCHANGED <<pend, count, first, receivers, asleep, replies, history>>

(* ... or, if there is none, link itself, block, and unlink itself.        *)
RecvLink(s) ==
  /\ pc[s] = "recv" /\ senders = <<>>
  /\ receivers' = Append(receivers, s)
  /\ Goto(s, "block") /\ UNCHANGED <<clientVars, asleep, serving, replies, history>>

(* A receive whose deadline has passed gives up here, and only here.       *)
RecvTimeout(s) ==
  /\ pc[s] = "block"
  /\ receivers' = RemoveFirst(receivers, s)
  /\ Goto(s, "run") /\ UNCHANGED <<clientVars, asleep, serving, replies, history>>

RecvBlock(s) ==
  /\ pc[s] = "block"
  /\ asleep' = asleep \cup {s}
  /\ Goto(s, "unlink")
  /\ UNCHANGED <<clientVars, receivers, serving, replies, history>>

\* mutant: a server that was woken leaves its record linked
RecvUnlink_Forgotten(s) ==
  /\ pc[s] = "unlink" /\ s \notin asleep
  /\ Goto(s, "recv")
  /\ UNCHANGED <<clientVars, serverVars, history>>

RecvUnlink(s) ==
  /\ pc[s] = "unlink" /\ s \notin asleep
  /\ receivers' = RemoveFirst(receivers, s)
  /\ Goto(s, "recv")
  /\ UNCHANGED <<clientVars, asleep, serving, replies, history>>

(* With the lock released, the seal is checked.  A message that fails is   *)
(* answered with the error, and the server looks for another.              *)
Refuse(s) ==
  /\ pc[s] = "check"
  /\ LET r == serving[s] IN
       /\ Reads(r, "sealed", FALSE)
       /\ Write(r, [pend[r[1]] EXCEPT !.result = "seal", !.replied = TRUE])
       /\ answered' = answered \cup {r}
  /\ Goto(s, "refused")
  /\ UNCHANGED <<senders, count, first, serverVars, received, dropped>>

Refused(s) ==
  /\ pc[s] = "refused"
  /\ LET r == serving[s] IN Write(r, [pend[r[1]] EXCEPT !.delivered = TRUE])
  /\ serving' = [serving EXCEPT ![s] = None]
  /\ Goto(s, "recv")
  /\ UNCHANGED <<senders, count, first, receivers, asleep, replies, history>>

(* The message is copied out and the record marked delivered.              *)
Deliver(s) ==
  /\ pc[s] = "check"
  /\ LET r == serving[s] IN
       /\ Reads(r, "sealed", TRUE)
       /\ Write(r, [pend[r[1]] EXCEPT !.delivered = TRUE])
       /\ received' = received \cup {r}
  /\ Goto(s, "finish")
  /\ UNCHANGED <<senders, count, first, serverVars, answered, dropped>>

(* A call leaves a server that asked for it with a reply capability ...    *)
KeepReply(s) ==
  /\ pc[s] = "finish" /\ serving[s][1] \in Callers
  /\ replies' = [replies EXCEPT ![s] = @ \cup {serving[s]}]
  /\ serving' = [serving EXCEPT ![s] = None]
  /\ Goto(s, "run") /\ UNCHANGED <<clientVars, receivers, asleep, history>>

(* ... or, if make_reply_cap finds no memory or no free slot, with none:    *)
(* the record is neither answered nor kept.                                *)
DropReply(s) ==
  /\ pc[s] = "finish" /\ serving[s][1] \in Callers
  /\ dropped' = dropped \cup {serving[s]}
  /\ serving' = [serving EXCEPT ![s] = None]
  /\ Goto(s, "run")
  /\ UNCHANGED <<clientVars, receivers, asleep, replies, answered, received>>

(* A send, and a call to a server that passed no reply_out, is finished by *)
(* the server: first the flag a caller polls, then the result.             *)
Finish(s) ==
  /\ pc[s] = "finish"
  /\ LET r == serving[s] IN
       /\ Write(r, [pend[r[1]] EXCEPT !.replied = TRUE])
       /\ answered' = answered \cup {r}
  /\ Goto(s, "finished")
  /\ UNCHANGED <<senders, count, first, serverVars, received, dropped>>

Finished(s) ==
  /\ pc[s] = "finished"
  /\ LET r == serving[s] IN Write(r, [pend[r[1]] EXCEPT !.result = "ok"])
  /\ serving' = [serving EXCEPT ![s] = None]
  /\ Goto(s, "run")
  /\ UNCHANGED <<senders, count, first, receivers, asleep, replies, history>>

\* mutant: the reply goes to whoever the server has kept waiting longest
Reply_Crossed(s, r) ==
  /\ pc[s] = "run" /\ r \in replies[s]
  /\ \E q \in replies[s] : /\ Write(q, [pend[q[1]] EXCEPT !.result = "ok", !.replied = TRUE])
                           /\ serving' = [serving EXCEPT ![s] = q]
  /\ replies' = [replies EXCEPT ![s] = @ \ {r}]
  /\ answered' = answered \cup {r}
  /\ Goto(s, "wake")
  /\ UNCHANGED <<senders, count, first, receivers, asleep, received, dropped>>

(* rk_ipc_reply: the lookup uses the capability up; a record that was      *)
(* replied to already is left alone.                                       *)
Reply(s, r) ==
  /\ pc[s] = "run" /\ r \in replies[s]
  /\ replies' = [replies EXCEPT ![s] = @ \ {r}]
  /\ \/ Reads(r, "replied", TRUE) /\ UNCHANGED <<pend, answered, serving, pc>>
     \/ /\ Reads(r, "replied", FALSE)
        /\ Write(r, [pend[r[1]] EXCEPT !.result = "ok", !.replied = TRUE])
        /\ answered' = answered \cup {r}
        /\ serving' = [serving EXCEPT ![s] = r]
        /\ Goto(s, "wake")
  /\ UNCHANGED <<senders, count, first, receivers, asleep, received, dropped>>

(* The caller is woken through the record, though it polls and needs none. *)
ReplyWake(s) ==
  /\ pc[s] = "wake"
  /\ serving' = [serving EXCEPT ![s] = None]
  /\ Goto(s, "run")
  /\ UNCHANGED <<clientVars, receivers, asleep, replies, history>>

Next == \/ \E c \in Clients : \/ CallQueue(c) \/ CallLook(c) \/ CallFirst(c) \/ CallRouse(c)
                              \/ CallReturn(c) \/ CallTimeout(c)
        \/ \E s \in Servers :
             \/ Recv(s) \/ RecvTake(s) \/ RecvLink(s) \/ RecvTimeout(s) \/ RecvBlock(s) \/ RecvUnlink(s)
             \/ Refuse(s) \/ Refused(s) \/ Deliver(s) \/ KeepReply(s) \/ DropReply(s)
             \/ Finish(s) \/ Finished(s) \/ ReplyWake(s) \/ \E r \in Records : Reply(s, r)

Spec == Init /\ [][Next]_vars
-----------------------------------------------------------------------------
(* The call of a client that passes no timeout returns only after a server *)
(* replied to that very call, finished or refused it, and its send only    *)
(* after a server copied that message out or refused it, whatever becomes  *)
(* of the calls of others that time out.                                   *)
AnswerIsOwn ==
  \A c \in Clients \ Timed : pc[c] = "poll" /\ Over(c) =>
    Current(c) \in answered \cup (IF c \in Senders THEN received ELSE {})

(* The request of a client that passes no timeout and is not over is in    *)
(* one place: linked once, in the hands of one server, behind one reply    *)
(* capability, or dropped because that capability could not be made.  None *)
(* is lost otherwise, none is served twice, and none that was dropped is   *)
(* anywhere else.                                                          *)
Linked(c)  == Cardinality({i \in DOMAIN senders : senders[i] = c})
Handled(r) == Cardinality({s \in Servers : serving[s] = r})
Kept(r)    == Cardinality({s \in Servers : r \in replies[s]})
Dropped(r) == Cardinality({d \in dropped : d = r})

OnePlace ==
  \A c \in Clients \ Timed : pc[c] \in Inside /\ ~Over(c) =>
    Linked(c) + Handled(Current(c)) + Kept(Current(c)) + Dropped(Current(c)) = 1

(* Some server can still answer every call that waits without a timeout.   *)
(* It fails when make_reply_cap does: the caller polls for ever.           *)
StillAnswerable ==
  \A c \in Clients \ Timed : pc[c] \in Inside /\ ~Over(c) => Current(c) \notin dropped

(* A server works only on records whose caller still waits: the record is  *)
(* on the caller's stack.                                                  *)
RecordAlive == \A s \in Servers : serving[s] # None => UnderWay(serving[s])

(* The record a client wakes through is a server's.  It fails when the     *)
(* list is emptied between the client's two unlocked reads.                *)
FirstIsServer == \A c \in Clients : pc[c] = "rouse" => first[c] # None
=============================================================================
