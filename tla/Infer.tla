-------------------------------- MODULE Infer --------------------------------
(***************************************************************************)
(* The inference service (kernel/ai/infer.c): a queue of requests, the     *)
(* worker thread that runs the one with the earliest deadline a token at a *)
(* time, and cancellation from any other thread.  Each critical section of *)
(* queue_lock is a step; so is every unlocked access to a request's state  *)
(* in between.                                                             *)
(*                                                                         *)
(* The advisors of the same file share no state with it: a registered      *)
(* function may be asked a policy question, under a deadline, with the     *)
(* kernel's own answer as the fallback.  Nothing locks an advisor:         *)
(* register, unregister and questions of several threads interleave.  The  *)
(* counters, statistics updated without a lock, are left out.              *)
(***************************************************************************)
EXTENDS Integers, Sequences, SequencesExt, FiniteSets

CONSTANTS Reqs,        \* requests
          Orders,      \* records deadline, priority of requests (0: none)
          MaxTokens,   \* bound on max_tokens
          Askers,      \* threads that ask an advisor
          Candidates,  \* the answers they offer
          Fallback,    \* the heuristic's answer
          Stray,       \* an answer that was not offered
          MaxBudget    \* the cap on an advisor's deadline: 5 ms

VARIABLES queue,      \* infer_queue
          req,        \* req[r] : state, order, want, produced
          istats,     \* queue_depth, canceled, completed and failed
          finished,   \* completion_done calls on r->done
          worker,     \* the worker: pc, request in hand, result so far
          canceling,  \* cancels that have unlocked and not completed yet
          advisor,    \* advisors[topic] : registered, its time budget
          ask         \* ask[t] : step of rk_advice_ask, its last answer, the time taken

adviceVars == <<advisor, ask>>
inferVars  == <<queue, req, istats, finished, worker, canceling>>

New     == [state |-> "new", order |-> [deadline |-> 0, priority |-> 0], want |-> 0, produced |-> 0]
Resting == [pc |-> "pick", r |-> 0, rc |-> "ok"]

Init == /\ queue = <<>>
        /\ req = [r \in Reqs |-> New]
        /\ istats = [depth |-> 0, canceled |-> 0, completed |-> 0, failed |-> 0]
        /\ finished = [r \in Reqs |-> 0]
        /\ worker = Resting /\ canceling = {}
        /\ advisor = [fn |-> FALSE, budget |-> 0]
        /\ ask = [t \in Askers |-> [pc |-> "idle", answer |-> Fallback, took |-> 0]]
-----------------------------------------------------------------------------
(* Mutant: a request without a deadline displaces one that has one.        *)
PrefersPriority(a, b) ==
  LET ra == req[a].order  rb == req[b].order IN
  IF ra.deadline # 0 /\ rb.deadline # 0 THEN ra.deadline < rb.deadline ELSE ra.priority < rb.priority

(* pick_next_locked: does a displace b, found before it?                   *)
Displaces(a, b) ==
  LET ra == req[a].order  rb == req[b].order
      aHas == ra.deadline # 0  bHas == rb.deadline # 0
  IN \/ aHas /\ ~bHas
     \/ aHas /\ bHas /\ ra.deadline < rb.deadline
     \/ ~aHas /\ ~bHas /\ ra.priority < rb.priority

PickNext == FoldLeft(LAMBDA best, r : IF req[r].state # "queued" THEN best
                                      ELSE IF best = 0 \/ Displaces(r, best) THEN r ELSE best,
                     0, queue)

Less(n) == IF n = 0 THEN 0 ELSE n - 1

(* rk_infer_submit: the model is verified at the gate or the request fails.*)
Submit(r, order, want, verified) ==
  /\ req[r].state = "new"
  /\ IF verified
     THEN /\ req' = [req EXCEPT ![r] = [state |-> "queued", order |-> order, want |-> want, produced |-> 0]]
          /\ queue' = Append(queue, r)
          /\ istats' = [istats EXCEPT !.depth = @ + 1]
     ELSE req' = [req EXCEPT ![r].state = "refused"] /\ UNCHANGED <<queue, istats>>
  /\ UNCHANGED <<finished, worker, canceling>>

(* rk_infer_cancel under the lock, then completion_done for a request it   *)
(* took off the queue.  list_del on an unlinked request does nothing.      *)
Cancel(r) ==
  /\ \/ /\ req[r].state = "queued"
        /\ queue' = SelectSeq(queue, LAMBDA x : x # r)
        /\ istats' = [istats EXCEPT !.canceled = @ + 1, !.depth = Less(@)]
        /\ canceling' = canceling \cup {r}
     \/ req[r].state = "running" /\ UNCHANGED <<queue, istats, canceling>>
  /\ req' = [req EXCEPT ![r].state = "canceled"]
  /\ UNCHANGED <<finished, worker>>

CancelDone(r) ==
  /\ r \in canceling
  /\ canceling' = canceling \ {r}
  /\ finished' = [finished EXCEPT ![r] = @ + 1]
  /\ UNCHANGED <<queue, req, istats, worker>>
-----------------------------------------------------------------------------
(* infer_worker: unlink the next request ...                               *)
Pick == /\ worker.pc = "pick" /\ PickNext # 0
        /\ queue' = SelectSeq(queue, LAMBDA x : x # PickNext)
        /\ istats' = [istats EXCEPT !.depth = Less(@)]
        /\ worker' = [pc |-> "start", r |-> PickNext, rc |-> "ok"]
        /\ UNCHANGED <<req, finished, canceling>>

(* ... mark it running, without the lock, ...                              *)
Start == /\ worker.pc = "start"
         /\ req' = [req EXCEPT ![worker.r].state = "running"]
         /\ worker' = [worker EXCEPT !.pc = "token"]
         /\ UNCHANGED <<queue, istats, finished, canceling>>

(* ... and run it token by token; the operator may fail, and a request     *)
(* with a deadline stops when it is late.                                  *)
Token == /\ worker.pc = "token"
         /\ LET r == worker.r  me == req[r] IN
            \/ /\ me.state = "canceled"
               /\ worker' = [worker EXCEPT !.pc = "finish", !.rc = "canceled"] /\ UNCHANGED req
            \/ /\ me.state # "canceled"
               /\ worker' = [worker EXCEPT !.pc = "finish", !.rc = "failed"] /\ UNCHANGED req
            \/ /\ me.state # "canceled"
               /\ req' = [req EXCEPT ![r].produced = @ + 1]
               /\ \E late \in {FALSE, me.order.deadline # 0} :
                    worker' = [worker EXCEPT !.pc = IF late \/ me.produced + 1 = me.want THEN "finish" ELSE "token"]
         /\ UNCHANGED <<queue, istats, finished, canceling>>

(* Mutant: a canceled request is not completed.                            *)
FinishQuietly ==
  /\ worker.pc = "finish"
  /\ req' = [req EXCEPT ![worker.r].state = worker.rc]
  /\ UNCHANGED <<queue, istats, finished, canceling>>
  /\ worker' = IF worker.rc = "canceled" THEN Resting ELSE [worker EXCEPT !.pc = "complete"]

(* The outcome under the lock, then completion_done.                       *)
Finish ==
  /\ worker.pc = "finish"
  /\ req' = [req EXCEPT ![worker.r].state = IF worker.rc = "ok" THEN "done" ELSE worker.rc]
  /\ istats' = IF worker.rc = "ok" THEN [istats EXCEPT !.completed = @ + 1]
               ELSE [istats EXCEPT ![worker.rc] = @ + 1]
  /\ worker' = [worker EXCEPT !.pc = "complete"]
  /\ UNCHANGED <<queue, finished, canceling>>
Complete ==
  /\ worker.pc = "complete"
  /\ finished' = [finished EXCEPT ![worker.r] = @ + 1]
  /\ worker' = Resting
  /\ UNCHANGED <<queue, req, istats, canceling>>

Work == Pick \/ Start \/ Token \/ Finish \/ Complete
ServiceNext ==
  \/ Work
  \/ \E r \in Reqs : \/ \E o \in Orders, n \in 1..MaxTokens, v \in BOOLEAN : Submit(r, o, n, v)
                     \/ Cancel(r) \/ CancelDone(r)

Fairness == WF_inferVars(Work) /\ \A r \in Reqs : WF_inferVars(CancelDone(r))
-----------------------------------------------------------------------------
(* rk_advisor_register: a missing or excessive deadline becomes 1 ms.      *)
Register(ns) ==
  /\ advisor' = [fn |-> TRUE, budget |-> IF ns = 0 \/ ns > MaxBudget THEN 1 ELSE ns]
  /\ UNCHANGED ask
Unregister == advisor' = [advisor EXCEPT !.fn = FALSE] /\ UNCHANGED ask

(* rk_advice_ask: the advisor is looked up, and called in a later step; an *)
(* unregistration in between makes it a call through NULL.                 *)
AskCheck(t) == /\ ask[t].pc = "idle"
               /\ ask' = [ask EXCEPT ![t] = IF advisor.fn THEN [@ EXCEPT !.pc = "call"]
                                            ELSE [@ EXCEPT !.answer = Fallback, !.took = 0]]
               /\ UNCHANGED advisor

(* Mutant: an answer is clamped to the candidates but used when late.      *)
AcceptLate(took, ok, choice) == ok /\ choice \in Candidates

(* Late answers, errors and answers that were not offered are dropped.     *)
Accept(took, ok, choice) == took <= advisor.budget /\ ok /\ choice \in Candidates

AskCall(t) ==
  /\ ask[t].pc = "call"
  /\ IF ~advisor.fn THEN ask' = [ask EXCEPT ![t].pc = "fault"]
     ELSE \E took \in 0..(MaxBudget + 1), ok \in BOOLEAN, choice \in Candidates \cup {Fallback, Stray} :
            ask' = [ask EXCEPT ![t] = [pc |-> "idle", took |-> took,
                                       answer |-> IF Accept(took, ok, choice) THEN choice ELSE Fallback]]
  /\ UNCHANGED advisor

AdviceNext == \/ \E ns \in 0..(MaxBudget + 1) : Register(ns)
              \/ Unregister
              \/ \E t \in Askers : AskCheck(t) \/ AskCall(t)
-----------------------------------------------------------------------------
(* The worker never takes a request while another with an earlier deadline *)
(* waits, nor a best-effort one while any deadline waits; equals go in     *)
(* order of arrival, whatever was canceled around them.                    *)
EarliestFirst ==
  [][\A r \in Reqs : worker'.pc = "start" /\ worker'.r = r /\ worker.pc = "pick" =>
       \A i \in DOMAIN queue :
         LET a == req[r].order  b == req[queue[i]].order IN
         /\ b.deadline # 0 => a.deadline # 0 /\ a.deadline <= b.deadline
         /\ \E j \in DOMAIN queue : queue[j] = r /\ (i < j => a # b)]_inferVars

(* At rest every accepted request is completed, has an outcome and has     *)
(* left the queue, and none ever runs that was refused.                    *)
RequestsSound ==
  /\ \A r \in Reqs :
       /\ req[r].state \in {"new", "refused"} => req[r].produced = 0 /\ finished[r] = 0
       /\ req[r].state \in {"done", "failed", "canceled"} =>
            \/ finished[r] > 0 \/ r \in canceling \/ worker.r = r
       /\ req[r].produced <= req[r].want
       /\ req[r].state = "queued" => (\E i \in DOMAIN queue : queue[i] = r) \/ worker.r = r

(* Whatever an advisor returns, however late and whoever registers another *)
(* one meanwhile, the kernel acts on an answer it offered, given within    *)
(* the cap, or on its own.                                                 *)
AdviceBounded ==
  \A t \in Askers : \/ ask[t].answer = Fallback
                    \/ ask[t].answer \in Candidates /\ ask[t].took <= MaxBudget

(* Every accepted request is completed in the end, canceled or not.        *)
Answered == \A r \in Reqs : req[r].state = "queued" ~> finished[r] > 0

(* The comment in rk_infer_cancel: a running request is asked to stop at   *)
(* the next token boundary, a queued one is taken back.  Once a wait for   *)
(* it has returned the worker is done with it.                             *)
WaitedIsOver == \A r \in Reqs : finished[r] > 0 => worker.r # r
=============================================================================
