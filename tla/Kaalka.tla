-------------------------------- MODULE Kaalka --------------------------------
(***************************************************************************)
(* Seals, envelopes and the replay ledger (kernel/crypto/kaalka.c).  Time  *)
(* counts in EpochSeconds-long epochs; a key is a function of its epoch    *)
(* and purpose, and a MAC is the tuple it was made over, so that it fits   *)
(* only what was sealed.  Sealed envelopes travel over a medium that may   *)
(* delay, repeat or damage them.                                           *)
(***************************************************************************)
EXTENDS Integers, Sequences, SequencesExt, FiniteSets, FiniteSetsExt, TLC

CONSTANTS Senders, Receivers, Seqs, Texts,
          Lifetimes,      \* seconds, 0 for the default
          EpochSeconds,   \* 60
          Slots, Probe,   \* 1024 and 8
          Boot, MaxTime,  \* the wall clock at boot; bound on it
          MaxSent         \* bound on envelopes

VARIABLES now,       \* rk_unix_time
          current,   \* current_epoch
          ledger,    \* the receiver's ledger: slots of subject, seq, epoch
          sent,      \* the envelopes that were sealed
          log,       \* the envelopes that were opened, in order
          displaced  \* entries the ledger gave up before their time

kaalkaVars == <<now, current, ledger, sent, log, displaced>>

EpochOf(sec) == (IF sec < 0 THEN 0 ELSE sec) \div EpochSeconds
Empty == [subject |-> 0, seq |-> 0, epoch |-> 0]

Init == /\ now \in Boot /\ current = EpochOf(now)
        /\ ledger = [k \in 0..(Slots - 1) |-> Empty]
        /\ sent = {} /\ log = <<>> /\ displaced = {}
-----------------------------------------------------------------------------
(* kaalka_derive_key and seal_mac.                                         *)
Key(epoch, purpose) == <<"master", epoch, purpose>>

(* Mutant: the window is not covered by the MAC.                           *)
SealMacLoose(s, subject, payload) == <<Key(s.epoch, "seal"), subject, s.seq, s.epoch, payload>>

SealMac(s, subject, payload) ==
  <<Key(s.epoch, "seal"), subject, s.seq, s.epoch, s.from, s.until, payload>>

(* kaalka_seal_make at a time.                                             *)
SealMake(subject, seq, payload, lifetime) ==
  LET s == [epoch |-> EpochOf(now), subject |-> subject, seq |-> seq, from |-> now,
            until |-> now + (IF lifetime = 0 THEN EpochSeconds ELSE lifetime)]
  IN s @@ [mac |-> SealMac(s, subject, payload)]

(* kaalka_seal_verify: the window first, then the subject, then the MAC.   *)
SealVerify(s, subject, payload) ==
  IF now < s.from \/ (s.until # 0 /\ now >= s.until) THEN "expired"
  ELSE IF s.subject # subject \/ SealMac(s, subject, payload) # s.mac THEN "seal" ELSE "ok"

(* envelope_digest: the header before the seal and the ciphertext.         *)
Digest(e) == <<e.sender, e.receiver, e.seq, e.epoch, e.time, e.text>>
Encrypt(epoch, t) == <<Key(epoch, "envelope"), t>>
Decrypt(epoch, c) == IF c[1] = Key(epoch, "envelope") THEN c[2] ELSE "noise"

(* kaalka_envelope_seal; refresh_epoch rekeys when the epoch turned.       *)
EnvelopeSeal(from, to, seq, text, lifetime) ==
  LET e == [sender |-> from, receiver |-> to, seq |-> seq, epoch |-> EpochOf(now),
            time |-> now, text |-> Encrypt(EpochOf(now), text)]
  IN /\ Cardinality(sent) < MaxSent /\ \A x \in sent : <<x.sender, x.seq>> # <<from, seq>>
     /\ current' = EpochOf(now)
     /\ sent' = sent \cup {e @@ [seal |-> SealMake(to, seq, Digest(e), lifetime)]}
     /\ UNCHANGED <<now, ledger, log, displaced>>
-----------------------------------------------------------------------------
Index(subject, seq) == (subject * 3 + seq) % Slots
Window(subject, seq) == [i \in 1..Probe |-> (Index(subject, seq) + i - 1) % Slots]

(* Mutant: an entry is forgotten as soon as its epoch has passed.          *)
CurrentOneEpoch(slot) == slot.epoch >= EpochOf(now)

(* An entry counts for its epoch and the two after it.                     *)
Current(slot) == slot.epoch + 2 >= EpochOf(now)

(* kaalka_ledger_check: seen in the probe window, or put in its first free *)
(* or aged slot, or over its first.  Epoch zero reads as free.             *)
Seen(subject, seq) == \E k \in Range(Window(subject, seq)) :
                        /\ ledger[k].subject = subject /\ ledger[k].seq = seq /\ Current(ledger[k])
Place(subject, seq) ==
  LET w    == Window(subject, seq)
      open == {i \in 1..Probe : ledger[w[i]].epoch = 0 \/ ~Current(ledger[w[i]])}
  IN w[IF open = {} THEN 1 ELSE Min(open)]

LedgerCheck(subject, seq) ==
  LET k == Place(subject, seq) IN
  /\ ~Seen(subject, seq)
  /\ ledger' = [ledger EXCEPT ![k] = [subject |-> subject, seq |-> seq, epoch |-> EpochOf(now)]]
  /\ displaced' = IF Current(ledger[k]) THEN displaced \cup {<<ledger[k].subject, ledger[k].seq>>} ELSE displaced

(* kaalka_envelope_open of what arrived.                                   *)
EnvelopeOpen(e, me) ==
  /\ e.receiver = me
  /\ SealVerify(e.seal, me, Digest(e)) = "ok"
  /\ LedgerCheck(e.sender, e.seq)
  /\ log' = Append(log, [env |-> e, at |-> now, text |-> Decrypt(e.epoch, e.text)])
  /\ UNCHANGED <<now, current, sent>>

(* What the medium may make of an envelope.                                *)
Damaged(e) == {[e EXCEPT !.seq = s] : s \in Seqs} \cup {[e EXCEPT !.sender = s] : s \in Senders}
              \cup {[e EXCEPT !.text = Encrypt(x.epoch, "noise")] : x \in sent}
              \cup {[e EXCEPT !.seal.until = @ + d, !.seal.from = @ - d] : d \in {0, EpochSeconds}}

Pass == /\ now < MaxTime /\ now' = now + 1
        /\ UNCHANGED <<current, ledger, sent, log, displaced>>

Next == \/ \E f \in Senders, t \in Receivers, q \in Seqs, x \in Texts, l \in Lifetimes : EnvelopeSeal(f, t, q, x, l)
        \/ \E e \in sent, me \in Receivers : \E d \in Damaged(e) : Len(log) < MaxSent /\ EnvelopeOpen(d, me)
        \/ Pass
-----------------------------------------------------------------------------
(* What is opened is what somebody sealed for this receiver, unchanged and *)
(* inside its window, whatever epochs turned in between; and nothing is    *)
(* opened twice within two epochs, unless the ledger had to give its entry *)
(* up: for want of a free slot, or because the clock of a machine without  *)
(* a clock reads epoch zero.                                               *)
OpenedOnce ==
  /\ \A i \in DOMAIN log : LET r == log[i] IN
       /\ r.env \in sent /\ r.text # "noise"
       /\ r.env.seal.from <= r.at /\ r.at < r.env.seal.until
  /\ \A i, j \in DOMAIN log : i < j /\ log[i].env = log[j].env
       => \/ EpochOf(log[j].at) > EpochOf(log[i].at) + 2
          \/ <<log[i].env.sender, log[i].env.seq>> \in displaced

(* Stated, and not kept: an entry that has aged is of a seal that expired. *)
AgedHaveExpired ==
  \A i, j \in DOMAIN log : i < j /\ log[i].env = log[j].env
     => <<log[i].env.sender, log[i].env.seq>> \in displaced
=============================================================================
