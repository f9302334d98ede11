--------------------------- MODULE MessengerProofs ---------------------------
(***************************************************************************)
(* Proofs that the router reports on a message once, that the result       *)
(* screen and the history agree with what it reported, that the save of a  *)
(* confirmed message is tried, and that a message which waits for its      *)
(* proof has a slot in which it is found or met a full pool, for any       *)
(* number of messages, any queue and pool sizes and any budget of attempts. *)
(*                                                                         *)
(* None of them is inductive.  What they rest on is that a message is in   *)
(* one place at a time: in the queue, in the slot of a packet that is not  *)
(* proven, or on its way in a transfer (Places), and that a message which  *)
(* is anywhere has not been reported on yet (Undecided).  The screen takes *)
(* a report for the tracked message by the method it was sent with;        *)
(* MethodKnown says that the router goes by the same.                      *)
(***************************************************************************)
EXTENDS Messenger, TLAPS

(* An entry of the queue, its budgets unbounded. *)
QueueEntry ==
    [hash : Hashes, method : Methods, state : {"OUTBOUND", "SENT"}, stamp_pending : BOOLEAN,
     delivery_attempts : Nat, resolution_attempts : Nat, propagation_stamp : BOOLEAN,
     untracked : BOOLEAN]

InQueue(h) == \E i \in DOMAIN pending_outbound : pending_outbound[i].hash = h
HasSlot(h) == \E slot \in pending_proofs : slot[1] = h
Live(h) == InQueue(h) \/ HasSlot(h) \/ h \in outbound_resources \/ h \in prop_resources

Types ==
    /\ pending_outbound \in Seq(QueueEntry)
    /\ pending_proofs \subseteq Hashes \X Nat
    /\ outbound_resources \subseteq Hashes /\ prop_resources \subseteq Hashes

(* A message is queued once; it has a slot only while it is the first and   *)
(* sent, or after it has left the queue; one that is being transferred has   *)
(* left the queue and has no slot.                                            *)
Places ==
    /\ \A i, j \in DOMAIN pending_outbound :
          pending_outbound[i].hash = pending_outbound[j].hash => i = j
    /\ \A i \in DOMAIN pending_outbound :
          HasSlot(pending_outbound[i].hash) => i = 1 /\ pending_outbound[1].state = "SENT"
    /\ \A s, t \in pending_proofs : s[1] = t[1] => s = t
    /\ \A h \in outbound_resources \cup prop_resources : ~InQueue(h) /\ ~HasSlot(h)
    /\ outbound_resources \cap prop_resources = {}

Propagated(e) == e.method = "PROPAGATED"

Unstamped ==
    \A i \in DOMAIN pending_outbound :
        pending_outbound[i].stamp_pending => ~Propagated(pending_outbound[i])

Undecided ==
    \A h \in Hashes :
        /\ Live(h) => verdicts[h] = <<>> /\ h <= sends
        /\ h > sends => verdicts[h] = <<>>

MethodKnown ==
    /\ \A i \in DOMAIN pending_outbound :
          pending_outbound[i].hash = msngr_send_message_hash =>
             (Propagated(pending_outbound[i]) <=> msngr_send_method = "PROPAGATED")
    /\ msngr_send_message_hash \in prop_resources => msngr_send_method = "PROPAGATED"

Router == Types /\ Places /\ Unstamped

Told ==
    /\ verdicts \in [Hashes -> Seq({"delivered", "failed", "sent"})]
    /\ history \subseteq Hashes /\ unsaved \subseteq Hashes
    /\ sends \in 0..MaxSends /\ msngr_send_message_hash \in 0..sends
    /\ OneVerdict /\ OutcomeIsTracked /\ OnlyConfirmedInHistory

Inv == Router /\ Undecided /\ MethodKnown /\ Told

-----------------------------------------------------------------------------
(* Sequences *)

(* A queue without its first entry. *)
LEMMA TailFacts ==
  ASSUME NEW S, NEW q \in Seq(S), q # <<>>
  PROVE  /\ Tail(q) \in Seq(S) /\ Head(q) = q[1] /\ q[1] \in S /\ 1 \in DOMAIN q
         /\ \A k \in DOMAIN Tail(q) : k + 1 \in DOMAIN q /\ k + 1 # 1 /\ Tail(q)[k] = q[k + 1]
  OBVIOUS

(* A queue whose first entry is replaced. *)
LEMMA FrontFacts ==
  ASSUME NEW S, NEW q \in Seq(S), q # <<>>, NEW x \in S
  PROVE  /\ <<x>> \o Tail(q) \in Seq(S) /\ DOMAIN (<<x>> \o Tail(q)) = DOMAIN q
         /\ 1 \in DOMAIN q /\ (<<x>> \o Tail(q))[1] = x
         /\ \A k \in DOMAIN q \ {1} : (<<x>> \o Tail(q))[k] = q[k]
  OBVIOUS

(* A queue with one more entry. *)
LEMMA AppendFacts ==
  ASSUME NEW S, NEW q \in Seq(S), NEW x \in S
  PROVE  /\ Append(q, x) \in Seq(S)
         /\ DOMAIN Append(q, x) = DOMAIN q \cup {Len(q) + 1}
         /\ Len(q) + 1 \notin DOMAIN q
         /\ Append(q, x)[Len(q) + 1] = x
         /\ \A k \in DOMAIN q : Append(q, x)[k] = q[k]
  OBVIOUS

-----------------------------------------------------------------------------
(* What process_outbound() may do to the first message, e *)

(* Entry x takes the place of e, for the same message and way of delivery. *)
Replaces(x, e) ==
    /\ x \in QueueEntry /\ x.hash = e.hash /\ (Propagated(x) <=> Propagated(e))
    /\ x.stamp_pending => ~Propagated(x)
    /\ ToFront(x)

transfers == <<outbound_resources, prop_resources>>

Stays(e, ev) ==
    /\ ev = NoCall
    /\ UNCHANGED pending_outbound \/ \E x : Replaces(x, e) /\ x.state = e.state
    /\ UNCHANGED <<pending_proofs, transfers>>

IsTransmitted(e, ev) ==
    /\ ev = Call("sent", e.hash, TRUE) /\ ~Propagated(e)
    /\ \E x : /\ Replaces(x, e) /\ x.state = "SENT"
              /\ x.untracked = ProofsFull /\ pending_proofs' = ProofSlot(x)
    /\ UNCHANGED pending_proofs
       \/ \E n \in Nat : pending_proofs' = pending_proofs \cup {<<e.hash, n>>}
    /\ UNCHANGED transfers

IsGivenUp(e, ev) ==
    /\ ev = Call("failed", e.hash, TRUE) /\ Popped
    /\ UNCHANGED <<pending_proofs, transfers>>

IsTransferred(e, ev) ==
    /\ ev = Call("sent", e.hash, TRUE) /\ ~Propagated(e) /\ Popped
    /\ \E R \in SUBSET {e.hash} : outbound_resources' = outbound_resources \cup R
    /\ UNCHANGED <<pending_proofs, prop_resources>>

IsUploaded(e, ev) ==
    /\ ev = NoCall /\ Propagated(e) /\ Popped
    /\ \E P \in SUBSET {e.hash} : prop_resources' = prop_resources \cup P
    /\ UNCHANGED <<pending_proofs, outbound_resources>>

WorkedOn(e, ev) ==
    \/ Stays(e, ev) \/ IsTransmitted(e, ev) \/ IsGivenUp(e, ev)
    \/ IsTransferred(e, ev) \/ IsUploaded(e, ev)

(* A transfer finds a slot in its pool or none. *)
LEMMA ResourceSlotFacts ==
  ASSUME NEW pool, NEW h
  PROVE  \E R \in SUBSET {h} : ResourceSlot(pool, h) = pool \cup R
<1>1. CASE Cardinality(pool) < RESOURCES_SIZE
  <2>1. {h} \in SUBSET {h} /\ ResourceSlot(pool, h) = pool \cup {h}
    BY <1>1 DEF ResourceSlot
  <2> QED BY <2>1
<1>2. CASE ~(Cardinality(pool) < RESOURCES_SIZE)
  <2>1. {} \in SUBSET {h} /\ ResourceSlot(pool, h) = pool \cup {}
    BY <1>2 DEF ResourceSlot
  <2> QED BY <2>1
<1> QED BY <1>1, <1>2

(* The changes made to an entry keep its message and its method. *)
LEMMA EntryChanges ==
  ASSUME NEW e \in QueueEntry
  PROVE  /\ Attempted(e) \in QueueEntry /\ Transmitted(e) \in QueueEntry
         /\ [e EXCEPT !.resolution_attempts = @ + 1] \in QueueEntry
         /\ \A x \in {Attempted(e), Transmitted(e), [e EXCEPT !.resolution_attempts = @ + 1]} :
               x.hash = e.hash /\ x.method = e.method /\ x.stamp_pending = e.stamp_pending
         /\ Transmitted(e).state = "SENT" /\ Attempted(e).state = e.state
         /\ [e EXCEPT !.resolution_attempts = @ + 1].state = e.state
         /\ Attempted(e).delivery_attempts \in Nat
         /\ Transmitted(e).delivery_attempts = Attempted(e).delivery_attempts
         /\ Transmitted(e).untracked = ProofsFull
<1> DEFINE r == [e EXCEPT !.resolution_attempts = @ + 1]
<1>1. /\ r \in QueueEntry
      /\ r.hash = e.hash /\ r.method = e.method /\ r.stamp_pending = e.stamp_pending
      /\ r.state = e.state
  BY DEF QueueEntry
<1>2. /\ Attempted(e) \in QueueEntry /\ Attempted(e).delivery_attempts \in Nat
      /\ Attempted(e).hash = e.hash /\ Attempted(e).method = e.method
      /\ Attempted(e).stamp_pending = e.stamp_pending /\ Attempted(e).state = e.state
  BY DEF QueueEntry, Attempted
<1>3. \A a \in QueueEntry, b \in BOOLEAN :
         LET x == [a EXCEPT !.state = "SENT", !.untracked = b]
         IN  /\ x \in QueueEntry /\ x.state = "SENT" /\ x.untracked = b
             /\ x.hash = a.hash /\ x.method = a.method /\ x.stamp_pending = a.stamp_pending
             /\ x.delivery_attempts = a.delivery_attempts
  BY DEF QueueEntry
<1>4. /\ Transmitted(e) \in QueueEntry /\ Transmitted(e).state = "SENT"
      /\ Transmitted(e).hash = e.hash /\ Transmitted(e).method = e.method
      /\ Transmitted(e).stamp_pending = e.stamp_pending
      /\ Transmitted(e).delivery_attempts = Attempted(e).delivery_attempts
      /\ Transmitted(e).untracked = ProofsFull
  <2>1. ProofsFull \in BOOLEAN
    BY DEF ProofsFull
  <2> QED BY <1>2, <1>3, <2>1 DEF Transmitted
<1> QED BY <1>1, <1>2, <1>4

(* A poll that waits for an identity, a path or a link. *)
LEMMA ResolvingEffect ==
  ASSUME NEW e \in QueueEntry, e.stamp_pending => ~Propagated(e), NEW ev, Resolving(e, ev),
         UNCHANGED <<pending_proofs, transfers>>
  PROVE  WorkedOn(e, ev)
<1>1. CASE Failing(e, ev)
  BY <1>1 DEF Failing, WorkedOn, IsGivenUp
<1>2. CASE ev = NoCall /\ ToFront([e EXCEPT !.resolution_attempts = @ + 1])
  <2>1. /\ Replaces([e EXCEPT !.resolution_attempts = @ + 1], e)
        /\ [e EXCEPT !.resolution_attempts = @ + 1].state = e.state
    BY <1>2, EntryChanges DEF Replaces, Propagated
  <2> QED BY <1>2, <2>1 DEF WorkedOn, Stays
<1> QED BY <1>1, <1>2 DEF Resolving

(* What a delivery attempt may do to the first message. *)
LEMMA DeliverEffect ==
  ASSUME NEW e \in QueueEntry, ~Propagated(e), NEW ev, Deliver(e, ev)
  PROVE  WorkedOn(e, ev)
<1>1. CASE Exhausted(e) /\ Failing(e, ev)
           /\ UNCHANGED <<pending_proofs, outbound_resources, direct_link>>
  BY <1>1 DEF Deliver, Failing, WorkedOn, IsGivenUp, transfers
<1>2. CASE send_opportunistic(e, ev)
  <2>1. UNCHANGED transfers
    BY <1>2 DEF Deliver, send_opportunistic, transfers
  <2>2. CASE Resolving(e, ev) /\ UNCHANGED pending_proofs
    BY <2>1, <2>2, ResolvingEffect
  <2>3. CASE /\ ev = Call("sent", e.hash, TRUE) /\ ToFront(Transmitted(e))
             /\ pending_proofs' = ProofSlot(Attempted(e))
    <3>1. /\ Replaces(Transmitted(e), e) /\ Transmitted(e).state = "SENT"
          /\ Transmitted(e).untracked = ProofsFull
      BY <2>3, EntryChanges DEF Replaces, Propagated
    <3>2. UNCHANGED pending_proofs
          \/ \E n \in Nat : pending_proofs' = pending_proofs \cup {<<e.hash, n>>}
      BY <2>3, EntryChanges DEF ProofSlot
    <3>3. ProofSlot(Attempted(e)) = ProofSlot(Transmitted(e))
      BY EntryChanges DEF ProofSlot
    <3> QED BY <2>1, <2>3, <3>1, <3>2, <3>3 DEF WorkedOn, IsTransmitted
  <2>4. CASE ev = NoCall /\ ToFront(Refused(e)) /\ UNCHANGED pending_proofs
    <3>1. Replaces(Attempted(e), e) /\ Attempted(e).state = e.state
      BY <2>4, EntryChanges DEF Replaces, Propagated, Refused
    <3> QED BY <2>1, <2>4, <3>1 DEF WorkedOn, Stays
  <2>5. CASE Failing(e, ev) /\ UNCHANGED pending_proofs
    BY <2>1, <2>5 DEF Failing, WorkedOn, IsGivenUp
  <2> QED BY <1>2, <2>2, <2>3, <2>4, <2>5 DEF send_opportunistic
<1>3. CASE send_via_link(e, ev)
  <2>1. UNCHANGED <<pending_proofs, prop_resources>>
    BY <1>3 DEF Deliver, send_via_link
  <2>2. CASE Resolving(e, ev) /\ UNCHANGED outbound_resources
    BY <2>1, <2>2, ResolvingEffect DEF transfers
  <2>3. CASE ev = NoCall /\ ToFront(e) /\ UNCHANGED outbound_resources
    <3>1. Replaces(e, e)
      BY <2>3 DEF Replaces
    <3> QED BY <2>1, <2>3, <3>1 DEF WorkedOn, Stays, transfers
  <2>4. CASE /\ ev = Call("sent", e.hash, TRUE) /\ Popped
             /\ outbound_resources' = ResourceSlot(outbound_resources, e.hash)
    BY <2>1, <2>4, ResourceSlotFacts DEF WorkedOn, IsTransferred
  <2>5. CASE ev = NoCall /\ ToFront(Refused(e)) /\ UNCHANGED outbound_resources
    <3>1. Replaces(Attempted(e), e) /\ Attempted(e).state = e.state
      BY <2>5, EntryChanges DEF Replaces, Propagated, Refused
    <3> QED BY <2>1, <2>5, <3>1 DEF WorkedOn, Stays, transfers
  <2>6. CASE Failing(e, ev) /\ UNCHANGED outbound_resources
    BY <2>1, <2>6 DEF Failing, WorkedOn, IsGivenUp, transfers
  <2> QED BY <1>3, <2>2, <2>3, <2>4, <2>5, <2>6 DEF send_via_link
<1> QED BY <1>1, <1>2, <1>3 DEF Deliver

(* Packing an upload with or without its stamp is for the same message. *)
LEMMA UploadEffect ==
  ASSUME NEW e \in QueueEntry, Propagated(e), ~e.stamp_pending, NEW ev, NEW d \in QueueEntry,
         d.hash = e.hash, Propagated(d), ~d.stamp_pending, d.state = e.state, Upload(d, ev),
         UNCHANGED <<pending_proofs, outbound_resources>>
  PROVE  WorkedOn(e, ev)
<1>1. CASE ev = NoCall /\ Popped /\ prop_resources' = ResourceSlot(prop_resources, d.hash)
  BY <1>1, ResourceSlotFacts DEF WorkedOn, IsUploaded
<1>2. CASE Failing(d, ev) /\ UNCHANGED prop_resources
  BY <1>2 DEF Failing, WorkedOn, IsGivenUp, transfers
<1>3. CASE ev = NoCall /\ ToFront(Attempted(d)) /\ UNCHANGED prop_resources
  <2>1. Replaces(Attempted(d), e) /\ Attempted(d).state = e.state
    BY <1>3, EntryChanges DEF Replaces, Propagated
  <2> QED BY <1>3, <2>1 DEF WorkedOn, Stays, transfers
<1> QED BY <1>1, <1>2, <1>3 DEF Upload

(* What an upload attempt may do to it. *)
LEMMA PropagateEffect ==
  ASSUME NEW e \in QueueEntry, Propagated(e), ~e.stamp_pending, NEW ev, Propagate(e, ev)
  PROVE  WorkedOn(e, ev)
<1>1. UNCHANGED <<pending_proofs, outbound_resources>>
  BY DEF Propagate
<1>2. CASE Failing(e, ev) /\ UNCHANGED prop_resources
  BY <1>1, <1>2 DEF Failing, WorkedOn, IsGivenUp, transfers
<1>3. CASE Resolving(e, ev) /\ UNCHANGED prop_resources
  BY <1>1, <1>3, ResolvingEffect DEF transfers
<1>4. CASE Upload(e, ev)
  BY <1>1, <1>4, UploadEffect
<1>5. CASE Upload([e EXCEPT !.propagation_stamp = stamper.state = "DONE_SUCCESS"], ev)
  <2> DEFINE d == [e EXCEPT !.propagation_stamp = stamper.state = "DONE_SUCCESS"]
  <2>1. d \in QueueEntry /\ d.hash = e.hash /\ d.method = e.method
        /\ d.stamp_pending = e.stamp_pending /\ d.state = e.state
    BY DEF QueueEntry
  <2> HIDE DEF d
  <2>2. Upload(d, ev)
    BY <1>5 DEF d
  <2> QED BY <1>1, <2>1, <2>2, UploadEffect DEF Propagated
<1>6. CASE ev = NoCall /\ UNCHANGED <<pending_outbound, prop_resources>>
  BY <1>1, <1>6 DEF WorkedOn, Stays, transfers
<1> QED BY <1>2, <1>3, <1>4, <1>5, <1>6 DEF Propagate, send_propagated

(* So much for process_outbound(): one of the outcomes of WorkedOn. *)
LEMMA ProcessEffect ==
  ASSUME Types, Unstamped, NEW ev, process_outbound(ev)
  PROVE  /\ pending_outbound # <<>> /\ Head(pending_outbound) \in QueueEntry
         /\ Head(pending_outbound).state # "SENT"
         /\ WorkedOn(Head(pending_outbound), ev) /\ Verdict(ev)
<1> DEFINE e == Head(pending_outbound)
<1>1. pending_outbound # <<>> /\ e.state # "SENT" /\ Verdict(ev)
  BY DEF process_outbound
<1>2. e \in QueueEntry /\ (e.stamp_pending => ~Propagated(e)) /\ e.stamp_pending \in BOOLEAN
  <2>1. e = pending_outbound[1] /\ e \in QueueEntry /\ 1 \in DOMAIN pending_outbound
    BY <1>1, TailFacts DEF Types
  <2>2. \A x \in QueueEntry : x.stamp_pending \in BOOLEAN
    BY DEF QueueEntry
  <2> HIDE DEF e
  <2> QED BY <2>1, <2>2 DEF Unstamped
<1> HIDE DEF e
<1>3. CASE e.stamp_pending /\ Mine(e, ev)
  <2>1. CASE \E m \in {e.method, "DIRECT"} :
               Deliver([e EXCEPT !.stamp_pending = FALSE, !.method = m], ev)
    <3>1. PICK m \in {e.method, "DIRECT"} :
               Deliver([e EXCEPT !.stamp_pending = FALSE, !.method = m], ev)
      BY <2>1
    <3> DEFINE d == [e EXCEPT !.stamp_pending = FALSE, !.method = m]
    <3>2. m \in Methods /\ m # "PROPAGATED"
      BY <1>2, <1>3 DEF Propagated, QueueEntry, Methods
    <3>3. d \in QueueEntry /\ d.hash = e.hash /\ d.method = m /\ d.state = e.state
      BY <1>2, <3>2 DEF QueueEntry
    <3>4. Deliver(d, ev)
      BY <3>1
    <3> HIDE DEF d
    <3>5. ~Propagated(d) /\ ~Propagated(e)
      BY <1>2, <1>3, <3>2, <3>3 DEF Propagated
    <3>6. WorkedOn(d, ev)
      BY <3>3, <3>4, <3>5, DeliverEffect
    <3> QED BY <1>1, <1>2, <3>3, <3>5, <3>6
            DEF WorkedOn, Stays, IsTransmitted, IsGivenUp, IsTransferred, IsUploaded,
                Replaces, e
  <2>2. CASE Failing(e, ev) /\ UNCHANGED <<pending_proofs, outbound_resources, prop_resources>>
    BY <1>1, <1>2, <2>2 DEF Failing, WorkedOn, IsGivenUp, transfers, e
  <2>3. CASE ev = NoCall /\ UNCHANGED <<pending_outbound, pending_proofs, outbound_resources,
                                        prop_resources>>
    BY <1>1, <1>2, <2>3 DEF WorkedOn, Stays, transfers, e
  <2> QED BY <1>3, <2>1, <2>2, <2>3 DEF Mine
<1>4. CASE ~e.stamp_pending /\ Propagated(e) /\ Propagate(e, ev)
  BY <1>1, <1>2, <1>4, PropagateEffect DEF e
<1>5. CASE ~Propagated(e) /\ Deliver(e, ev)
  BY <1>1, <1>2, <1>5, DeliverEffect DEF e
<1> QED BY <1>3, <1>4, <1>5 DEF process_outbound, Propagated, e

-----------------------------------------------------------------------------
(* The queue after a step *)

First == Head(pending_outbound)

(* The first message changes and stays where it is. *)
LEMMA QueueReplaced ==
  ASSUME Types, Places, Unstamped, pending_outbound # <<>>, NEW x, Replaces(x, First)
  PROVE  /\ pending_outbound' \in Seq(QueueEntry) /\ Unstamped'
         /\ DOMAIN pending_outbound' = DOMAIN pending_outbound
         /\ First = pending_outbound[1] /\ 1 \in DOMAIN pending_outbound
         /\ pending_outbound'[1] = x
         /\ \A i \in DOMAIN pending_outbound :
               /\ pending_outbound'[i].hash = pending_outbound[i].hash
               /\ Propagated(pending_outbound'[i]) <=> Propagated(pending_outbound[i])
         /\ \A h : InQueue(h)' <=> InQueue(h)
<1> DEFINE q == pending_outbound
<1>1. /\ q' \in Seq(QueueEntry) /\ DOMAIN q' = DOMAIN q /\ 1 \in DOMAIN q
      /\ q'[1] = x /\ \A k \in DOMAIN q \ {1} : q'[k] = q[k]
  BY FrontFacts DEF Types, Replaces, ToFront
<1>2. First = q[1]
  BY TailFacts DEF Types, First
<1>3. \A i \in DOMAIN q : /\ q'[i].hash = q[i].hash
                          /\ Propagated(q'[i]) <=> Propagated(q[i])
  <2> SUFFICES ASSUME NEW i \in DOMAIN q
               PROVE  q'[i].hash = q[i].hash /\ (Propagated(q'[i]) <=> Propagated(q[i]))
    OBVIOUS
  <2>1. CASE i = 1
    BY <1>1, <1>2, <2>1 DEF Replaces
  <2>2. CASE i # 1
    <3>1. q'[i] = q[i]
      BY <1>1, <2>2
    <3> QED BY <3>1
  <2> QED BY <2>1, <2>2
<1>4. Unstamped'
  <2> SUFFICES ASSUME NEW i \in DOMAIN q', q'[i].stamp_pending PROVE ~Propagated(q'[i])
    BY DEF Unstamped, Propagated
  <2>1. CASE i = 1
    BY <1>1, <2>1 DEF Replaces
  <2>2. CASE i # 1
    <3>1. q'[i] = q[i] /\ i \in DOMAIN q
      BY <1>1, <2>2
    <3> QED BY <3>1 DEF Unstamped
  <2> QED BY <2>1, <2>2
<1>5. \A h : InQueue(h)' <=> InQueue(h)
  BY <1>1, <1>3 DEF InQueue
<1> QED BY <1>1, <1>2, <1>3, <1>4, <1>5

(* The first message leaves the queue. *)
LEMMA QueuePopped ==
  ASSUME Types, Places, Unstamped, pending_outbound # <<>>, Popped
  PROVE  /\ pending_outbound' \in Seq(QueueEntry) /\ Unstamped'
         /\ First = pending_outbound[1] /\ 1 \in DOMAIN pending_outbound
         /\ \A i, j \in DOMAIN pending_outbound' :
               pending_outbound'[i].hash = pending_outbound'[j].hash => i = j
         /\ \A i \in DOMAIN pending_outbound' :
               /\ ~HasSlot(pending_outbound'[i].hash)
               /\ \E k \in DOMAIN pending_outbound : pending_outbound'[i] = pending_outbound[k]
         /\ \A h : InQueue(h)' => InQueue(h) /\ h # First.hash
<1> DEFINE q == pending_outbound
<1>1. /\ q' \in Seq(QueueEntry) /\ First = q[1] /\ 1 \in DOMAIN q
      /\ \A k \in DOMAIN q' : k + 1 \in DOMAIN q /\ k + 1 # 1 /\ q'[k] = q[k + 1]
  BY TailFacts DEF Types, Popped, First
<1>2. \A i, j \in DOMAIN q' : q'[i].hash = q'[j].hash => i = j
  <2> SUFFICES ASSUME NEW i \in DOMAIN q', NEW j \in DOMAIN q', q'[i].hash = q'[j].hash
               PROVE  i = j
    OBVIOUS
  <2>1. i + 1 = j + 1
    BY <1>1 DEF Places
  <2>2. i \in Nat /\ j \in Nat
    BY <1>1
  <2> QED BY <2>1, <2>2
<1>3. \A i \in DOMAIN q' :
         ~HasSlot(q'[i].hash) /\ q'[i].hash # First.hash
         /\ \E k \in DOMAIN q : q'[i] = q[k]
  <2> SUFFICES ASSUME NEW i \in DOMAIN q'
               PROVE  ~HasSlot(q'[i].hash) /\ q'[i].hash # First.hash
                      /\ \E k \in DOMAIN q : q'[i] = q[k]
    OBVIOUS
  <2>1. i + 1 \in DOMAIN q /\ i + 1 # 1 /\ q'[i] = q[i + 1]
    BY <1>1
  <2> QED BY <1>1, <2>1 DEF Places
<1>4. Unstamped'
  <2> SUFFICES ASSUME NEW i \in DOMAIN q', q'[i].stamp_pending PROVE ~Propagated(q'[i])
    BY DEF Unstamped, Propagated
  <2>1. PICK k \in DOMAIN q : q'[i] = q[k]
    BY <1>3
  <2> QED BY <2>1 DEF Unstamped
<1>5. \A h : InQueue(h)' => InQueue(h) /\ h # First.hash
  BY <1>3 DEF InQueue
<1> QED BY <1>1, <1>2, <1>3, <1>4, <1>5

(* The first message is in the queue, and may only have a slot if it is sent. *)
LEMMA FirstFacts ==
  ASSUME Types, Places, pending_outbound # <<>>
  PROVE  /\ First \in QueueEntry /\ First.hash \in Hashes
         /\ First = pending_outbound[1] /\ 1 \in DOMAIN pending_outbound
         /\ InQueue(First.hash)
         /\ First.state # "SENT" => ~HasSlot(First.hash)
         /\ First.hash \notin outbound_resources \cup prop_resources
<1>1. First \in QueueEntry /\ First = pending_outbound[1] /\ 1 \in DOMAIN pending_outbound
  BY TailFacts DEF Types, First
<1>2. First.hash \in Hashes
  BY <1>1 DEF QueueEntry
<1>3. InQueue(First.hash) /\ (First.state # "SENT" => ~HasSlot(First.hash))
  BY <1>1 DEF InQueue, Places
<1> QED BY <1>1, <1>2, <1>3 DEF Places

-----------------------------------------------------------------------------
(* What a step of the router means for the message it reports on *)

Final(ev) == ev.call \in {"delivered", "failed"} \/ (ev.call = "sent" /\ ~ev.full)

Reports(ev) ==
    /\ Final(ev) => ev.hash \in Hashes /\ Live(ev.hash) /\ ~Live(ev.hash)'
    /\ \A h : Live(h)' => Live(h)
    /\ ev.call = "sent" /\ ev.hash = msngr_send_message_hash =>
          (ev.full <=> msngr_send_method # "PROPAGATED")

Effect(ev) == Router' /\ MethodKnown' /\ Reports(ev)

tracked == <<msngr_send_message_hash, msngr_send_method>>

(* The calls that are not final. *)
LEMMA NotFinal ==
  ASSUME NEW h
  PROVE  /\ ~Final(NoCall) /\ NoCall.call # "sent"
         /\ ~Final(Call("sent", h, TRUE))
         /\ \A c, f : Call(c, h, f).call = c /\ Call(c, h, f).hash = h /\ Call(c, h, f).full = f
BY DEF Final, NoCall, Call

(* A poll after which the message waits on. *)
LEMMA StaysKeeps ==
  ASSUME Router, MethodKnown, UNCHANGED tracked, pending_outbound # <<>>,
         First.state # "SENT", NEW ev, Stays(First, ev)
  PROVE  Effect(ev)
<1>1. UNCHANGED <<pending_proofs, outbound_resources, prop_resources>> /\ ev = NoCall
  BY DEF Stays, transfers
<1>2. CASE UNCHANGED pending_outbound
  BY <1>1, <1>2, NotFinal DEF Router, Types, Places, Unstamped, MethodKnown, Effect, Reports,
     Live, InQueue, HasSlot, tracked
<1>3. CASE \E x : Replaces(x, First) /\ x.state = First.state
  <2>1. PICK x : Replaces(x, First)
    BY <1>3
  <2>2. /\ pending_outbound' \in Seq(QueueEntry) /\ Unstamped'
        /\ DOMAIN pending_outbound' = DOMAIN pending_outbound
        /\ First = pending_outbound[1] /\ 1 \in DOMAIN pending_outbound
        /\ pending_outbound'[1] = x
        /\ \A i \in DOMAIN pending_outbound :
              /\ pending_outbound'[i].hash = pending_outbound[i].hash
              /\ Propagated(pending_outbound'[i]) <=> Propagated(pending_outbound[i])
        /\ \A h : InQueue(h)' <=> InQueue(h)
    BY <2>1, QueueReplaced DEF Router
  <2>3. \A h : HasSlot(h)' <=> HasSlot(h)
    BY <1>1 DEF HasSlot
  <2>4. Types' /\ MethodKnown'
    BY <1>1, <2>2 DEF Router, Types, MethodKnown, tracked
  <2>5. Places'
    BY <1>1, <2>2, <2>3, FirstFacts DEF Router, Places
  <2>6. Reports(ev)
    BY <1>1, <2>2, <2>3, NotFinal DEF Reports, Live
  <2> QED BY <2>2, <2>4, <2>5, <2>6 DEF Effect, Router
<1> QED BY <1>2, <1>3 DEF Stays

(* A packet is sent: the message gets a slot and stays first. *)
LEMMA TransmittedKeeps ==
  ASSUME Router, MethodKnown, UNCHANGED tracked, pending_outbound # <<>>,
         First.state # "SENT", NEW ev, IsTransmitted(First, ev)
  PROVE  Effect(ev)
<1>1. /\ UNCHANGED <<outbound_resources, prop_resources>>
      /\ ev = Call("sent", First.hash, TRUE) /\ ~Propagated(First)
  BY DEF IsTransmitted, transfers
<1>2. PICK x : Replaces(x, First) /\ x.state = "SENT"
  BY DEF IsTransmitted
<1>3. /\ pending_outbound' \in Seq(QueueEntry) /\ Unstamped'
      /\ DOMAIN pending_outbound' = DOMAIN pending_outbound
      /\ First = pending_outbound[1] /\ 1 \in DOMAIN pending_outbound
      /\ pending_outbound'[1] = x
      /\ \A i \in DOMAIN pending_outbound :
            /\ pending_outbound'[i].hash = pending_outbound[i].hash
            /\ Propagated(pending_outbound'[i]) <=> Propagated(pending_outbound[i])
      /\ \A h : InQueue(h)' <=> InQueue(h)
  BY <1>2, QueueReplaced DEF Router
<1>4. /\ First.hash \in Hashes /\ InQueue(First.hash) /\ ~HasSlot(First.hash)
      /\ First.hash \notin outbound_resources \cup prop_resources
  BY FirstFacts DEF Router
<1>5. /\ pending_proofs' \subseteq Hashes \X Nat
      /\ \A s, t \in pending_proofs' : s[1] = t[1] => s = t
      /\ \A h : HasSlot(h)' => HasSlot(h) \/ h = First.hash
  <2>1. CASE UNCHANGED pending_proofs
    BY <2>1 DEF Router, Types, Places, HasSlot
  <2>2. CASE \E n \in Nat : pending_proofs' = pending_proofs \cup {<<First.hash, n>>}
    BY <1>4, <2>2 DEF Router, Types, Places, HasSlot
  <2> QED BY <2>1, <2>2 DEF IsTransmitted
<1>6. Types' /\ MethodKnown'
  BY <1>1, <1>3, <1>5 DEF Router, Types, MethodKnown, tracked
<1>7. Places'
  <2>1. \A i \in DOMAIN pending_outbound' :
           HasSlot(pending_outbound[i].hash)' => i = 1 /\ pending_outbound'[1].state = "SENT"
    <3> SUFFICES ASSUME NEW i \in DOMAIN pending_outbound, HasSlot(pending_outbound[i].hash)'
                 PROVE  i = 1 /\ pending_outbound'[1].state = "SENT"
      BY <1>3
    <3>1. HasSlot(pending_outbound[i].hash) \/ pending_outbound[i].hash = First.hash
      BY <1>3, <1>5
    <3> QED BY <1>2, <1>3, <3>1 DEF Router, Places
  <2>2. \A i, j \in DOMAIN pending_outbound' :
           pending_outbound'[i].hash = pending_outbound'[j].hash => i = j
    BY <1>3 DEF Router, Places
  <2>3. \A h \in outbound_resources' \cup prop_resources' : ~InQueue(h)' /\ ~HasSlot(h)'
    BY <1>1, <1>3, <1>4, <1>5 DEF Router, Places
  <2> QED BY <1>1, <1>5, <2>1, <2>2, <2>3 DEF Router, Places
<1>8. Reports(ev)
  <2>1. ~Final(ev) /\ ev.full = TRUE /\ ev.hash = First.hash
    BY <1>1 DEF Final, Call
  <2>2. \A h : Live(h)' => Live(h)
    BY <1>1, <1>3, <1>4, <1>5 DEF Live
  <2>3. First.hash = msngr_send_message_hash => msngr_send_method # "PROPAGATED"
    BY <1>1, <1>3 DEF MethodKnown
  <2> QED BY <2>1, <2>2, <2>3 DEF Reports
<1> QED BY <1>3, <1>6, <1>7, <1>8 DEF Effect, Router

(* The first message leaves the queue; into a transfer, or for good. *)
LEMMA PoppedKeeps ==
  ASSUME Router, MethodKnown, UNCHANGED tracked, pending_outbound # <<>>,
         First.state # "SENT", Popped, UNCHANGED pending_proofs,
         NEW R \in SUBSET {First.hash}, NEW P \in SUBSET {First.hash},
         R = {} \/ P = {}, P # {} => Propagated(First),
         outbound_resources' = outbound_resources \cup R,
         prop_resources' = prop_resources \cup P
  PROVE  /\ Router' /\ MethodKnown'
         /\ \A h : Live(h)' => Live(h)
         /\ First.hash \in Hashes /\ Live(First.hash)
         /\ R \cup P = {} => \A h : h = First.hash => ~Live(h)'
         /\ First.hash = msngr_send_message_hash =>
               (Propagated(First) <=> msngr_send_method = "PROPAGATED")
<1>1. /\ pending_outbound' \in Seq(QueueEntry) /\ Unstamped'
      /\ \A i, j \in DOMAIN pending_outbound' :
            pending_outbound'[i].hash = pending_outbound'[j].hash => i = j
      /\ \A i \in DOMAIN pending_outbound' :
            /\ ~HasSlot(pending_outbound'[i].hash)
            /\ \E k \in DOMAIN pending_outbound : pending_outbound'[i] = pending_outbound[k]
      /\ \A h : InQueue(h)' => InQueue(h) /\ h # First.hash
  BY QueuePopped DEF Router
<1>2. /\ First.hash \in Hashes /\ InQueue(First.hash) /\ ~HasSlot(First.hash)
      /\ First.hash \notin outbound_resources \cup prop_resources
      /\ First = pending_outbound[1] /\ 1 \in DOMAIN pending_outbound
  BY FirstFacts DEF Router
<1>3. \A h : HasSlot(h)' <=> HasSlot(h)
  BY DEF HasSlot
<1>4. Types'
  BY <1>1, <1>2 DEF Router, Types
<1>5. Places'
  BY <1>1, <1>2, <1>3 DEF Router, Places
<1>6. First.hash = msngr_send_message_hash =>
         (Propagated(First) <=> msngr_send_method = "PROPAGATED")
  BY <1>2 DEF MethodKnown
<1>7. MethodKnown'
  <2>1. \A i \in DOMAIN pending_outbound' :
           pending_outbound'[i].hash = msngr_send_message_hash =>
              (Propagated(pending_outbound'[i]) <=> msngr_send_method = "PROPAGATED")
    <3> SUFFICES ASSUME NEW i \in DOMAIN pending_outbound',
                        pending_outbound'[i].hash = msngr_send_message_hash
                 PROVE  Propagated(pending_outbound'[i]) <=> msngr_send_method = "PROPAGATED"
      OBVIOUS
    <3>1. PICK k \in DOMAIN pending_outbound : pending_outbound'[i] = pending_outbound[k]
      BY <1>1
    <3> QED BY <3>1 DEF MethodKnown
  <2>2. msngr_send_message_hash \in prop_resources' => msngr_send_method = "PROPAGATED"
    BY <1>6 DEF MethodKnown
  <2> QED BY <2>1, <2>2 DEF MethodKnown, tracked, Propagated
<1>8. \A h : Live(h)' => Live(h)
  BY <1>1, <1>2, <1>3 DEF Live
<1>9. R \cup P = {} => \A h : h = First.hash => ~Live(h)'
  BY <1>1, <1>2, <1>3 DEF Live
<1> QED BY <1>1, <1>2, <1>4, <1>5, <1>6, <1>7, <1>8, <1>9 DEF Router, Live

(* process_outbound() as a whole. *)
LEMMA ProcessKeeps ==
  ASSUME Router, MethodKnown, UNCHANGED tracked, NEW ev, process_outbound(ev)
  PROVE  Effect(ev) /\ Verdict(ev)
<1>1. /\ pending_outbound # <<>> /\ First.state # "SENT"
      /\ WorkedOn(First, ev) /\ Verdict(ev)
  BY ProcessEffect DEF Router, First
<1>2. CASE Stays(First, ev)
  BY <1>1, <1>2, StaysKeeps
<1>3. CASE IsTransmitted(First, ev)
  BY <1>1, <1>3, TransmittedKeeps
<1>4. CASE IsGivenUp(First, ev)
  <2>1. Popped /\ UNCHANGED <<pending_proofs, outbound_resources, prop_resources>>
    BY <1>4 DEF IsGivenUp, transfers
  <2>2. ev.call = "failed" /\ ev.hash = First.hash
    BY <1>4 DEF IsGivenUp, Call
  <2>3. /\ Router' /\ MethodKnown' /\ \A h : Live(h)' => Live(h)
        /\ First.hash \in Hashes /\ Live(First.hash)
        /\ \A h : h = First.hash => ~Live(h)'
    <3> DEFINE none == {}
    <3>1. /\ outbound_resources' = outbound_resources \cup none
          /\ prop_resources' = prop_resources \cup none
          /\ none \in SUBSET {First.hash} /\ none \cup none = {} /\ none = {}
      BY <2>1
    <3> HIDE DEF none
    <3> QED BY <1>1, <2>1, <3>1, PoppedKeeps
  <2> QED BY <1>1, <2>2, <2>3 DEF Effect, Reports
<1>5. CASE IsTransferred(First, ev)
  <2>1. /\ Popped /\ UNCHANGED <<pending_proofs, prop_resources>> /\ ~Propagated(First)
    BY <1>5 DEF IsTransferred
  <2>2. ev.call = "sent" /\ ev.hash = First.hash /\ ev.full = TRUE
    BY <1>5 DEF IsTransferred, Call
  <2>3. /\ Router' /\ MethodKnown' /\ \A h : Live(h)' => Live(h)
        /\ First.hash = msngr_send_message_hash =>
              (Propagated(First) <=> msngr_send_method = "PROPAGATED")
    <3>1. PICK R \in SUBSET {First.hash} : outbound_resources' = outbound_resources \cup R
      BY <1>5 DEF IsTransferred
    <3>2. prop_resources' = prop_resources \cup {} /\ {} \in SUBSET {First.hash}
      BY <2>1
    <3> QED BY <1>1, <2>1, <3>1, <3>2, PoppedKeeps
  <2> QED BY <1>1, <2>1, <2>2, <2>3 DEF Effect, Reports, Final
<1>6. CASE IsUploaded(First, ev)
  <2>1. /\ Popped /\ UNCHANGED <<pending_proofs, outbound_resources>> /\ Propagated(First)
    BY <1>6 DEF IsUploaded
  <2>2. ev.call = "none"
    BY <1>6 DEF IsUploaded, NoCall
  <2>3. Router' /\ MethodKnown' /\ \A h : Live(h)' => Live(h)
    <3>1. PICK P \in SUBSET {First.hash} : prop_resources' = prop_resources \cup P
      BY <1>6 DEF IsUploaded
    <3>2. outbound_resources' = outbound_resources \cup {} /\ {} \in SUBSET {First.hash}
      BY <2>1
    <3> QED BY <1>1, <2>1, <3>1, <3>2, PoppedKeeps
  <2> QED BY <1>1, <2>2, <2>3 DEF Effect, Reports, Final
<1> QED BY <1>1, <1>2, <1>3, <1>4, <1>5, <1>6 DEF WorkedOn

-----------------------------------------------------------------------------
(* What comes back *)

(* A slot that is freed belonged to no other message than its own. *)
LEMMA SlotFreed ==
  ASSUME Router, NEW slot \in pending_proofs, pending_proofs' = Freed(slot)
  PROVE  /\ slot[1] \in Hashes /\ HasSlot(slot[1])
         /\ pending_proofs' \subseteq pending_proofs
         /\ \A h : HasSlot(h)' => HasSlot(h) /\ h # slot[1]
         /\ slot[1] \notin outbound_resources \cup prop_resources
         /\ ~Waiting(slot[1]) => ~InQueue(slot[1])
<1>1. slot[1] \in Hashes /\ HasSlot(slot[1])
  BY DEF Router, Types, HasSlot
<1>2. pending_proofs' \subseteq pending_proofs /\ \A h : HasSlot(h)' => HasSlot(h) /\ h # slot[1]
  BY DEF Freed, HasSlot, Router, Places
<1>3. slot[1] \notin outbound_resources \cup prop_resources
  BY <1>1 DEF Router, Places
<1>4. ASSUME InQueue(slot[1]) PROVE Waiting(slot[1])
  <2>1. PICK i \in DOMAIN pending_outbound : pending_outbound[i].hash = slot[1]
    BY <1>4 DEF InQueue
  <2>2. i = 1
    BY <1>1, <2>1 DEF Router, Places
  <2>3. pending_outbound # <<>> /\ Head(pending_outbound) = pending_outbound[1]
    BY <2>1 DEF Router, Types
  <2> QED BY <2>1, <2>2, <2>3 DEF Waiting
<1> QED BY <1>1, <1>2, <1>3, <1>4

(* Then it is in the queue no longer, or stays there to be sent again. *)
LEMMA SlotFreedKeeps ==
  ASSUME Router, MethodKnown, UNCHANGED tracked, NEW slot \in pending_proofs,
         pending_proofs' = Freed(slot), UNCHANGED <<outbound_resources, prop_resources>>,
         IF Waiting(slot[1]) THEN Popped ELSE UNCHANGED pending_outbound
  PROVE  /\ Router' /\ MethodKnown' /\ \A h : Live(h)' => Live(h)
         /\ slot[1] \in Hashes /\ Live(slot[1]) /\ ~Live(slot[1])'
<1>1. /\ slot[1] \in Hashes /\ HasSlot(slot[1])
      /\ pending_proofs' \subseteq pending_proofs
      /\ \A h : HasSlot(h)' => HasSlot(h) /\ h # slot[1]
      /\ slot[1] \notin outbound_resources \cup prop_resources
      /\ ~Waiting(slot[1]) => ~InQueue(slot[1])
  BY SlotFreed
<1>2. CASE Waiting(slot[1])
  <2>1. pending_outbound # <<>> /\ First.hash = slot[1] /\ Popped
    BY <1>2 DEF Waiting, First
  <2>2. /\ pending_outbound' \in Seq(QueueEntry) /\ Unstamped'
        /\ \A i, j \in DOMAIN pending_outbound' :
              pending_outbound'[i].hash = pending_outbound'[j].hash => i = j
        /\ \A i \in DOMAIN pending_outbound' :
              /\ ~HasSlot(pending_outbound'[i].hash)
              /\ \E k \in DOMAIN pending_outbound : pending_outbound'[i] = pending_outbound[k]
        /\ \A h : InQueue(h)' => InQueue(h) /\ h # First.hash
    BY <2>1, QueuePopped DEF Router
  <2>3. Types'
    BY <1>1, <2>2 DEF Router, Types
  <2>4. Places'
    <3>1. \A i \in DOMAIN pending_outbound' : ~HasSlot(pending_outbound[i].hash)'
      BY <1>1, <2>2
    <3> QED BY <1>1, <2>2, <3>1 DEF Router, Places
  <2>5. MethodKnown'
    <3> SUFFICES ASSUME NEW i \in DOMAIN pending_outbound',
                        pending_outbound'[i].hash = msngr_send_message_hash
                 PROVE  Propagated(pending_outbound'[i]) <=> msngr_send_method = "PROPAGATED"
      BY DEF MethodKnown, tracked, Propagated
    <3>1. PICK k \in DOMAIN pending_outbound : pending_outbound'[i] = pending_outbound[k]
      BY <2>2
    <3> QED BY <3>1 DEF MethodKnown
  <2> QED BY <1>1, <2>1, <2>2, <2>3, <2>4, <2>5 DEF Router, Live
<1>3. CASE ~Waiting(slot[1]) /\ UNCHANGED pending_outbound
  <2>1. \A h : InQueue(h)' <=> InQueue(h)
    BY <1>3 DEF InQueue
  <2>2. Places'
    BY <1>1, <1>3, <2>1 DEF Router, Places
  <2> QED BY <1>1, <1>3, <2>1, <2>2 DEF Router, Types, Unstamped, Live, MethodKnown, tracked
<1> QED BY <1>2, <1>3

(* A proof frees the slot, and the message with it. *)
LEMMA ProofKeeps ==
  ASSUME Router, MethodKnown, UNCHANGED tracked, NEW slot \in pending_proofs, NEW ev,
         static_proof_callback(slot, ev)
  PROVE  Effect(ev) /\ Verdict(ev)
<1>1. /\ Router' /\ MethodKnown' /\ \A h : Live(h)' => Live(h)
      /\ slot[1] \in Hashes /\ Live(slot[1]) /\ ~Live(slot[1])'
  <2>1. /\ pending_proofs' = Freed(slot) /\ UNCHANGED <<outbound_resources, prop_resources>>
        /\ IF Waiting(slot[1]) THEN Popped ELSE UNCHANGED pending_outbound
    BY DEF static_proof_callback, Popped
  <2> QED BY <2>1, SlotFreedKeeps
<1>2. ev.call = "delivered" /\ ev.hash = slot[1]
  BY DEF static_proof_callback, Call
<1> QED BY <1>1, <1>2 DEF static_proof_callback, Effect, Reports

(* A timeout frees the slot; the message is tried again or given up. *)
LEMMA TimeoutKeeps ==
  ASSUME Router, MethodKnown, UNCHANGED tracked, NEW slot \in pending_proofs, NEW ev,
         static_proof_timeout_callback(slot, ev)
  PROVE  Effect(ev) /\ Verdict(ev)
<1>1. /\ pending_proofs' = Freed(slot) /\ UNCHANGED <<outbound_resources, prop_resources>>
      /\ Verdict(ev)
  BY DEF static_proof_timeout_callback
<1>2. CASE Waiting(slot[1]) /\ Failing(First, ev)
  <2>1. Popped /\ ev.call = "failed" /\ ev.hash = slot[1]
    BY <1>2 DEF Failing, Call, Waiting, First
  <2>2. /\ Router' /\ MethodKnown' /\ \A h : Live(h)' => Live(h)
        /\ slot[1] \in Hashes /\ Live(slot[1]) /\ ~Live(slot[1])'
    BY <1>1, <1>2, <2>1, SlotFreedKeeps
  <2> QED BY <1>1, <2>1, <2>2 DEF Effect, Reports
<1>3. CASE ~Waiting(slot[1]) /\ ev = NoCall /\ UNCHANGED pending_outbound
  <2>1. ev.call = "none"
    BY <1>3 DEF NoCall
  <2>2. Router' /\ MethodKnown' /\ \A h : Live(h)' => Live(h)
    BY <1>1, <1>3, SlotFreedKeeps
  <2> QED BY <1>1, <2>1, <2>2 DEF Effect, Reports, Final
<1>4. CASE Waiting(slot[1]) /\ ev = NoCall /\ ToFront([First EXCEPT !.state = "OUTBOUND"])
  <2> DEFINE x == [First EXCEPT !.state = "OUTBOUND"]
  <2>1. pending_outbound # <<>> /\ First.hash = slot[1]
    BY <1>4 DEF Waiting, First
  <2>2. First \in QueueEntry /\ First = pending_outbound[1] /\ 1 \in DOMAIN pending_outbound
    BY <2>1, FirstFacts DEF Router
  <2>3. /\ x \in QueueEntry /\ x.hash = First.hash /\ x.method = First.method
        /\ x.stamp_pending = First.stamp_pending
    BY <2>2 DEF QueueEntry
  <2>4. ToFront(x)
    BY <1>4
  <2> HIDE DEF x
  <2>5. Replaces(x, First)
    BY <2>2, <2>3, <2>4 DEF Replaces, Propagated, Router, Unstamped
  <2>6. /\ pending_outbound' \in Seq(QueueEntry) /\ Unstamped'
        /\ DOMAIN pending_outbound' = DOMAIN pending_outbound
        /\ \A i \in DOMAIN pending_outbound :
              /\ pending_outbound'[i].hash = pending_outbound[i].hash
              /\ Propagated(pending_outbound'[i]) <=> Propagated(pending_outbound[i])
        /\ \A h : InQueue(h)' <=> InQueue(h)
    BY <2>1, <2>5, QueueReplaced DEF Router
  <2>7. /\ pending_proofs' \subseteq pending_proofs
        /\ \A h : HasSlot(h)' => HasSlot(h) /\ h # First.hash
    BY <1>1, <2>1, SlotFreed
  <2>8. Types' /\ MethodKnown'
    BY <1>1, <2>6, <2>7 DEF Router, Types, MethodKnown, tracked
  <2>9. Places'
    <3>1. \A i \in DOMAIN pending_outbound' : ~HasSlot(pending_outbound[i].hash)'
      BY <2>2, <2>6, <2>7 DEF Router, Places
    <3>2. \A i, j \in DOMAIN pending_outbound' :
             pending_outbound'[i].hash = pending_outbound'[j].hash => i = j
      BY <2>6 DEF Router, Places
    <3> QED BY <1>1, <2>6, <2>7, <3>1, <3>2 DEF Router, Places
  <2>10. ev.call = "none"
    BY <1>4 DEF NoCall
  <2> QED BY <1>1, <2>6, <2>7, <2>8, <2>9, <2>10 DEF Effect, Router, Reports, Final, Live
<1> QED BY <1>2, <1>3, <1>4 DEF static_proof_timeout_callback, First

(* A transfer that ends was all there was left of its message. *)
LEMMA ResourceKeeps ==
  ASSUME Router, MethodKnown, UNCHANGED tracked, NEW h \in Hashes, NEW complete \in BOOLEAN,
         NEW ev, \/ static_outbound_resource_concluded(h, complete, ev)
                 \/ static_propagation_resource_concluded(h, complete, ev)
  PROVE  Effect(ev) /\ Verdict(ev)
<1>1. UNCHANGED <<pending_outbound, pending_proofs>> /\ Verdict(ev)
  BY DEF static_outbound_resource_concluded, static_propagation_resource_concluded
<1>2. \A g : (InQueue(g)' <=> InQueue(g)) /\ (HasSlot(g)' <=> HasSlot(g))
  BY <1>1 DEF InQueue, HasSlot
<1>3. /\ outbound_resources' \subseteq outbound_resources
      /\ prop_resources' \subseteq prop_resources
  BY DEF static_outbound_resource_concluded, static_propagation_resource_concluded
<1>4. Router' /\ MethodKnown' /\ \A g : Live(g)' => Live(g)
  <2>1. Types' /\ Unstamped' /\ MethodKnown'
    BY <1>1, <1>3 DEF Router, Types, Unstamped, MethodKnown, tracked
  <2>2. Places'
    BY <1>1, <1>2, <1>3 DEF Router, Places
  <2> QED BY <1>2, <1>3, <2>1, <2>2 DEF Router, Live
<1>5. CASE static_outbound_resource_concluded(h, complete, ev)
  <2>1. Live(h) /\ ~Live(h)'
    BY <1>2, <1>5 DEF static_outbound_resource_concluded, Live, Router, Places
  <2>2. (ev.call = "delivered" /\ ev.hash = h) \/ ev.call = "none"
    BY <1>5 DEF static_outbound_resource_concluded, Call, NoCall
  <2> QED BY <1>1, <1>4, <2>1, <2>2 DEF Effect, Reports, Final
<1>6. CASE static_propagation_resource_concluded(h, complete, ev)
  <2>1. Live(h) /\ ~Live(h)' /\ h \in prop_resources
    BY <1>2, <1>6 DEF static_propagation_resource_concluded, Live, Router, Places
  <2>2. ev.call \in {"sent", "failed"} /\ ev.hash = h /\ ev.full = FALSE
    BY <1>6 DEF static_propagation_resource_concluded, Call
  <2> QED BY <1>1, <1>4, <2>1, <2>2 DEF Effect, Reports, Final, MethodKnown
<1> QED BY <1>5, <1>6

(* Every step of the router. *)
LEMMA RouterKeeps ==
  ASSUME Router, MethodKnown, UNCHANGED tracked, NEW ev, RouterStep(ev)
  PROVE  Effect(ev) /\ Verdict(ev)
<1>1. CASE process_outbound(ev)
  BY <1>1, ProcessKeeps
<1>2. CASE ReceiptConcludes(ev)
  BY <1>2, ProofKeeps, TimeoutKeeps DEF ReceiptConcludes
<1>3. CASE ResourceConcludes(ev)
  BY <1>3, ResourceKeeps DEF ResourceConcludes
<1>4. CASE stamp_worker_task(ev) \/ on_link_change(ev)
  <2>1. /\ UNCHANGED <<pending_outbound, pending_proofs, outbound_resources, prop_resources,
                       verdicts>>
        /\ ev.call = "none"
    BY <1>4 DEF stamp_worker_task, on_link_change, NoCall
  <2> QED BY <2>1 DEF Router, Types, Places, Unstamped, MethodKnown, Effect, Reports, Final,
             Live, InQueue, HasSlot, tracked, Verdict
<1> QED BY <1>1, <1>2, <1>3, <1>4 DEF RouterStep

-----------------------------------------------------------------------------
(* The callbacks *)

(* The verdict of a message that is anywhere is its first and last. *)
LEMMA VerdictFacts ==
  ASSUME Inv, NEW ev, Effect(ev), Verdict(ev), UNCHANGED sends
  PROVE  /\ verdicts' \in [Hashes -> Seq({"delivered", "failed", "sent"})]
         /\ Undecided' /\ OneVerdict'
         /\ Final(ev) => /\ ev.hash \in Hashes /\ verdicts[ev.hash] = <<>>
                         /\ verdicts'[ev.hash] = <<ev.call>>
                         /\ \A h \in Hashes \ {ev.hash} : verdicts'[h] = verdicts[h]
         /\ ~Final(ev) => verdicts' = verdicts
<1>1. verdicts \in [Hashes -> Seq({"delivered", "failed", "sent"})] /\ OneVerdict
  BY DEF Inv, Told
<1>2. ~Final(ev) => verdicts' = verdicts
  BY DEF Final, Verdict
<1>3. ASSUME Final(ev)
      PROVE  /\ ev.hash \in Hashes /\ verdicts[ev.hash] = <<>> /\ ~Live(ev.hash)'
             /\ ev.hash <= sends
             /\ ev.call \in {"delivered", "failed", "sent"}
             /\ verdicts' = [verdicts EXCEPT ![ev.hash] = <<ev.call>>]
  <2>1. ev.hash \in Hashes /\ Live(ev.hash) /\ ~Live(ev.hash)'
    BY <1>3 DEF Effect, Reports
  <2>2. verdicts[ev.hash] = <<>> /\ ev.hash <= sends
    BY <2>1 DEF Inv, Undecided
  <2>3. ev.call \in {"delivered", "failed", "sent"}
    BY <1>3 DEF Final
  <2>4. verdicts' = [verdicts EXCEPT ![ev.hash] = Append(@, ev.call)]
    BY <1>3 DEF Final, Verdict
  <2>5. Append(<<>>, ev.call) = <<ev.call>>
    OBVIOUS
  <2> QED BY <1>1, <2>1, <2>2, <2>3, <2>4, <2>5
<1>4. verdicts' \in [Hashes -> Seq({"delivered", "failed", "sent"})]
  <2>1. CASE Final(ev)
    <3>1. <<ev.call>> \in Seq({"delivered", "failed", "sent"})
      BY <1>3, <2>1
    <3> QED BY <1>1, <1>3, <2>1, <3>1
  <2> QED BY <1>1, <1>2, <2>1
<1>5. Final(ev) => /\ verdicts'[ev.hash] = <<ev.call>>
                   /\ \A h \in Hashes \ {ev.hash} : verdicts'[h] = verdicts[h]
  BY <1>1, <1>3
<1>6. OneVerdict'
  <2> SUFFICES ASSUME NEW h \in Hashes PROVE Len(verdicts'[h]) <= 1
    BY DEF OneVerdict
  <2>1. CASE Final(ev) /\ h = ev.hash
    <3>1. verdicts'[h] = <<ev.call>>
      BY <1>5, <2>1
    <3> QED BY <3>1
  <2>2. CASE ~Final(ev) \/ h # ev.hash
    <3>1. verdicts'[h] = verdicts[h]
      BY <1>2, <1>5, <2>2
    <3> QED BY <1>1, <3>1 DEF OneVerdict
  <2> QED BY <2>1, <2>2
<1>7. Undecided'
  <2> SUFFICES ASSUME NEW h \in Hashes
               PROVE  /\ Live(h)' => verdicts'[h] = <<>> /\ h <= sends'
                      /\ h > sends' => verdicts'[h] = <<>>
    BY DEF Undecided
  <2>1. Live(h)' => Live(h)
    BY DEF Effect, Reports
  <2>2. (Live(h) => verdicts[h] = <<>> /\ h <= sends) /\ (h > sends => verdicts[h] = <<>>)
    BY DEF Inv, Undecided
  <2>3. CASE Final(ev) /\ h = ev.hash
    <3>1. ~Live(h)' /\ h <= sends
      BY <1>3, <2>3
    <3>2. sends \in Int /\ h \in Int
      BY DEF Inv, Told, Hashes
    <3> QED BY <3>1, <3>2
  <2>4. CASE ~Final(ev) \/ h # ev.hash
    BY <1>2, <1>5, <2>1, <2>2, <2>4
  <2> QED BY <2>3, <2>4
<1> QED BY <1>2, <1>3, <1>4, <1>5, <1>6, <1>7

(* The Messenger's callbacks record what the router reported. *)
LEMMA CallbackKeeps ==
  ASSUME Inv, NEW ev, Effect(ev), Verdict(ev), Callback(ev)
  PROVE  Inv'
<1> DEFINE t == msngr_send_message_hash
<1>1. UNCHANGED <<msngr_send_message_hash, msngr_send_method, sends>>
  BY DEF Callback
<1>2. /\ verdicts' \in [Hashes -> Seq({"delivered", "failed", "sent"})]
      /\ Undecided' /\ OneVerdict'
      /\ Final(ev) => /\ ev.hash \in Hashes /\ verdicts[ev.hash] = <<>>
                      /\ verdicts'[ev.hash] = <<ev.call>>
                      /\ \A h \in Hashes \ {ev.hash} : verdicts'[h] = verdicts[h]
      /\ ~Final(ev) => verdicts' = verdicts
  BY <1>1, VerdictFacts
<1>3. /\ history \subseteq Hashes /\ unsaved \subseteq Hashes
      /\ OnlyConfirmedInHistory /\ OutcomeIsTracked
      /\ sends \in 0..MaxSends /\ t \in 0..sends
  BY DEF Inv, Told
<1>4. ev.call = "sent" /\ ev.hash = t => (ev.full <=> msngr_send_method # "PROPAGATED")
  BY DEF Effect, Reports
<1> DEFINE kept == history \cup unsaved
<1>5. /\ history' \cup unsaved' \subseteq kept \cup {ev.hash}
      /\ ~(history' \cup unsaved' \subseteq kept) =>
            Final(ev) /\ ev.call \in {"delivered", "sent"}
  <2>1. CASE UNCHANGED <<history, unsaved>>
    BY <2>1
  <2>2. ASSUME ev.call = "delivered", save_message(SavedOnDelivery(ev))
        PROVE  history' \cup unsaved' \subseteq kept \cup {ev.hash} /\ Final(ev)
    BY <2>2 DEF save_message, SavedOnDelivery, Final
  <2>3. ASSUME ev.call = "sent", HandedToNode(ev), save_message({ev.hash})
        PROVE  history' \cup unsaved' \subseteq kept \cup {ev.hash} /\ Final(ev)
    BY <1>4, <2>3 DEF save_message, HandedToNode, Awaited, Tracked, Final
  <2>4. CASE save_message({})
    BY <2>4 DEF save_message
  <2> QED BY <2>1, <2>2, <2>3, <2>4 DEF Callback, messenger_on_delivered, messenger_on_failed,
          messenger_on_sent
<1>6. OnlyConfirmedInHistory' /\ history' \subseteq Hashes /\ unsaved' \subseteq Hashes
  <2>1. \A h \in kept : verdicts[h] # <<>>
    BY <1>3 DEF OnlyConfirmedInHistory
  <2>2. \A h \in kept : verdicts'[h] = verdicts[h]
    BY <1>2, <1>3, <2>1
  <2>3. ASSUME ~(history' \cup unsaved' \subseteq kept)
        PROVE  ev.hash \in Hashes /\ verdicts'[ev.hash] \in {<<"delivered">>, <<"sent">>}
    BY <1>2, <1>5, <2>3
  <2> QED BY <1>3, <1>5, <2>2, <2>3 DEF OnlyConfirmedInHistory
<1>7. OutcomeIsTracked'
  <2>1. CASE Final(ev) /\ ev.hash = t /\ msngr_send_state = "PENDING"
    <3>1. t # 0 /\ verdicts'[t] = <<ev.call>>
      BY <1>2, <2>1 DEF Hashes
    <3>2. \/ ev.call = "delivered" /\ msngr_send_state' = "DELIVERED"
          \/ ev.call = "failed" /\ msngr_send_state' = "FAILED"
          \/ ev.call = "sent" /\ msngr_send_state' = "SENT_TO_NODE"
      BY <1>4, <2>1 DEF Callback, messenger_on_delivered, messenger_on_failed,
         messenger_on_sent, HandedToNode, Awaited, Tracked, Final, NoCall
    <3> QED BY <1>1, <3>1, <3>2 DEF OutcomeIsTracked
  <2>2. CASE ~(Final(ev) /\ ev.hash = t /\ msngr_send_state = "PENDING")
    <3>1. UNCHANGED msngr_send_state
      BY <1>4, <2>2 DEF Callback, messenger_on_delivered, messenger_on_failed,
         messenger_on_sent, HandedToNode, Awaited, Tracked, Final
    <3>2. CASE Final(ev) /\ ev.hash = t
      <4>1. t # 0 /\ verdicts[t] = <<>> /\ msngr_send_state # "PENDING"
        BY <1>2, <2>2, <3>2 DEF Hashes
      <4>2. msngr_send_state \notin {"DELIVERED", "FAILED", "SENT_TO_NODE"}
        BY <1>3, <4>1 DEF OutcomeIsTracked
      <4> QED BY <3>1, <4>1, <4>2 DEF OutcomeIsTracked
    <3>3. CASE ~(Final(ev) /\ ev.hash = t)
      <4>1. t # 0 => t \in Hashes
        BY <1>3, RouterAssumption DEF Hashes
      <4>2. t # 0 => verdicts'[t] = verdicts[t]
        BY <1>2, <3>3, <4>1
      <4> QED BY <1>1, <1>3, <3>1, <4>2 DEF OutcomeIsTracked
    <3> QED BY <3>2, <3>3
  <2> QED BY <2>1, <2>2
<1> QED BY <1>1, <1>2, <1>3, <1>6, <1>7 DEF Inv, Told, Effect

-----------------------------------------------------------------------------
(* The user and the poll of the screen *)

(* handle_outbound(): what is left of the queue before the new message. *)
Room == IF Len(pending_outbound) >= PENDING_OUTBOUND_SIZE
        THEN Tail(pending_outbound) ELSE pending_outbound

(* What handle_outbound() leaves in a full queue. *)
LEMMA RoomFacts ==
  ASSUME Types, Places
  PROVE  /\ Room \in Seq(QueueEntry)
         /\ \A e : Pushed(e) = Append(Room, e)
         /\ \A i, j \in DOMAIN Room : Room[i].hash = Room[j].hash => i = j
         /\ \A i \in DOMAIN Room :
               /\ \E k \in DOMAIN pending_outbound : Room[i] = pending_outbound[k]
               /\ HasSlot(Room[i].hash) => i = 1 /\ Room[1].state = "SENT"
<1> DEFINE q == pending_outbound
<1>1. CASE Len(q) >= PENDING_OUTBOUND_SIZE
  <2>1. q \in Seq(QueueEntry) /\ q # <<>> /\ Room = Tail(q)
    BY <1>1, RouterAssumption DEF Types, Room
  <2>2. /\ Tail(q) \in Seq(QueueEntry)
        /\ \A k \in DOMAIN Tail(q) :
              k \in Nat /\ k + 1 \in DOMAIN q /\ k + 1 # 1 /\ Tail(q)[k] = q[k + 1]
    BY <2>1, TailFacts
  <2>3. \A i, j \in DOMAIN Room : Room[i].hash = Room[j].hash => i = j
    <3> SUFFICES ASSUME NEW i \in DOMAIN Room, NEW j \in DOMAIN Room,
                        Room[i].hash = Room[j].hash
                 PROVE  i = j
      OBVIOUS
    <3>1. i + 1 = j + 1 /\ i \in Nat /\ j \in Nat
      BY <2>1, <2>2 DEF Places
    <3> QED BY <3>1
  <2>4. \A i \in DOMAIN Room :
           ~HasSlot(Room[i].hash) /\ \E k \in DOMAIN q : Room[i] = q[k]
    BY <2>1, <2>2 DEF Places
  <2>5. \A e : Pushed(e) = Append(Room, e)
    BY <1>1, <2>1 DEF Pushed
  <2> QED BY <2>1, <2>2, <2>3, <2>4, <2>5
<1>2. CASE ~(Len(q) >= PENDING_OUTBOUND_SIZE)
  <2>1. Room = q /\ \A e : Pushed(e) = Append(Room, e)
    BY <1>2 DEF Room, Pushed
  <2> QED BY <2>1 DEF Types, Places
<1> QED BY <1>1, <1>2

(* A new message is queued and tracked. *)
LEMMA ResolvedKeeps ==
  ASSUME Inv, NEW p, messenger_send_lxmf_resolved(p), sends < MaxSends,
         UNCHANGED <<history, unsaved>>
  PROVE  Inv'
<1> DEFINE n == sends + 1
<1>1. PICK method \in MethodsOf(p), stamped \in BOOLEAN :
         /\ stamped => method # "PROPAGATED"
         /\ handle_outbound(n, method, stamped)
         /\ msngr_send_method' = method
  BY DEF messenger_send_lxmf_resolved
<1>2. /\ sends' = n /\ msngr_send_message_hash' = n /\ msngr_send_state' = "PENDING"
      /\ UNCHANGED <<pending_proofs, outbound_resources, prop_resources, verdicts>>
  BY <1>1 DEF messenger_send_lxmf_resolved, handle_outbound
<1>3. /\ sends \in 0..MaxSends /\ n \in Hashes /\ n \in 0..MaxSends
      /\ n > sends /\ \A h \in Hashes : h <= sends => h # n /\ h <= n
      /\ \A h \in Hashes : h > n => h > sends
  BY RouterAssumption DEF Inv, Told, Hashes
<1> DEFINE new == [hash |-> n, method |-> method, state |-> "OUTBOUND",
                   stamp_pending |-> stamped, delivery_attempts |-> 0,
                   resolution_attempts |-> 0, propagation_stamp |-> FALSE,
                   untracked |-> FALSE]
           m == Len(Room) + 1
<1>4. /\ new \in QueueEntry /\ new.hash = n /\ new.method = method
      /\ new.stamp_pending = stamped
  <2>1. method \in Methods
    BY DEF MethodsOf, Methods
  <2> QED BY <1>3, <2>1 DEF QueueEntry
<1>5. pending_outbound' = Pushed(new)
  BY <1>1 DEF handle_outbound
<1> HIDE DEF new, n
<1>6. Types /\ Places /\ Unstamped /\ Undecided /\ MethodKnown /\ Told
  BY DEF Inv, Router
<1>7. /\ Room \in Seq(QueueEntry) /\ pending_outbound' = Append(Room, new)
      /\ \A i, j \in DOMAIN Room : Room[i].hash = Room[j].hash => i = j
      /\ \A i \in DOMAIN Room :
            /\ \E k \in DOMAIN pending_outbound : Room[i] = pending_outbound[k]
            /\ HasSlot(Room[i].hash) => i = 1 /\ Room[1].state = "SENT"
  BY <1>5, <1>6, RoomFacts
<1>8. /\ pending_outbound' \in Seq(QueueEntry)
      /\ DOMAIN pending_outbound' = DOMAIN Room \cup {m} /\ m \notin DOMAIN Room
      /\ pending_outbound'[m] = new
      /\ \A k \in DOMAIN Room : pending_outbound'[k] = Room[k]
  BY <1>4, <1>7, AppendFacts
<1>9. \A h \in Hashes : Live(h) => h <= sends /\ h # n /\ verdicts[h] = <<>>
  BY <1>3, <1>6 DEF Undecided
<1>10. \A i \in DOMAIN Room : InQueue(Room[i].hash) /\ Room[i].hash # n
  <2> SUFFICES ASSUME NEW i \in DOMAIN Room PROVE InQueue(Room[i].hash) /\ Room[i].hash # n
    OBVIOUS
  <2>1. PICK k \in DOMAIN pending_outbound : Room[i] = pending_outbound[k]
    BY <1>7
  <2>2. Room[i] \in QueueEntry
    BY <1>7
  <2>3. Room[i].hash \in Hashes
    BY <2>2 DEF QueueEntry
  <2> QED BY <1>9, <2>1, <2>3 DEF InQueue, Live
<1>11. \A h : /\ InQueue(h)' => InQueue(h) \/ h = n
              /\ HasSlot(h)' <=> HasSlot(h)
              /\ Live(h)' => Live(h) \/ h = n
  <2>1. \A h : InQueue(h)' => InQueue(h) \/ h = n
    <3> SUFFICES ASSUME NEW h, NEW i \in DOMAIN pending_outbound',
                        pending_outbound'[i].hash = h
                 PROVE  InQueue(h) \/ h = n
      BY DEF InQueue
    <3>1. CASE i = m
      BY <1>4, <1>8, <3>1
    <3>2. CASE i \in DOMAIN Room
      <4>1. pending_outbound'[i] = Room[i]
        BY <1>8, <3>2
      <4> QED BY <1>10, <3>2, <4>1
    <3> QED BY <1>8, <3>1, <3>2
  <2>2. \A h : HasSlot(h)' <=> HasSlot(h)
    BY <1>2 DEF HasSlot
  <2> QED BY <1>2, <2>1, <2>2 DEF Live
<1>12. n \notin outbound_resources /\ n \notin prop_resources /\ ~HasSlot(n) /\ ~InQueue(n)
  BY <1>3, <1>9 DEF Live
<1>13. Types'
  BY <1>2, <1>6, <1>8 DEF Types
<1>14. Places'
  <2>1. \A i, j \in DOMAIN pending_outbound' :
           pending_outbound'[i].hash = pending_outbound'[j].hash => i = j
    BY <1>4, <1>7, <1>8, <1>10
  <2>2. \A i \in DOMAIN pending_outbound' :
           HasSlot(pending_outbound[i].hash)' => i = 1 /\ pending_outbound'[1].state = "SENT"
    BY <1>4, <1>7, <1>8, <1>11, <1>12
  <2>3. \A h \in outbound_resources \cup prop_resources : ~InQueue(h)' /\ ~HasSlot(h)'
    BY <1>6, <1>11, <1>12 DEF Places
  <2> QED BY <1>2, <1>6, <2>1, <2>2, <2>3 DEF Places
<1>15. Unstamped'
  <2> SUFFICES ASSUME NEW i \in DOMAIN pending_outbound', pending_outbound'[i].stamp_pending
               PROVE  ~Propagated(pending_outbound'[i])
    BY DEF Unstamped, Propagated
  <2>1. CASE i = m
    BY <1>1, <1>4, <1>8, <2>1 DEF Propagated
  <2>2. CASE i \in DOMAIN Room
    <3>1. PICK k \in DOMAIN pending_outbound : pending_outbound'[i] = pending_outbound[k]
      BY <1>7, <1>8, <2>2
    <3> QED BY <1>6, <3>1 DEF Unstamped
  <2> QED BY <1>8, <2>1, <2>2
<1>16. MethodKnown'
  <2>1. \A i \in DOMAIN pending_outbound' :
           pending_outbound'[i].hash = n =>
              (Propagated(pending_outbound'[i]) <=> msngr_send_method' = "PROPAGATED")
    <3> SUFFICES ASSUME NEW i \in DOMAIN pending_outbound', pending_outbound'[i].hash = n
                 PROVE  Propagated(pending_outbound'[i]) <=> msngr_send_method' = "PROPAGATED"
      OBVIOUS
    <3>1. i = m
      BY <1>8, <1>10
    <3> QED BY <1>1, <1>4, <1>8, <3>1 DEF Propagated
  <2> QED BY <1>2, <1>12, <2>1 DEF MethodKnown, Propagated
<1>17. Undecided'
  BY <1>2, <1>3, <1>6, <1>9, <1>11 DEF Undecided
<1>18. Told'
  <2>1. OneVerdict' /\ OnlyConfirmedInHistory'
    BY <1>2, <1>6 DEF Told, OneVerdict, OnlyConfirmedInHistory
  <2>2. n # 0 /\ verdicts[n] = <<>>
    BY <1>3, <1>6 DEF Undecided, Hashes
  <2>3. OutcomeIsTracked'
    BY <1>2, <2>2 DEF OutcomeIsTracked
  <2>4. sends' \in 0..MaxSends /\ msngr_send_message_hash' \in 0..sends'
    BY <1>2, <1>3 DEF Told
  <2> QED BY <1>2, <1>6, <2>1, <2>3, <2>4 DEF Told
<1> QED BY <1>13, <1>14, <1>15, <1>16, <1>17, <1>18 DEF Inv, Router

(* A step that shows no outcome and leaves the rest alone. *)
LEMMA ScreenKeeps ==
  ASSUME Inv, UNCHANGED <<router, msngr_send_message_hash, msngr_send_method, sends>>,
         UNCHANGED <<history, unsaved>>,
         msngr_send_state' \in {"IDLE", "RESOLVING", "UNRESOLVED", "TIMEOUT"}
  PROVE  Inv'
<1>1. UNCHANGED <<pending_outbound, pending_proofs, outbound_resources, prop_resources, verdicts>>
  BY DEF router
<1>2. Router' /\ MethodKnown'
  BY <1>1 DEF Inv, Router, Types, Places, Unstamped, MethodKnown, InQueue, HasSlot
<1>3. Undecided'
  BY <1>1 DEF Inv, Undecided, Live, InQueue, HasSlot
<1>4. OutcomeIsTracked'
  BY DEF OutcomeIsTracked
<1>5. Told'
  BY <1>1, <1>4 DEF Inv, Told, OneVerdict, OnlyConfirmedInHistory
<1> QED BY <1>2, <1>3, <1>5 DEF Inv

(* A restart leaves nothing but what was saved and what was said. *)
LEMMA RestartKeeps ==
  ASSUME Inv, NEW p, StampTooDear(p), UNCHANGED <<history, unsaved>>
  PROVE  Inv'
<1>1. /\ pending_outbound' = <<>> /\ pending_proofs' = {}
      /\ outbound_resources' = {} /\ prop_resources' = {}
      /\ UNCHANGED <<verdicts, sends>>
      /\ msngr_send_state' = "IDLE" /\ msngr_send_message_hash' = 0
  BY DEF StampTooDear, RouterRestart
<1>2. Router' /\ MethodKnown'
  BY <1>1 DEF Router, Types, Places, Unstamped, MethodKnown, InQueue, HasSlot
<1>3. Undecided'
  BY <1>1 DEF Inv, Undecided, Live, InQueue, HasSlot
<1>4. OutcomeIsTracked'
  BY <1>1 DEF OutcomeIsTracked
<1>5. Told'
  BY <1>1, <1>4 DEF Inv, Told, OneVerdict, OnlyConfirmedInHistory
<1> QED BY <1>2, <1>3, <1>5 DEF Inv

(* A send from a screen, at once or parked. *)
LEMMA SendKeeps == ASSUME Inv, NEW p, messenger_send_lxmf(p) PROVE Inv'
<1>1. CASE messenger_send_lxmf_resolved(p)
  BY <1>1, ResolvedKeeps DEF messenger_send_lxmf
<1>2. CASE StampTooDear(p)
  BY <1>2, RestartKeeps DEF messenger_send_lxmf
<1>3. CASE /\ msngr_send_state' = "RESOLVING"
           /\ UNCHANGED <<router, sends, msngr_send_method, msngr_send_message_hash>>
  BY <1>3, ScreenKeeps DEF messenger_send_lxmf
<1> QED BY <1>1, <1>2, <1>3 DEF messenger_send_lxmf

(* The poll of a parked or a waiting send. *)
LEMMA ProcessSendKeeps == ASSUME Inv, messenger_send_process PROVE Inv'
<1>1. CASE messenger_send_lxmf_resolved(pending_send) /\ sends < MaxSends
  BY <1>1, ResolvedKeeps DEF messenger_send_process
<1>2. CASE StampTooDear(pending_send)
  BY <1>2, RestartKeeps DEF messenger_send_process
<1>3. CASE /\ msngr_send_state' \in {"TIMEOUT", "UNRESOLVED"}
           /\ UNCHANGED <<router, sends, msngr_send_method, msngr_send_message_hash>>
  BY <1>3, ScreenKeeps DEF messenger_send_process
<1> QED BY <1>1, <1>2, <1>3 DEF messenger_send_process

(* At boot there is no message. *)
LEMMA InitInv == Init => Inv
<1> SUFFICES ASSUME Init PROVE Inv
  OBVIOUS
<1>1. Router /\ MethodKnown
  BY DEF Init, RouterInit, Router, Types, Places, Unstamped, MethodKnown, InQueue, HasSlot
<1>2. verdicts = [h \in Hashes |-> <<>>]
  BY DEF Init, RouterInit
<1>3. Undecided
  BY <1>2 DEF Init, RouterInit, Undecided, Live, InQueue, HasSlot
<1>4. Told
  BY <1>2, RouterAssumption DEF Init, Told, OneVerdict, OutcomeIsTracked, OnlyConfirmedInHistory
<1> QED BY <1>1, <1>3, <1>4 DEF Inv

(* The invariant is inductive. *)
LEMMA StepInv == Inv /\ [Next]_vars => Inv'
<1> SUFFICES ASSUME Inv, [Next]_vars PROVE Inv'
  OBVIOUS
<1>1. CASE Send
  BY <1>1, SendKeeps DEF Send
<1>2. CASE Retry
  BY <1>2, SendKeeps DEF Retry
<1>3. CASE Dismiss
  BY <1>3, ScreenKeeps DEF Dismiss
<1>4. CASE messenger_send_process
  BY <1>4, ProcessSendKeeps
<1>5. ASSUME NEW ev \in Calls, RouterStep(ev), Callback(ev) PROVE Inv'
  <2>1. UNCHANGED tracked
    BY <1>5 DEF Callback, tracked
  <2>2. Effect(ev) /\ Verdict(ev)
    BY <1>5, <2>1, RouterKeeps DEF Inv
  <2> QED BY <1>5, <2>2, CallbackKeeps
<1>6. CASE UNCHANGED vars
  <2>1. UNCHANGED <<router, messenger>>
    BY <1>6 DEF vars
  <2>2. UNCHANGED <<pending_outbound, pending_proofs, outbound_resources, prop_resources,
                    verdicts, msngr_send_state, msngr_send_message_hash, msngr_send_method,
                    sends, history, unsaved>>
    BY <2>1 DEF router, messenger
  <2> QED BY <2>2 DEF Inv, Router, Types, Places, Unstamped, MethodKnown, Undecided, Told, Live,
             InQueue, HasSlot, OneVerdict, OutcomeIsTracked, OnlyConfirmedInHistory
<1> QED BY <1>1, <1>2, <1>3, <1>4, <1>5, <1>6 DEF Next

(* It holds throughout. *)
LEMMA AlwaysInv == Spec => []Inv
<1> QED BY InitInv, StepInv, PTL DEF Spec

(* However many messages are queued, retried, dropped from a full queue or  *)
(* transferred, and however late their proofs are: the router never reports  *)
(* the end of one message twice.                                              *)
THEOREM AlwaysOneVerdict == Spec => []OneVerdict
<1>1. Inv => OneVerdict
  BY DEF Inv, Told
<1> QED BY AlwaysInv, <1>1, PTL

(* What the result screen shows of the send it tracks is what the router    *)
(* reported of that very message, whatever is reported of earlier ones.      *)
THEOREM OutcomeAlwaysTracked == Spec => []OutcomeIsTracked
<1>1. Inv => OutcomeIsTracked
  BY DEF Inv, Told
<1> QED BY AlwaysInv, <1>1, PTL

(* The conversation holds no outgoing message that the router has not       *)
(* reported as delivered or taken by the propagation node, and the save of   *)
(* no other was ever tried.                                                   *)
THEOREM HistoryAlwaysConfirmed == Spec => []OnlyConfirmedInHistory
<1>1. Inv => OnlyConfirmedInHistory
  BY DEF Inv, Told
<1> QED BY AlwaysInv, <1>1, PTL

-----------------------------------------------------------------------------
(* What is kept of a delivered message *)

(* A message that is reported as delivered while it is in the queue is      *)
(* handed over with its content.                                              *)
LEMMA DeliveredWhole ==
  ASSUME Router, NEW ev, RouterStep(ev), ev.call = "delivered", InQueue(ev.hash)
  PROVE  ev.full
<1>1. CASE process_outbound(ev)
  <2>1. WorkedOn(First, ev)
    BY <1>1, ProcessEffect DEF Router, First
  <2>2. ev.call \in {"none", "sent", "failed"}
    BY <2>1 DEF WorkedOn, Stays, IsTransmitted, IsGivenUp, IsTransferred, IsUploaded, Call,
       NoCall
  <2> QED BY <2>2
<1>2. ASSUME NEW slot \in pending_proofs, static_proof_callback(slot, ev)
      PROVE  ev.full
  <2>1. /\ pending_proofs' = Freed(slot) /\ ev.hash = slot[1]
        /\ ev.full = Waiting(slot[1])
    BY <1>2 DEF static_proof_callback, Call
  <2>2. ~Waiting(slot[1]) => ~InQueue(slot[1])
    BY <2>1, SlotFreed
  <2> QED BY <2>1, <2>2
<1>3. ASSUME NEW slot \in pending_proofs, static_proof_timeout_callback(slot, ev)
      PROVE  ev.full
  BY <1>3 DEF static_proof_timeout_callback, Failing, Call, NoCall
<1>4. ASSUME NEW h \in Hashes, NEW complete \in BOOLEAN,
             static_outbound_resource_concluded(h, complete, ev)
      PROVE  ev.full
  <2>1. h \in outbound_resources /\ ev.hash = h
    BY <1>4 DEF static_outbound_resource_concluded, Call, NoCall
  <2> QED BY <2>1 DEF Router, Places
<1>5. ASSUME NEW h \in Hashes, NEW complete \in BOOLEAN,
             static_propagation_resource_concluded(h, complete, ev)
      PROVE  ev.full
  BY <1>5 DEF static_propagation_resource_concluded, Call
<1>6. CASE stamp_worker_task(ev) \/ on_link_change(ev)
  BY <1>6 DEF stamp_worker_task, on_link_change, NoCall
<1> QED BY <1>1, <1>2, <1>3, <1>4, <1>5, <1>6
        DEF RouterStep, ReceiptConcludes, ResourceConcludes

(* What ConfirmedKept says of one message in one step. *)
Confirms(h) ==
    /\ verdicts[h] = <<>>
    /\ \/ verdicts'[h] = <<"delivered">> /\ (h \in Queued \/ Tracked(h))
       \/ verdicts'[h] = <<"sent">> /\ Awaited(h)

(* One step of the system, and what it keeps of the message it confirms. *)
LEMMA StepKeepsConfirmed ==
  ASSUME Inv, Next, NEW h \in Hashes, Confirms(h)
  PROVE  h \in history' \cup unsaved'
<1>1. ASSUME UNCHANGED verdicts PROVE FALSE
  BY <1>1 DEF Confirms
<1>2. \A p : messenger_send_lxmf_resolved(p) \/ StampTooDear(p) => UNCHANGED verdicts
  BY DEF messenger_send_lxmf_resolved, handle_outbound, StampTooDear, RouterRestart
<1>3. ~(Send \/ Retry \/ Dismiss \/ messenger_send_process)
  BY <1>1, <1>2 DEF Send, Retry, Dismiss, messenger_send_process, messenger_send_lxmf, router
<1>4. PICK ev \in Calls : RouterStep(ev) /\ Callback(ev)
  BY <1>3 DEF Next
<1>5. Effect(ev) /\ Verdict(ev) /\ UNCHANGED sends
  <2>1. UNCHANGED tracked /\ UNCHANGED sends
    BY <1>4 DEF Callback, tracked
  <2> QED BY <1>4, <2>1, RouterKeeps DEF Inv
<1>6. Final(ev) /\ h = ev.hash /\ verdicts'[h] = <<ev.call>>
  <2>1. /\ Final(ev) => /\ verdicts'[ev.hash] = <<ev.call>>
                        /\ \A g \in Hashes \ {ev.hash} : verdicts'[g] = verdicts[g]
        /\ ~Final(ev) => verdicts' = verdicts
    BY <1>5, VerdictFacts
  <2>2. verdicts'[h] # verdicts[h]
    BY DEF Confirms
  <2> QED BY <2>1, <2>2
<1>7. CASE verdicts'[h] = <<"delivered">> /\ (h \in Queued \/ Tracked(h))
  <2>1. ev.call = "delivered"
    BY <1>6, <1>7
  <2>2. h \in Queued => InQueue(ev.hash)
    BY <1>6 DEF Queued, InQueue
  <2>3. ev.full \/ Tracked(ev.hash)
    BY <1>4, <1>6, <1>7, <2>1, <2>2, DeliveredWhole DEF Inv
  <2>4. save_message(SavedOnDelivery(ev))
    BY <1>4, <2>1 DEF Callback, messenger_on_delivered, messenger_on_failed, messenger_on_sent,
       NoCall
  <2> QED BY <1>6, <2>3, <2>4 DEF SavedOnDelivery, save_message
<1>8. CASE verdicts'[h] = <<"sent">> /\ Awaited(h)
  <2>1. ev.call = "sent"
    BY <1>6, <1>8
  <2>2. ~ev.full /\ ev.hash = msngr_send_message_hash
    BY <1>6, <1>8, <2>1 DEF Final, Awaited, Tracked
  <2>3. msngr_send_method = "PROPAGATED"
    BY <1>5, <2>1, <2>2 DEF Effect, Reports
  <2>4. HandedToNode(ev)
    BY <1>6, <1>8, <2>3 DEF HandedToNode
  <2>5. save_message({ev.hash})
    BY <1>4, <2>1, <2>4 DEF Callback, messenger_on_delivered, messenger_on_failed,
       messenger_on_sent, NoCall
  <2> QED BY <1>6, <2>5 DEF save_message
<1> QED BY <1>7, <1>8 DEF Confirms

(* The save of a confirmed message is tried in the very step that confirms  *)
(* it, whenever the firmware still has its content: a delivered message that *)
(* waits in the queue or is the tracked one, whatever the screen shows by    *)
(* then, and a propagated one the screen waits for.  Nothing but a refusal    *)
(* by the message store keeps it out of the history.                          *)
THEOREM ConfirmedAlwaysKept == Spec => ConfirmedKept
<1>1. Inv /\ [Next]_vars =>
         [\A h \in Hashes : Confirms(h) => h \in history' \cup unsaved']_vars
  BY StepKeepsConfirmed
<1> QED BY AlwaysInv, <1>1, PTL DEF Spec, ConfirmedKept, Confirms

-----------------------------------------------------------------------------
(* Who is waited for *)

(* Only the first message is SENT, with a slot unless the pool was full. *)
SentFirst ==
    \A i \in DOMAIN pending_outbound :
        LET e == pending_outbound[i]
        IN  e.state = "SENT" =>
              i = 1 /\ (e.untracked \/ <<e.hash, e.delivery_attempts>> \in pending_proofs)

(* The slot of a queued message is that of its last attempt. *)
LastSlot ==
    \A i \in DOMAIN pending_outbound, slot \in pending_proofs :
        LET e == pending_outbound[i]
        IN  slot[1] = e.hash => ~e.untracked /\ slot[2] = e.delivery_attempts

Watch == SentFirst /\ LastSlot

(* With the places of the messages this is what is to be shown. *)
LEMMA WatchSuffices == Inv /\ Watch => SentIsWatched
<1> SUFFICES ASSUME Inv, Watch,
                    NEW slot \in pending_proofs, slot[1] \in Queued
             PROVE  LET e == Head(pending_outbound)
                    IN  e.state = "SENT" /\ ~e.untracked /\ slot = <<e.hash, e.delivery_attempts>>
  BY DEF Watch, SentFirst, SentIsWatched
<1>1. PICK i \in DOMAIN pending_outbound : pending_outbound[i].hash = slot[1]
  BY DEF Queued
<1>2. i = 1 /\ pending_outbound[1].state = "SENT"
  BY <1>1 DEF Inv, Router, Places, HasSlot
<1>3. Head(pending_outbound) = pending_outbound[1]
  BY <1>1 DEF Inv, Router, Types
<1>4. ~pending_outbound[1].untracked /\ slot[2] = pending_outbound[1].delivery_attempts
  BY <1>1, <1>2 DEF Watch, LastSlot
<1>5. slot = <<slot[1], slot[2]>>
  BY DEF Inv, Router, Types
<1> QED BY <1>1, <1>2, <1>3, <1>4, <1>5

(* A step that leaves the queue alone and frees no slot of its messages. *)
LEMMA QuietKeepsWatch ==
  ASSUME Inv, Watch, UNCHANGED pending_outbound,
         NEW P, P \subseteq pending_proofs, pending_proofs' = P,
         \A slot \in pending_proofs \ P : ~InQueue(slot[1])
  PROVE  Watch'
<1>1. SentFirst'
  <2> SUFFICES ASSUME NEW i \in DOMAIN pending_outbound, pending_outbound[i].state = "SENT",
                      ~pending_outbound[i].untracked
               PROVE  /\ i = 1
                      /\ <<pending_outbound[i].hash, pending_outbound[i].delivery_attempts>> \in P
    BY DEF SentFirst, Watch
  <2> DEFINE s == <<pending_outbound[i].hash, pending_outbound[i].delivery_attempts>>
  <2>1. i = 1 /\ s \in pending_proofs
    BY DEF Watch, SentFirst
  <2>2. InQueue(s[1])
    BY DEF InQueue
  <2> QED BY <2>1, <2>2
<1>2. LastSlot'
  BY DEF Watch, LastSlot
<1> QED BY <1>1, <1>2 DEF Watch

(* The first message stays in the queue, to be sent again, without a slot. *)
LEMMA ReplacedKeepsWatch ==
  ASSUME Inv, Watch, pending_outbound # <<>>, NEW x, Replaces(x, First), x.state # "SENT",
         pending_proofs' \subseteq pending_proofs,
         \A slot \in pending_proofs' : slot[1] # First.hash
  PROVE  Watch'
<1>1. /\ DOMAIN pending_outbound' = DOMAIN pending_outbound
      /\ pending_outbound'[1] = x /\ x.hash = First.hash
  BY QueueReplaced DEF Inv, Router, Replaces
<1>2. \A k \in DOMAIN pending_outbound \ {1} : pending_outbound'[k] = pending_outbound[k]
  BY FrontFacts DEF Inv, Router, Types, Replaces, ToFront
<1>3. SentFirst'
  <2>1. \A i \in DOMAIN pending_outbound' : pending_outbound'[i].state # "SENT"
    BY <1>1, <1>2 DEF Watch, SentFirst
  <2> QED BY <2>1 DEF SentFirst
<1>4. LastSlot'
  BY <1>1, <1>2 DEF Watch, LastSlot
<1> QED BY <1>3, <1>4 DEF Watch

(* The first message is sent, and gets a slot if there is one. *)
LEMMA TransmittedKeepsWatch ==
  ASSUME Inv, Watch, pending_outbound # <<>>,
         \A slot \in pending_proofs : slot[1] # First.hash,
         NEW x, Replaces(x, First), x.state = "SENT",
         x.untracked = ProofsFull, pending_proofs' = ProofSlot(x)
  PROVE  Watch'
<1>1. /\ DOMAIN pending_outbound' = DOMAIN pending_outbound
      /\ First = pending_outbound[1] /\ 1 \in DOMAIN pending_outbound
      /\ pending_outbound'[1] = x /\ x.hash = First.hash
  BY QueueReplaced DEF Inv, Router, Replaces
<1>2. \A k \in DOMAIN pending_outbound \ {1} :
         /\ pending_outbound'[k] = pending_outbound[k]
         /\ pending_outbound[k].state # "SENT" /\ pending_outbound[k].hash # First.hash
  <2>1. \A k \in DOMAIN pending_outbound \ {1} : pending_outbound'[k] = pending_outbound[k]
    BY FrontFacts DEF Inv, Router, Types, Replaces, ToFront
  <2>2. \A k \in DOMAIN pending_outbound \ {1} : pending_outbound[k].state # "SENT"
    BY DEF Watch, SentFirst
  <2>3. \A k \in DOMAIN pending_outbound \ {1} : pending_outbound[k].hash # First.hash
    BY <1>1 DEF Inv, Router, Places
  <2> QED BY <2>1, <2>2, <2>3
<1> DEFINE s == <<x.hash, x.delivery_attempts>>
<1>3. \/ x.untracked /\ pending_proofs' = pending_proofs
      \/ ~x.untracked /\ pending_proofs' = pending_proofs \cup {s}
  BY DEF ProofSlot, ProofsFull
<1>4. SentFirst'
  <2> SUFFICES ASSUME NEW i \in DOMAIN pending_outbound', pending_outbound'[i].state = "SENT"
               PROVE  /\ i = 1
                      /\ \/ pending_outbound'[i].untracked
                         \/ <<pending_outbound'[i].hash, pending_outbound'[i].delivery_attempts>>
                               \in pending_proofs'
    BY DEF SentFirst
  <2>1. i = 1
    BY <1>1, <1>2
  <2> QED BY <1>1, <1>3, <2>1
<1>5. LastSlot'
  <2> SUFFICES ASSUME NEW i \in DOMAIN pending_outbound', NEW slot \in pending_proofs',
                      slot[1] = pending_outbound'[i].hash
               PROVE  /\ ~pending_outbound'[i].untracked
                      /\ slot[2] = pending_outbound'[i].delivery_attempts
    BY DEF LastSlot
  <2>1. CASE slot \in pending_proofs
    <3>1. i # 1
      BY <1>1, <2>1
    <3> QED BY <1>1, <1>2, <2>1, <3>1 DEF Watch, LastSlot
  <2>2. CASE slot = s /\ ~x.untracked
    <3>1. slot[1] = x.hash /\ slot[2] = x.delivery_attempts
      BY <2>2
    <3>2. i = 1
      BY <1>1, <1>2, <3>1
    <3> QED BY <1>1, <2>2, <3>1, <3>2
  <2> QED BY <1>3, <2>1, <2>2
<1> QED BY <1>4, <1>5 DEF Watch

(* The first message leaves the queue. *)
LEMMA PoppedKeepsWatch ==
  ASSUME Inv, Watch, pending_outbound # <<>>, Popped,
         pending_proofs' \subseteq pending_proofs
  PROVE  Watch'
<1> DEFINE q == pending_outbound
<1>1. \A k \in DOMAIN q' : k + 1 \in DOMAIN q /\ k + 1 # 1 /\ q'[k] = q[k + 1]
  BY TailFacts DEF Inv, Router, Types, Popped
<1>2. SentFirst'
  <2>1. \A k \in DOMAIN q' : q'[k].state # "SENT"
    BY <1>1 DEF Watch, SentFirst
  <2> QED BY <2>1 DEF SentFirst
<1>3. LastSlot'
  BY <1>1 DEF Watch, LastSlot
<1> QED BY <1>2, <1>3 DEF Watch

(* A new message is queued, behind the others or in place of the first. *)
LEMMA ResolvedKeepsWatch ==
  ASSUME Inv, Watch, NEW p, messenger_send_lxmf_resolved(p), sends < MaxSends
  PROVE  Watch'
<1> DEFINE q == pending_outbound
           n == sends + 1
<1>1. PICK method \in MethodsOf(p), stamped \in BOOLEAN : handle_outbound(n, method, stamped)
  BY DEF messenger_send_lxmf_resolved
<1> DEFINE new == [hash |-> n, method |-> method, state |-> "OUTBOUND",
                   stamp_pending |-> stamped, delivery_attempts |-> 0,
                   resolution_attempts |-> 0, propagation_stamp |-> FALSE,
                   untracked |-> FALSE]
<1>2. /\ UNCHANGED pending_proofs
      /\ q' = Pushed(new) /\ new.hash = n /\ new.state = "OUTBOUND"
  BY <1>1 DEF handle_outbound
<1>3. new \in QueueEntry
  <2>1. method \in Methods
    BY DEF MethodsOf, Methods
  <2>2. n \in Hashes
    BY RouterAssumption DEF Inv, Told, Hashes
  <2> QED BY <2>1, <2>2 DEF QueueEntry
<1>4. \A slot \in pending_proofs : slot[1] # n
  <2>1. \A slot \in pending_proofs : slot[1] \in Hashes /\ slot[1] <= sends
    BY DEF Inv, Router, Types, Undecided, Live, HasSlot
  <2>2. \A h \in Hashes : h <= sends => h # n
    BY RouterAssumption DEF Inv, Told, Hashes
  <2> QED BY <2>1, <2>2
<1> HIDE DEF new, n
<1>5. q \in Seq(QueueEntry) /\ PENDING_OUTBOUND_SIZE \in Nat \ {0}
  BY RouterAssumption DEF Inv, Router, Types
<1>6. CASE Len(q) >= PENDING_OUTBOUND_SIZE
  <2> DEFINE t == Tail(q)
  <2>1. q # <<>> /\ q' = Append(t, new)
    BY <1>2, <1>5, <1>6 DEF Pushed
  <2>2. /\ t \in Seq(QueueEntry)
        /\ \A k \in DOMAIN t : k + 1 \in DOMAIN q /\ k + 1 # 1 /\ t[k] = q[k + 1]
    BY <1>5, <2>1, TailFacts
  <2> HIDE DEF t
  <2>3. /\ DOMAIN q' = DOMAIN t \cup {Len(t) + 1} /\ q'[Len(t) + 1] = new
        /\ \A k \in DOMAIN t : q'[k] = t[k]
    BY <1>3, <2>1, <2>2, AppendFacts
  <2>4. \A k \in DOMAIN q' : q'[k] = new \/ \E i \in DOMAIN q \ {1} : q'[k] = q[i]
    BY <2>2, <2>3
  <2>5. \A k \in DOMAIN q' : q'[k].state # "SENT"
    BY <1>2, <2>4 DEF Watch, SentFirst
  <2>6. SentFirst'
    BY <2>5 DEF SentFirst
  <2>7. LastSlot'
    BY <1>2, <1>4, <2>4 DEF Watch, LastSlot
  <2> QED BY <2>6, <2>7 DEF Watch
<1>7. CASE ~(Len(q) >= PENDING_OUTBOUND_SIZE)
  <2>1. /\ DOMAIN q' = DOMAIN q \cup {Len(q) + 1} /\ q'[Len(q) + 1] = new
        /\ \A k \in DOMAIN q : q'[k] = q[k]
    BY <1>2, <1>3, <1>5, <1>7, AppendFacts DEF Pushed
  <2>2. SentFirst'
    BY <1>2, <2>1 DEF Watch, SentFirst
  <2>3. LastSlot'
    BY <1>2, <1>4, <2>1 DEF Watch, LastSlot
  <2> QED BY <2>2, <2>3 DEF Watch
<1> QED BY <1>6, <1>7

(* A step of the router. *)
LEMMA RouterKeepsWatch ==
  ASSUME Inv, Watch, NEW ev, RouterStep(ev)
  PROVE  Watch'
<1>1. Router /\ Types /\ Places
  BY DEF Inv, Router
<1>2. CASE process_outbound(ev)
  <2>1. pending_outbound # <<>> /\ First.state # "SENT" /\ WorkedOn(First, ev)
    BY <1>1, <1>2, ProcessEffect DEF First, Router
  <2>2. \A slot \in pending_proofs : slot[1] # First.hash
    BY <1>1, <2>1, FirstFacts DEF HasSlot
  <2>3. CASE Stays(First, ev)
    <3>1. UNCHANGED pending_proofs
      BY <2>3 DEF Stays
    <3>2. CASE UNCHANGED pending_outbound
      BY <3>1, <3>2, QuietKeepsWatch
    <3>3. CASE \E x : Replaces(x, First) /\ x.state = First.state
      BY <2>1, <2>2, <3>1, <3>3, ReplacedKeepsWatch
    <3> QED BY <2>3, <3>2, <3>3 DEF Stays
  <2>4. CASE IsTransmitted(First, ev)
    BY <2>1, <2>2, <2>4, TransmittedKeepsWatch DEF IsTransmitted
  <2>5. CASE IsGivenUp(First, ev) \/ IsTransferred(First, ev) \/ IsUploaded(First, ev)
    <3>1. Popped /\ UNCHANGED pending_proofs
      BY <2>5 DEF IsGivenUp, IsTransferred, IsUploaded
    <3> QED BY <2>1, <3>1, PoppedKeepsWatch
  <2> QED BY <2>1, <2>3, <2>4, <2>5 DEF WorkedOn
<1>3. ASSUME NEW slot \in pending_proofs,
             static_proof_callback(slot, ev) \/ static_proof_timeout_callback(slot, ev)
      PROVE  Watch'
  <2>1. pending_proofs' = Freed(slot)
    BY <1>3 DEF static_proof_callback, static_proof_timeout_callback
  <2>2. /\ pending_proofs' \subseteq pending_proofs
        /\ \A s \in pending_proofs' : s[1] # slot[1]
        /\ ~Waiting(slot[1]) => ~InQueue(slot[1])
    BY <1>1, <2>1, SlotFreed DEF HasSlot
  <2>3. CASE ~Waiting(slot[1])
    <3>1. UNCHANGED pending_outbound
      BY <1>3, <2>3 DEF static_proof_callback, static_proof_timeout_callback
    <3>2. \A s \in pending_proofs \ Freed(slot) : s = slot
      BY DEF Freed
    <3> HIDE DEF Watch
    <3> QED BY <2>1, <2>2, <2>3, <3>1, <3>2, QuietKeepsWatch
  <2>4. CASE Waiting(slot[1])
    <3>1. pending_outbound # <<>> /\ First.hash = slot[1]
      BY <2>4 DEF Waiting, First
    <3>2. CASE Popped
      BY <2>2, <3>1, <3>2, PoppedKeepsWatch
    <3>3. CASE ToFront([First EXCEPT !.state = "OUTBOUND"])
      <4> DEFINE x == [First EXCEPT !.state = "OUTBOUND"]
      <4>1. First \in QueueEntry /\ First = pending_outbound[1] /\ 1 \in DOMAIN pending_outbound
        BY <1>1, <3>1, FirstFacts
      <4>2. First.stamp_pending => ~Propagated(First)
        BY <4>1 DEF Inv, Router, Unstamped
      <4>3. /\ x \in QueueEntry /\ x.hash = First.hash /\ x.method = First.method
            /\ x.stamp_pending = First.stamp_pending /\ x.state # "SENT"
        BY <4>1 DEF QueueEntry
      <4>4. Replaces(x, First)
        BY <3>3, <4>2, <4>3 DEF Replaces, Propagated
      <4> QED BY <2>2, <3>1, <4>3, <4>4, ReplacedKeepsWatch
    <3> QED BY <1>3, <2>4, <3>2, <3>3
            DEF static_proof_callback, static_proof_timeout_callback, Failing, Popped, First
  <2> QED BY <2>3, <2>4
<1>4. CASE ResourceConcludes(ev) \/ stamp_worker_task(ev) \/ on_link_change(ev)
  <2>1. UNCHANGED <<pending_outbound, pending_proofs>>
    BY <1>4 DEF ResourceConcludes, static_outbound_resource_concluded,
       static_propagation_resource_concluded, stamp_worker_task, on_link_change
  <2> QED BY <2>1, QuietKeepsWatch
<1> QED BY <1>2, <1>3, <1>4 DEF RouterStep, ReceiptConcludes

(* Every step of the system. *)
LEMMA StepKeepsWatch ==
  ASSUME Inv, Watch, [Next]_vars
  PROVE  Watch'
<1>1. ASSUME UNCHANGED router PROVE Watch'
  <2>1. UNCHANGED <<pending_outbound, pending_proofs>>
    BY <1>1 DEF router
  <2> QED BY <2>1, QuietKeepsWatch
<1>2. ASSUME NEW p, StampTooDear(p) PROVE Watch'
  <2>1. pending_outbound' = <<>>
    BY <1>2 DEF StampTooDear, RouterRestart
  <2> QED BY <2>1 DEF Watch, SentFirst, LastSlot
<1>3. CASE Send \/ Retry
  <2>1. PICK p : messenger_send_lxmf(p)
    BY <1>3 DEF Send, Retry
  <2> QED BY <1>1, <1>2, <2>1, ResolvedKeepsWatch DEF messenger_send_lxmf
<1>4. CASE Dismiss
  BY <1>1, <1>4 DEF Dismiss
<1>5. CASE messenger_send_process
  BY <1>1, <1>2, <1>5, ResolvedKeepsWatch DEF messenger_send_process
<1>6. ASSUME NEW ev \in Calls, RouterStep(ev), Callback(ev) PROVE Watch'
  BY <1>6, RouterKeepsWatch
<1>7. CASE UNCHANGED vars
  BY <1>1, <1>7 DEF vars
<1> QED BY <1>3, <1>4, <1>5, <1>6, <1>7 DEF Next

(* A message that waits for its proof is the first of the queue, and the    *)
(* proof or its timeout will find it in a slot, unless its packet was sent    *)
(* while the pool was full; and a message of the queue never has another slot *)
(* than that of its last attempt, however often it is retried.                *)
THEOREM SentAlwaysWatched == Spec => []SentIsWatched
<1>1. Init => Watch
  <2> SUFFICES ASSUME Init PROVE Watch
    OBVIOUS
  <2>1. pending_outbound = <<>> /\ pending_proofs = {}
    BY DEF Init, RouterInit
  <2> QED BY <2>1 DEF Watch, SentFirst, LastSlot
<1>2. Inv /\ Watch /\ [Next]_vars => Watch'
  BY StepKeepsWatch
<1> QED BY AlwaysInv, <1>1, <1>2, WatchSuffices, PTL DEF Spec
=============================================================================
