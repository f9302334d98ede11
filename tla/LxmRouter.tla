------------------------------ MODULE LxmRouter ------------------------------
(***************************************************************************)
(* The outbound half of the LXMF router (LXMRouter.cpp): the queue of      *)
(* messages of which only the first is worked on, its three ways of        *)
(* delivery, and what resolves a message later: the proof or the timeout   *)
(* of its packet, the end of its resource transfer, the stamp worker.      *)
(*                                                                         *)
(* A message is its hash, and a hash is the number of the send that made   *)
(* it.  Whether Reticulum knows an identity or a path, and whether an      *)
(* interface takes a packet, may be different at each poll.  The back-off  *)
(* between polls is not modelled: a poll inside it does nothing.           *)
(*                                                                         *)
(* The router calls the Messenger back from inside its own steps.  Each    *)
(* step here says in "ev" which callback it makes; module Messenger joins  *)
(* it to what the callback does.                                           *)
(***************************************************************************)
EXTENDS Integers, Sequences, SequencesExt, FiniteSets

CONSTANTS
    PENDING_OUTBOUND_SIZE,
    PENDING_PROOFS_SIZE,
    RESOURCES_SIZE, \* OUTBOUND_RESOURCES_SIZE, PENDING_PROP_RESOURCES_SIZE
    MaxAttempts,    \* _max_delivery_attempts
    MaxSends        \* bound on the messages handed to the router

ASSUME RouterAssumption ==
    {PENDING_OUTBOUND_SIZE, PENDING_PROOFS_SIZE, RESOURCES_SIZE, MaxAttempts, MaxSends}
        \subseteq Nat \ {0}

VARIABLES
    pending_outbound,
    pending_proofs,     \* <<message, attempt>>: the slots of packets not proven yet
    outbound_resources, \* messages on their way over a link to the recipient
    prop_resources,     \* messages on their way to the propagation node
    direct_link, propagation_link,
    stamp_cost,         \* _outbound_propagation_stamp_cost > 0
    stamper,            \* the one slot of LXStamper's worker
    (* History *)
    verdicts            \* what the router reported of each message, in order

router == <<pending_outbound, pending_proofs, outbound_resources, prop_resources,
            direct_link, propagation_link, stamp_cost, stamper, verdicts>>

Hashes == 1..MaxSends
Methods == {"OPPORTUNISTIC", "DIRECT", "PROPAGATED"}

(* What the stamp worker mines for: a message, or its upload to the node. *)
NoOwner == <<"none", 0>>
Owners == {NoOwner} \cup ({"message", "upload"} \X Hashes)
Idle == [state |-> "IDLE", owner |-> NoOwner]

Entry == [hash : Hashes, method : Methods, state : {"OUTBOUND", "SENT"},
          stamp_pending : BOOLEAN, delivery_attempts : 0..MaxAttempts,
          resolution_attempts : 0..MaxAttempts, propagation_stamp : BOOLEAN,
          untracked : BOOLEAN]  \* history: the last packet found no proof slot free

(* The callbacks: "full" when the message handed over has its content,      *)
(* not only its hash.                                                        *)
NoCall == [call |-> "none"]
Call(name, hash, full) == [call |-> name, hash |-> hash, full |-> full]

RouterInit ==
    /\ pending_outbound = <<>> /\ pending_proofs = {}
    /\ outbound_resources = {} /\ prop_resources = {}
    /\ direct_link = "NONE" /\ propagation_link = "NONE"
    /\ stamp_cost = FALSE /\ stamper = Idle
    /\ verdicts = [h \in Hashes |-> <<>>]

(* The node restarts: nothing of the router's state is kept over it. *)
RouterRestart ==
    /\ pending_outbound' = <<>> /\ pending_proofs' = {}
    /\ outbound_resources' = {} /\ prop_resources' = {}
    /\ direct_link' = "NONE" /\ propagation_link' = "NONE"
    /\ stamp_cost' = FALSE /\ stamper' = Idle
    /\ UNCHANGED verdicts

(* The callbacks the router may make now: with the first message itself,    *)
(* and with the hash only when a proof of another one comes or a transfer    *)
(* ends.                                                                      *)
Calls ==
    LET first == IF pending_outbound = <<>> THEN {} ELSE {Head(pending_outbound).hash}
        proven == { slot[1] : slot \in pending_proofs }
    IN  {NoCall}
        \cup { Call(c, h, TRUE) : c \in {"delivered", "failed", "sent"}, h \in first }
        \cup { Call("delivered", h, FALSE) : h \in proven \cup outbound_resources }
        \cup { Call(c, h, FALSE) : c \in {"failed", "sent"}, h \in prop_resources }

Queued == { pending_outbound[i].hash : i \in DOMAIN pending_outbound }
Waiting(h) == pending_outbound # <<>> /\ Head(pending_outbound).hash = h

(* A final word on a message: delivered, failed, or taken by the node.      *)
Verdict(ev) ==
    verdicts' = IF ev.call \in {"delivered", "failed"} \/ (ev.call = "sent" /\ ~ev.full)
                THEN [verdicts EXCEPT ![ev.hash] = Append(@, ev.call)]
                ELSE verdicts

-----------------------------------------------------------------------------
(* handle_outbound(): a full queue loses its first message, unreported. *)
Pushed(e) ==
    IF Len(pending_outbound) >= PENDING_OUTBOUND_SIZE
    THEN Append(Tail(pending_outbound), e)
    ELSE Append(pending_outbound, e)

handle_outbound(h, method, stamped) ==
    /\ pending_outbound' =
         Pushed([hash |-> h, method |-> method, state |-> "OUTBOUND",
                 stamp_pending |-> stamped, delivery_attempts |-> 0,
                 resolution_attempts |-> 0, propagation_stamp |-> FALSE,
                 untracked |-> FALSE])
    /\ UNCHANGED <<pending_proofs, outbound_resources, prop_resources, direct_link,
                   propagation_link, stamper, verdicts>>

-----------------------------------------------------------------------------
(* process_outbound() on the first message, e *)

ToFront(e) == pending_outbound' = <<e>> \o Tail(pending_outbound)
Popped == pending_outbound' = Tail(pending_outbound)

Failing(e, ev) == ev = Call("failed", e.hash, TRUE) /\ Popped

(* Waiting for an identity, a path or a link has a budget of its own. *)
Bug_no_budget(e, ev) == ev = NoCall /\ ToFront(e)
Resolving(e, ev) ==
    IF e.resolution_attempts >= MaxAttempts
    THEN Failing(e, ev)
    ELSE ev = NoCall /\ ToFront([e EXCEPT !.resolution_attempts = @ + 1])

Attempted(e) == [e EXCEPT !.delivery_attempts = @ + 1]

(* An interface took the packet: the message stays first in the queue, and  *)
(* a slot waits for its proof, if one is free.  If none is, the message is   *)
(* SENT all the same.                                                         *)
ProofsFull == Cardinality(pending_proofs) >= PENDING_PROOFS_SIZE
Transmitted(e) == [Attempted(e) EXCEPT !.state = "SENT", !.untracked = ProofsFull]
ProofSlot(e) ==
    IF ProofsFull THEN pending_proofs ELSE pending_proofs \cup {<<e.hash, e.delivery_attempts>>}

(* No interface took it: it is tried again. *)
Bug_marked_sent(e) == [Attempted(e) EXCEPT !.state = "SENT"]
Refused(e) == Attempted(e)

send_opportunistic(e, ev) ==
    /\ \/ /\ Resolving(e, ev)                       \* the identity is not known
          /\ UNCHANGED pending_proofs
       \/ /\ ev = Call("sent", e.hash, TRUE)
          /\ ToFront(Transmitted(e))
          /\ pending_proofs' = ProofSlot(Attempted(e))
       \/ /\ ev = NoCall
          /\ ToFront(Refused(e))
          /\ UNCHANGED pending_proofs
       \/ /\ Failing(e, ev)                         \* wrong destination, or an exception
          /\ UNCHANGED pending_proofs
    /\ UNCHANGED <<outbound_resources, direct_link>>

(* A transfer is followed in a slot of its pool, if one is free. *)
ResourceSlot(pool, h) == IF Cardinality(pool) < RESOURCES_SIZE THEN pool \cup {h} ELSE pool

(* A link that is not active is waited for; a transfer that has begun takes *)
(* the message out of the queue.                                             *)
send_via_link(e, ev) ==
    /\ \/ /\ Resolving(e, ev)                       \* no path or no identity
          /\ UNCHANGED <<outbound_resources, direct_link>>
       \/ /\ direct_link = "NONE" /\ direct_link' = "PENDING"
          /\ ev = NoCall
          /\ ToFront(e)
          /\ UNCHANGED outbound_resources
       \/ /\ direct_link = "ACTIVE"
          /\ ev = Call("sent", e.hash, TRUE) /\ Popped
          /\ outbound_resources' = ResourceSlot(outbound_resources, e.hash)
          /\ UNCHANGED direct_link
       \/ /\ direct_link = "ACTIVE"
          /\ ev = NoCall /\ ToFront(Refused(e))
          /\ UNCHANGED <<outbound_resources, direct_link>>
       \/ /\ Failing(e, ev)                         \* an exception
          /\ UNCHANGED <<outbound_resources, direct_link>>
    /\ UNCHANGED pending_proofs

(* The attempt budget is checked before each delivery. *)
Exhausted(e) == e.delivery_attempts >= MaxAttempts

Deliver(e, ev) ==
    /\ \/ /\ Exhausted(e) /\ Failing(e, ev)
          /\ UNCHANGED <<pending_proofs, outbound_resources, direct_link>>
       \/ ~Exhausted(e) /\ e.method = "OPPORTUNISTIC" /\ send_opportunistic(e, ev)
       \/ ~Exhausted(e) /\ e.method = "DIRECT" /\ send_via_link(e, ev)
    /\ UNCHANGED <<prop_resources, propagation_link>>

(* The upload is packed, with its stamp if it has one, and sent; packing    *)
(* may fail, or throw, which gives the message up.                           *)
Upload(e, ev) ==
    \/ /\ ev = NoCall /\ Popped
       /\ prop_resources' = ResourceSlot(prop_resources, e.hash)
    \/ Failing(e, ev) /\ UNCHANGED prop_resources
    \/ /\ IF e.delivery_attempts + 1 >= MaxAttempts
          THEN Failing(e, ev)
          ELSE ev = NoCall /\ ToFront(Attempted(e))
       /\ UNCHANGED prop_resources

(* The worker's task is created, or it is not and the slot is left idle. *)
start_async(owner) ==
    stamper' \in { [state |-> s, owner |-> owner] : s \in {"RUNNING", "IDLE"} }

NeedsStamp(e) == stamp_cost /\ ~e.propagation_stamp

send_propagated(e, ev) ==
    \/ /\ propagation_link = "NONE"
       /\ propagation_link' \in {"NONE", "PENDING"}
       /\ Resolving(e, ev)
       /\ UNCHANGED <<prop_resources, stamper>>
    \/ /\ propagation_link = "PENDING"
       /\ Resolving(e, ev)
       /\ UNCHANGED <<propagation_link, prop_resources, stamper>>
    \/ /\ propagation_link = "ACTIVE"
       /\ \/ /\ ~NeedsStamp(e) /\ Upload(e, ev)
             /\ UNCHANGED stamper
          \/ /\ NeedsStamp(e) /\ stamper.state \in {"DONE_SUCCESS", "DONE_FAIL"}
             /\ Upload([e EXCEPT !.propagation_stamp = stamper.state = "DONE_SUCCESS"], ev)
             /\ stamper' = Idle
          \/ /\ NeedsStamp(e) /\ stamper.state = "IDLE"
             /\ start_async(<<"upload", e.hash>>)
             /\ ev = NoCall
             /\ UNCHANGED <<pending_outbound, prop_resources>>
       /\ UNCHANGED propagation_link

Propagate(e, ev) ==
    /\ \/ /\ Exhausted(e) /\ Failing(e, ev)
          /\ UNCHANGED <<propagation_link, prop_resources, stamper>>
       \/ ~Exhausted(e) /\ send_propagated(e, ev)
    /\ UNCHANGED <<pending_proofs, outbound_resources, direct_link>>

(* The stamp of a message that is not propagated is mined before its first  *)
(* attempt.  A result mined for something else is thrown away; with its      *)
(* stamp a message may be too large for one packet.                          *)
Ours(e) == stamper.owner = <<"message", e.hash>>

Mine(e, ev) ==
    /\ \/ /\ stamper.state = "DONE_SUCCESS" /\ Ours(e)
          /\ stamper' = Idle
          /\ \E m \in {e.method, "DIRECT"} :
               Deliver([e EXCEPT !.stamp_pending = FALSE, !.method = m], ev)
       \/ /\ stamper.state = "DONE_FAIL" /\ Ours(e)
          /\ stamper' = Idle /\ Failing(e, ev)
          /\ UNCHANGED <<pending_proofs, outbound_resources, prop_resources, direct_link,
                         propagation_link>>
       \/ /\ \/ /\ stamper.state \in {"DONE_SUCCESS", "DONE_FAIL"} /\ ~Ours(e)
                /\ stamper' = Idle
             \/ /\ stamper.state = "IDLE"
                /\ start_async(<<"message", e.hash>>)
          /\ ev = NoCall
          /\ UNCHANGED <<pending_outbound, pending_proofs, outbound_resources, prop_resources,
                         direct_link, propagation_link>>

process_outbound(ev) ==
    /\ pending_outbound # <<>>
    /\ LET e == Head(pending_outbound) IN
         /\ e.state # "SENT"
         /\ \/ e.stamp_pending /\ Mine(e, ev)
            \/ /\ ~e.stamp_pending /\ e.method = "PROPAGATED"
               /\ Propagate(e, ev)
            \/ /\ ~e.stamp_pending /\ e.method # "PROPAGATED"
               /\ Deliver(e, ev)
               /\ UNCHANGED stamper
    /\ Verdict(ev)
    /\ UNCHANGED stamp_cost

-----------------------------------------------------------------------------
(* What comes back *)

(* The slot of a packet is freed with its proof or its timeout. *)
Bug_slot_kept(slot) == pending_proofs
Freed(slot) == pending_proofs \ {slot}

(* A proof hands over the message itself while it is still first in the     *)
(* queue, and only its hash when it is not.                                  *)
static_proof_callback(slot, ev) ==
    /\ slot \in pending_proofs
    /\ ev = Call("delivered", slot[1], Waiting(slot[1]))
    /\ pending_outbound' = IF Waiting(slot[1]) THEN Tail(pending_outbound) ELSE pending_outbound
    /\ pending_proofs' = Freed(slot)
    /\ Verdict(ev)
    /\ UNCHANGED <<outbound_resources, prop_resources, direct_link, propagation_link,
                   stamp_cost, stamper>>

static_proof_timeout_callback(slot, ev) ==
    /\ slot \in pending_proofs
    /\ IF Waiting(slot[1])
       THEN LET e == Head(pending_outbound)
            IN  IF Exhausted(e)
                THEN Failing(e, ev)
                ELSE ev = NoCall /\ ToFront([e EXCEPT !.state = "OUTBOUND"])
       ELSE ev = NoCall /\ UNCHANGED pending_outbound
    /\ pending_proofs' = Freed(slot)
    /\ Verdict(ev)
    /\ UNCHANGED <<outbound_resources, prop_resources, direct_link, propagation_link,
                   stamp_cost, stamper>>

(* A transfer to the recipient that breaks off is not reported. *)
static_outbound_resource_concluded(h, complete, ev) ==
    /\ h \in outbound_resources
    /\ ev = IF complete THEN Call("delivered", h, FALSE) ELSE NoCall
    /\ outbound_resources' = outbound_resources \ {h}
    /\ Verdict(ev)
    /\ UNCHANGED <<pending_outbound, pending_proofs, prop_resources, direct_link,
                   propagation_link, stamp_cost, stamper>>

static_propagation_resource_concluded(h, complete, ev) ==
    /\ h \in prop_resources
    /\ ev = Call(IF complete THEN "sent" ELSE "failed", h, FALSE)
    /\ prop_resources' = prop_resources \ {h}
    /\ Verdict(ev)
    /\ UNCHANGED <<pending_outbound, pending_proofs, outbound_resources, direct_link,
                   propagation_link, stamp_cost, stamper>>

(* The worker task ends, with a stamp or without. *)
stamp_worker_task(ev) ==
    /\ stamper.state = "RUNNING"
    /\ stamper' \in { [stamper EXCEPT !.state = s] : s \in {"DONE_SUCCESS", "DONE_FAIL"} }
    /\ ev = NoCall
    /\ UNCHANGED <<pending_outbound, pending_proofs, outbound_resources, prop_resources,
                   direct_link, propagation_link, stamp_cost, verdicts>>

(* Links come up and go down.  A pending link that takes too long is        *)
(* replaced by another one.                                                  *)
LinkMoves(from, to) == (from = "PENDING" /\ to = "ACTIVE") \/ (from # "NONE" /\ to = "NONE")

on_link_change(ev) ==
    /\ \/ /\ \E to \in {"NONE", "ACTIVE"} : LinkMoves(direct_link, to) /\ direct_link' = to
          /\ UNCHANGED propagation_link
       \/ /\ \E to \in {"NONE", "ACTIVE"} :
               LinkMoves(propagation_link, to) /\ propagation_link' = to
          /\ UNCHANGED direct_link
    /\ ev = NoCall
    /\ UNCHANGED <<pending_outbound, pending_proofs, outbound_resources, prop_resources,
                   stamp_cost, stamper, verdicts>>

(* A packet is proven or times out. *)
ReceiptConcludes(ev) ==
    \E slot \in pending_proofs :
        static_proof_callback(slot, ev) \/ static_proof_timeout_callback(slot, ev)

(* A transfer ends. *)
ResourceConcludes(ev) ==
    \E h \in Hashes, complete \in BOOLEAN :
        \/ static_outbound_resource_concluded(h, complete, ev)
        \/ static_propagation_resource_concluded(h, complete, ev)

RouterStep(ev) ==
    \/ process_outbound(ev) \/ ReceiptConcludes(ev) \/ ResourceConcludes(ev)
    \/ stamp_worker_task(ev) \/ on_link_change(ev)
=============================================================================
