------------------------------ MODULE Messenger ------------------------------
(***************************************************************************)
(* Sending a message from the Messenger screens (Messenger.h, Menu.h) over *)
(* the LXMF router.  The Messenger tracks one send, the latest: its hash,  *)
(* what to send again on Retry, and the state the result screen shows.     *)
(* The router works on, and reports on, every message it was ever given.   *)
(*                                                                         *)
(* The user, the router's callbacks and the polls of loop() run in one     *)
(* task, in any order.  Timeouts are not measured: the result screen may   *)
(* give up at any moment after the send.  Screens that only look at the    *)
(* state are left out; the chat window, which drops a terminal state as    *)
(* soon as it has shown it, is a dismissal.                                *)
(***************************************************************************)
EXTENDS LxmRouter

VARIABLES
    msngr_send_state,
    msngr_send_message_hash,    \* 0 before the first message
    msngr_send_method,
    pending_send,               \* msngr_send_pending_*: the size and the forced method
    sends,                      \* messages handed to the router so far
    history,                    \* urns_message_store: outgoing messages saved
    (* History *)
    unsaved                     \* outgoing messages whose save failed

messenger == <<msngr_send_state, msngr_send_message_hash, msngr_send_method,
               pending_send, sends, history, unsaved>>
vars == <<router, messenger>>

SendStates == {"IDLE", "PENDING", "DELIVERED", "TIMEOUT", "RESOLVING", "UNRESOLVED",
               "FAILED", "SENT_TO_NODE"}
Failures == {"TIMEOUT", "UNRESOLVED", "FAILED"}
Successes == {"DELIVERED", "SENT_TO_NODE"}
PendingSend == [large : BOOLEAN, forced : BOOLEAN]

Init ==
    /\ RouterInit
    /\ msngr_send_state = "IDLE" /\ msngr_send_message_hash = 0
    /\ msngr_send_method = "OPPORTUNISTIC"
    /\ pending_send = [large |-> FALSE, forced |-> FALSE]
    /\ sends = 0 /\ history = {} /\ unsaved = {}

-----------------------------------------------------------------------------
(* Sending *)

(* The peer's delivery mode unless a method is forced; a text too large for *)
(* one packet, and every voice message, goes over a link.                    *)
MethodsOf(p) ==
    IF p.forced THEN {"PROPAGATED"}
    ELSE {"PROPAGATED", IF p.large THEN "DIRECT" ELSE "OPPORTUNISTIC"}

(* A peer may ask for a dearer stamp than is mined for a message that is    *)
(* not propagated: handle_outbound() throws, nothing catches it, and the     *)
(* node restarts with nothing but its message store.                          *)
StampTooDear(p) ==
    /\ ~p.forced
    /\ RouterRestart
    /\ msngr_send_state' = "IDLE" /\ msngr_send_message_hash' = 0
    /\ msngr_send_method' = "OPPORTUNISTIC"
    /\ pending_send' = [large |-> FALSE, forced |-> FALSE]
    /\ UNCHANGED sends

(* The message is built and queued, and becomes the one that is tracked. *)
messenger_send_lxmf_resolved(p) ==
    \E method \in MethodsOf(p), stamped \in BOOLEAN :
        /\ stamped => method # "PROPAGATED"
        /\ handle_outbound(sends + 1, method, stamped)
        /\ IF method = "PROPAGATED" THEN stamp_cost' \in BOOLEAN ELSE UNCHANGED stamp_cost
        /\ sends' = sends + 1
        /\ msngr_send_method' = method
        /\ msngr_send_message_hash' = sends + 1
        /\ msngr_send_state' = "PENDING"

(* Whatever was tracked before is not any longer.  Without an identity the   *)
(* text is parked until one is heard of.                                      *)
messenger_send_lxmf(p) ==
    /\ sends < MaxSends
    /\ \/ pending_send' = p /\ messenger_send_lxmf_resolved(p)
       \/ StampTooDear(p)
       \/ /\ pending_send' = p /\ msngr_send_state' = "RESOLVING"
          /\ UNCHANGED <<router, sends, msngr_send_method, msngr_send_message_hash>>
    /\ UNCHANGED <<history, unsaved>>

(* A text, a preset or a voice message from a peer's screen. *)
Send == \E large \in BOOLEAN : messenger_send_lxmf([large |-> large, forced |-> FALSE])

(* The result screen offers Retry and Retry via Prop once the send has       *)
(* failed and the router's queue is empty.                                    *)
queue_busy == pending_outbound # <<>>
Retry ==
    /\ msngr_send_state \in Failures /\ ~queue_busy
    /\ \E forced \in BOOLEAN : messenger_send_lxmf([pending_send EXCEPT !.forced = forced])

(* BACK on the result screen, its own dismissal of a success, the chat. *)
Dismiss ==
    /\ msngr_send_state # "IDLE"
    /\ msngr_send_state' = "IDLE"
    /\ UNCHANGED <<router, msngr_send_message_hash, msngr_send_method, pending_send, sends,
                   history, unsaved>>

(* loop(): no proof within the time allowed, an identity at last, or none. *)
messenger_send_process ==
    /\ \/ /\ msngr_send_state = "PENDING" /\ msngr_send_state' = "TIMEOUT"
          /\ UNCHANGED <<router, pending_send, sends, msngr_send_method,
                         msngr_send_message_hash>>
       \/ /\ msngr_send_state = "RESOLVING" /\ sends < MaxSends
          /\ \/ messenger_send_lxmf_resolved(pending_send) /\ UNCHANGED pending_send
             \/ StampTooDear(pending_send)
       \/ /\ msngr_send_state = "RESOLVING" /\ msngr_send_state' = "UNRESOLVED"
          /\ UNCHANGED <<router, pending_send, sends, msngr_send_method,
                         msngr_send_message_hash>>
    /\ UNCHANGED <<history, unsaved>>

-----------------------------------------------------------------------------
(* The router's callbacks *)

Bug_any_hash(h) == TRUE
Tracked(h) == h = msngr_send_message_hash
Awaited(h) == msngr_send_state = "PENDING" /\ Tracked(h)

(* The store saves a message whole, or refuses it: it is full, or the      *)
(* packed copy cannot be read.  A refusal is logged and nothing more.         *)
save_message(hashes) ==
    \/ history' = history \cup hashes /\ UNCHANGED unsaved
    \/ unsaved' = unsaved \cup hashes /\ UNCHANGED history

(* What is saved of a delivered message: one that comes without its content *)
(* only from the packed copy that was kept of the tracked one.               *)
Bug_saves_tracked(ev) ==
    IF ev.full \/ Tracked(ev.hash) THEN {msngr_send_message_hash} ELSE {}
Bug_only_full(ev) == IF ev.full THEN {ev.hash} ELSE {}
SavedOnDelivery(ev) == IF ev.full \/ Tracked(ev.hash) THEN {ev.hash} ELSE {}

messenger_on_delivered(ev) ==
    /\ ev.call = "delivered"
    /\ save_message(SavedOnDelivery(ev))
    /\ msngr_send_state' = IF Awaited(ev.hash) THEN "DELIVERED" ELSE msngr_send_state

messenger_on_failed(ev) ==
    /\ ev.call = "failed"
    /\ msngr_send_state' = IF Awaited(ev.hash) THEN "FAILED" ELSE msngr_send_state
    /\ UNCHANGED <<history, unsaved>>

(* The router calls this for every message it transmits, too. *)
HandedToNode(ev) == msngr_send_method = "PROPAGATED" /\ Awaited(ev.hash)

messenger_on_sent(ev) ==
    /\ ev.call = "sent"
    /\ save_message(IF HandedToNode(ev) THEN {ev.hash} ELSE {})
    /\ msngr_send_state' = IF HandedToNode(ev) THEN "SENT_TO_NODE" ELSE msngr_send_state

Callback(ev) ==
    /\ \/ messenger_on_delivered(ev)
       \/ messenger_on_failed(ev)
       \/ messenger_on_sent(ev)
       \/ ev = NoCall /\ UNCHANGED <<history, unsaved, msngr_send_state>>
    /\ UNCHANGED <<msngr_send_message_hash, msngr_send_method, pending_send, sends>>

Next ==
    \/ Send \/ Retry \/ Dismiss \/ messenger_send_process
    \/ \E ev \in Calls : RouterStep(ev) /\ Callback(ev)

Spec == Init /\ [][Next]_vars

(* loop() polls the router for ever, but nothing says that the worker's     *)
(* task can be created.  Reticulum gives every receipt an end, the worker's  *)
(* task ends, and a link that is not established is given up.                 *)
StartsWorker == stamper.state = "IDLE" /\ stamper'.state = "RUNNING"
LiveSpec ==
    /\ Spec
    /\ WF_vars(\E ev \in Calls : process_outbound(ev) /\ Callback(ev) /\ ~StartsWorker)
    /\ WF_vars(\E ev \in Calls : ReceiptConcludes(ev) /\ Callback(ev))
    /\ WF_vars(stamp_worker_task(NoCall) /\ Callback(NoCall))
    /\ WF_vars(/\ on_link_change(NoCall) /\ Callback(NoCall)
               /\ direct_link = "PENDING" /\ direct_link' # "PENDING")

-----------------------------------------------------------------------------
(* The types of the state; no queue entry goes over its budget of attempts. *)
TypeOK ==
    /\ Len(pending_outbound) <= PENDING_OUTBOUND_SIZE
    /\ pending_outbound \in Seq(Entry)
    /\ pending_proofs \subseteq Hashes \X (1..MaxAttempts)
    /\ outbound_resources \subseteq Hashes /\ prop_resources \subseteq Hashes
    /\ {direct_link, propagation_link} \subseteq {"NONE", "PENDING", "ACTIVE"}
    /\ stamp_cost \in BOOLEAN
    /\ stamper \in [state : {"IDLE", "RUNNING", "DONE_SUCCESS", "DONE_FAIL"}, owner : Owners]
    /\ verdicts \in [Hashes -> Seq({"delivered", "failed", "sent"})]
    /\ msngr_send_state \in SendStates /\ msngr_send_message_hash \in 0..MaxSends
    /\ msngr_send_method \in Methods /\ pending_send \in PendingSend
    /\ sends \in 0..MaxSends
    /\ history \subseteq Hashes /\ unsaved \subseteq Hashes

(* A message gets at most one final report, however its retries, its        *)
(* timeouts and late proofs fall: never delivered twice, never failed and    *)
(* delivered (static_proof_callback, static_proof_timeout_callback).          *)
OneVerdict == \A h \in Hashes : Len(verdicts[h]) <= 1

(* The result screen tells the truth about the message it tracks: while it  *)
(* waits the router has not decided, and what it shows as the outcome is     *)
(* what the router said of this message and not of an earlier one ("a proof  *)
(* for some earlier, already-timed-out send arriving late shouldn't          *)
(* resurrect/overwrite whatever's currently being tracked").                 *)
OutcomeIsTracked ==
    LET said == IF msngr_send_message_hash = 0 THEN <<>> ELSE verdicts[msngr_send_message_hash]
    IN  /\ msngr_send_state = "PENDING" => said = <<>>
        /\ msngr_send_state = "DELIVERED" => said = <<"delivered">>
        /\ msngr_send_state = "FAILED" => said = <<"failed">>
        /\ msngr_send_state = "SENT_TO_NODE" => said = <<"sent">>

(* Only messages the router confirmed are in the conversation, or were to   *)
(* be ("a message that never got delivered has no business in the            *)
(* conversation history").                                                    *)
OnlyConfirmedInHistory ==
    \A h \in history \cup unsaved : verdicts[h] \in {<<"delivered">>, <<"sent">>}

(* An opportunistic message that waits for its proof is the first one, and  *)
(* has a slot in which the proof or its timeout will find it, unless its     *)
(* packet found the pool full; and no retry leaves a slot behind: a message   *)
(* in the queue has at most the slot of its last attempt, while it waits.     *)
(* Slots outlive only the messages that an overflow took out of the queue.    *)
SentIsWatched ==
    /\ \A i \in DOMAIN pending_outbound :
         LET e == pending_outbound[i]
         IN  e.state = "SENT" =>
               i = 1 /\ (e.untracked \/ <<e.hash, e.delivery_attempts>> \in pending_proofs)
    /\ \A slot \in pending_proofs :
         slot[1] \in Queued =>
           LET e == Head(pending_outbound)
           IN  e.state = "SENT" /\ ~e.untracked /\ slot = <<e.hash, e.delivery_attempts>>

(* The moment a message is confirmed its save is tried, of this message and *)
(* not of another: a delivered one if it was still in the router's queue,    *)
(* even when a later send has replaced it on the screen, or if it is the     *)
(* tracked one, even when the screen has given it up; one that the node took *)
(* if the screen waits for it.  Only a refusal by the store keeps it out of   *)
(* the history.                                                               *)
ConfirmedKept ==
    [][\A h \in Hashes :
         (/\ verdicts[h] = <<>>
          /\ \/ verdicts'[h] = <<"delivered">> /\ (h \in Queued \/ Tracked(h))
             \/ verdicts'[h] = <<"sent">> /\ Awaited(h))
         => h \in history' \cup unsaved']_vars

(* What may hold the queue: a direct message that waits for its link, one   *)
(* that needs a stamp while no worker can be created, and one whose packet   *)
(* found the pool of proof slots full.                                        *)
WaitsForLink ==
    /\ queue_busy
    /\ Head(pending_outbound).method = "DIRECT"
    /\ direct_link # "ACTIVE"
WaitsForWorker ==
    /\ queue_busy /\ stamper.state = "IDLE"
    /\ LET e == Head(pending_outbound)
       IN  \/ e.stamp_pending
           \/ e.method = "PROPAGATED" /\ propagation_link = "ACTIVE" /\ NeedsStamp(e)
Parked ==
    /\ queue_busy
    /\ Head(pending_outbound).state = "SENT" /\ Head(pending_outbound).untracked

(* Nothing else does: whatever is not known, not accepted, not proven or    *)
(* mined too slowly, the queue is empty again once the user stops sending.    *)
QueueMoves == []<>(~queue_busy \/ WaitsForLink \/ WaitsForWorker \/ Parked)

(* What the comments of process_outbound() and send_opportunistic() say of  *)
(* a transmitted message: its proof or its timeout resolves it ("pop as      *)
(* DELIVERED on proof, retry (reset to OUTBOUND) or pop as FAILED on          *)
(* timeout").  With the pool full neither will.                               *)
SentIsResolved == []<>(~queue_busy \/ Head(pending_outbound).state # "SENT")

(* What process_outbound() says of its waits: they have a counter of their  *)
(* own, so that they "can't stall the single-in-flight outbound queue         *)
(* forever".  Waiting for a link that stays pending is not counted.           *)
LinkWaitEnds == []<>~WaitsForLink
=============================================================================
