----------------------------- MODULE AuditShip -----------------------------
(***************************************************************************)
(* Shipping the audit trail: ControlPlaneAuditSink::record and             *)
(* run_audit_shipping, against a control plane that keeps one hash chain   *)
(* per gateway.  Answers may be lost after the control plane has acted,    *)
(* the process may crash, and the record of the chain's tail may be torn.  *)
(*                                                                         *)
(* Events are numbered as they are recorded.  A hash stands for all that   *)
(* was hashed into it: the tail (seq, hash) of a chain is the chain.       *)
(***************************************************************************)
EXTENDS Integers, Sequences, Functions

CONSTANTS Buffer,      \* AUDIT_BUFFER
          BatchMax,    \* BATCH_MAX
          MaxPending,  \* MAX_PENDING
          MaxEvents,   \* bound: audited decisions
          MaxFaults    \* bound: lost answers, refused connections, crashes

VARIABLES recorded,  \* events recorded: the local sink holds 1..recorded
          dropped,   \* those the full channel turned away
          lost,      \* those a crash took from memory
          queue, pending,
          tail,      \* the shipper's next_seq and prev_hash
          disk,      \* audit-chain.json
          chain,     \* the control plane's copy
          stage,     \* resume, fill, ship, rebase, sleep or down
          faults

vars == <<recorded, dropped, lost, queue, pending, tail, disk, chain, stage, faults>>
memory == <<queue, pending>>

Genesis == <<>>
Torn == <<0>>

\* audit_head: the tail as the control plane has it.
AuditHead == chain

Init ==
    /\ recorded = 0 /\ dropped = {} /\ lost = {} /\ queue = <<>> /\ pending = <<>>
    /\ tail = Genesis /\ disk = Genesis /\ chain = Genesis
    /\ stage = "resume" /\ faults = 0

Fault == faults < MaxFaults /\ faults' = faults + 1

\* record: the local sink, then try_send.
Record ==
    /\ stage # "down" /\ recorded < MaxEvents
    /\ recorded' = recorded + 1
    /\ IF Len(queue) < Buffer
       THEN queue' = Append(queue, recorded + 1) /\ UNCHANGED dropped
       ELSE dropped' = dropped \cup {recorded + 1} /\ UNCHANGED queue
    /\ UNCHANGED <<lost, pending, tail, disk, chain, stage, faults>>

\* resume: the control plane's head, else the local record, else genesis.
Resume ==
    /\ stage = "resume"
    /\ \/ tail' = AuditHead /\ UNCHANGED faults
       \/ tail' = (IF disk = Torn THEN Genesis ELSE disk) /\ Fault
    /\ stage' = "fill"
    /\ UNCHANGED <<recorded, dropped, lost, memory, disk, chain>>

\* Mutant: new events go ahead of the backlog.
Refill_Ahead(limit) ==
    LET room == IF limit > Len(pending) THEN limit - Len(pending) ELSE 0
        n == IF Len(queue) < room THEN Len(queue) ELSE room
    IN /\ pending' = SubSeq(queue, 1, n) \o pending
       /\ queue' = SubSeq(queue, n + 1, Len(queue))

\* Move what the channel holds, up to a limit on pending.
Refill(limit) ==
    LET room == IF limit > Len(pending) THEN limit - Len(pending) ELSE 0
        n == IF Len(queue) < room THEN Len(queue) ELSE room
    IN /\ pending' = pending \o SubSeq(queue, 1, n)
       /\ queue' = SubSeq(queue, n + 1, Len(queue))

Fill ==
    /\ stage = "fill" /\ pending \o queue # <<>>
    /\ Refill(BatchMax)
    /\ stage' = "ship"
    /\ UNCHANGED <<recorded, dropped, lost, tail, disk, chain, faults>>

Batch == SubSeq(pending, 1, IF Len(pending) < BatchMax THEN Len(pending) ELSE BatchMax)

\* The control plane recomputes the chain and rejects a break.
Accepts == tail = AuditHead

\* ship_audit: the chain once a batch that continues it is taken.
ShipAudit == chain \o Batch

\* persist is a plain write: it may fail, or stop half-way.
Shipped ==
    /\ stage = "ship" /\ Accepts
    /\ chain' = ShipAudit /\ tail' = chain'
    /\ \/ disk' = tail' /\ UNCHANGED faults
       \/ disk' \in {disk, Torn} /\ Fault
    /\ pending' = SubSeq(pending, Len(Batch) + 1, Len(pending))
    /\ stage' = "fill"
    /\ UNCHANGED <<recorded, dropped, lost, queue>>

\* The request fails: unsent, or acted upon and its answer lost.
ShipFails ==
    /\ stage = "ship" /\ Fault
    /\ chain' \in {chain} \cup (IF Accepts THEN {ShipAudit} ELSE {})
    /\ stage' = "sleep"
    /\ UNCHANGED <<recorded, dropped, lost, memory, tail, disk>>

Conflict ==
    /\ stage = "ship" /\ ~Accepts
    /\ stage' = "rebase"
    /\ UNCHANGED <<recorded, dropped, lost, memory, tail, disk, chain, faults>>

\* Mutant: a conflict is only slept on.
Rebase_Sleeps ==
    /\ stage = "rebase" /\ stage' = "sleep"
    /\ UNCHANGED <<recorded, dropped, lost, memory, tail, disk, chain, faults>>

Rebase ==
    /\ stage = "rebase"
    /\ \/ tail' = AuditHead /\ stage' = "fill" /\ UNCHANGED faults
       \/ Fault /\ stage' = "sleep" /\ UNCHANGED tail
    /\ UNCHANGED <<recorded, dropped, lost, memory, disk, chain>>

\* The branch that drops the oldest is never taken: Refill stops at the cap.
Backoff ==
    /\ stage = "sleep"
    /\ Refill(MaxPending)
    /\ stage' = "fill"
    /\ UNCHANGED <<recorded, dropped, lost, tail, disk, chain, faults>>

Crash ==
    /\ stage # "down" /\ Fault
    /\ lost' = lost \cup Range(queue) \cup Range(pending)
    /\ queue' = <<>> /\ pending' = <<>> /\ stage' = "down"
    /\ UNCHANGED <<recorded, dropped, tail, disk, chain>>

Restart ==
    /\ stage = "down"
    /\ stage' = "resume"
    /\ UNCHANGED <<recorded, dropped, lost, memory, tail, disk, chain, faults>>

Shipper == Resume \/ Fill \/ Shipped \/ ShipFails \/ Conflict \/ Rebase \/ Backoff

Next == Record \/ Shipper \/ Crash \/ Restart

Spec == Init /\ [][Next]_vars

\* The shipping task runs, and a supervisor restarts the process.
FairSpec == Spec /\ WF_vars(Shipper) /\ WF_vars(Restart)

-----------------------------------------------------------------------------
Events == 1..MaxEvents

TypeOK ==
    /\ recorded \in 0..MaxEvents /\ dropped \subseteq Events /\ lost \subseteq Events
    /\ queue \in Seq(Events) /\ pending \in Seq(Events)
    /\ Len(queue) <= Buffer /\ Len(pending) <= MaxPending
    /\ tail \in Seq(Events) /\ chain \in Seq(Events) /\ disk \in Seq(Events) \cup {Torn}
    /\ stage \in {"resume", "fill", "ship", "rebase", "sleep", "down"}
    /\ faults \in 0..MaxFaults

\* The shipper forgets an event only when the control plane has it, whatever
\* answers are lost and however often the chain is re-based; the rest was
\* turned away by the channel, or died with the process.
NothingForgotten ==
    1..recorded = dropped \cup lost \cup Range(queue) \cup Range(pending) \cup Range(chain)

FirstAt(e) == CHOOSE i \in DOMAIN chain : chain[i] = e /\ \A j \in 1..(i - 1) : chain[j] # e

\* A re-based batch may repeat events, but the control plane first sees them
\* in the order of the decisions.
FirstSeenInOrder ==
    \A e, f \in Range(chain) : e < f => FirstAt(e) < FirstAt(f)

\* An event that reached the channel reaches the control plane, or dies with
\* the process: a stale tail or a conflict never wedges the shipper.
AllShipped == 1..recorded = dropped \cup lost \cup Range(chain)
EventuallyShipped == <>[]AllShipped

\* MAX_PENDING: beyond it "the oldest are dropped", so that a retry has room
\* for everything that came in meanwhile.
OldestDropped == [][stage = "sleep" /\ stage' = "fill" => queue' = <<>>]_vars
============================================================================
