---------------------------- MODULE ApprovalQueue ----------------------------
(***************************************************************************)
(* core/orchestration/approval_queue.py: the append-only file of the       *)
(* candidates that await a human decision.  All entries are pending.       *)
(***************************************************************************)
EXTENDS CandidateRegistry

VARIABLE queue

QueueEntry == [cycle: Nat \ {0}, identity: Identities,
               evidence: Identities, verdict: Verdicts]

QueueTypeOK == queue \in Seq(QueueEntry)

QueueInit == queue = << >>

\* The id of an entry is its cycle and its identity.
Matches(e, f) == e.cycle = f.cycle /\ e.identity = f.identity

\* append: idempotent per cycle and identity.
Enqueue(entry) ==
  queue' = IF \E k \in DOMAIN queue : Matches(queue[k], entry)
           THEN queue
           ELSE Append(queue, entry)
=============================================================================
