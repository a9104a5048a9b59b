----------------------------- MODULE Enrichment -----------------------------
(* enrichment_queue.py and enrichment_engine.py: workers that take jobs from *)
(* a table without a lock around them, read the lead, ask other services for *)
(* seconds and write the lead back. What they write is left out.             *)
EXTENDS LeadTable

CONSTANTS
  MaxAttempts,  \* MAX_ATTEMPTS
  Workers       \* the worker and POST /enrichment/process-queue

ASSUME EnrichmentAssumption == MaxAttempts \in Nat \ {0}

VARIABLE worker   \* a job on its way through run_cycle

NoJob == [id |-> 0, attempts |-> 0]
IdleWorker == [pc |-> "idle", job |-> NoJob]

EnrichmentInit == worker = [w \in Workers |-> IdleWorker]

JobIs(w) == db.job.id = worker[w].job.id /\ db.job.status # "none"
AtWork(w) == worker[w].pc \in {"load", "flush", "complete", "fail"}

\* The unique index lets a lead wait once. A new job is a new row.
Queued == [db EXCEPT !.job =
             IF @.status \in {"pending", "processing"} THEN @
             ELSE [id |-> @.id + 1, status |-> "pending", attempts |-> 0]]

\* enqueue_lead, of POST /leads/{id}/enrich
Enqueue ==
  /\ Lead.here
  /\ Event("enrich")
  /\ db' = Queued
  /\ UNCHANGED worker

---------------------------------------------------------------------------
FetchJob(w) ==
  /\ Plays("enrich") /\ worker[w].pc = "idle"
  /\ db.job.status = "pending" /\ db.job.attempts < MaxAttempts
  /\ worker' = [worker EXCEPT ![w] = [IdleWorker EXCEPT !.pc = "claim",
                   !.job = [id |-> db.job.id, attempts |-> db.job.attempts]]]
  /\ UNCHANGED <<db, env>>

Claimable(w) == JobIs(w) /\ db.job.status = "pending"
Attempted(job) == job.attempts + 1

\* Claimed when it is still pending; the count is of the row that was fetched.
ClaimJob(w) ==
  LET job == worker[w].job IN
  /\ worker[w].pc = "claim"
  /\ \/ /\ Claimable(w)
        /\ db' = [db EXCEPT !.job.status = "processing", !.job.attempts = Attempted(job)]
        /\ worker' = [worker EXCEPT ![w].pc = "load", ![w].job.attempts = Attempted(job)]
        /\ UNCHANGED env
     \/ /\ ~Claimable(w) /\ UNCHANGED env
        /\ worker' = [worker EXCEPT ![w] = IdleWorker] /\ UNCHANGED db
     \/ Fault /\ worker' = [worker EXCEPT ![w] = IdleWorker] /\ UNCHANGED db

\* A lead that is not there is an error like any other.
LoadLead(w) ==
  /\ worker[w].pc = "load"
  /\ \/ /\ Lead.here /\ UNCHANGED env
        /\ worker' = [worker EXCEPT ![w].pc = "flush"]
     \/ ~Lead.here /\ worker' = [worker EXCEPT ![w].pc = "fail"] /\ UNCHANGED env
     \/ Fault /\ worker' = [worker EXCEPT ![w].pc = "fail"]
  /\ UNCHANGED db

\* The answers of the services are written over custom_fields as they were read.
FlushLead(w) ==
  /\ worker[w].pc = "flush"
  /\ \/ worker' = [worker EXCEPT ![w].pc = "complete"] /\ UNCHANGED env
     \/ worker' = [worker EXCEPT ![w].pc = "fail"] /\ Fault
  /\ UNCHANGED db

\* The row of the job, if it is still there. The webhook event before it is
\* WebhookDelivery's.
WithJob(w, status) == IF JobIs(w) THEN [db EXCEPT !.job.status = status] ELSE db

CompleteJob(w) ==
  /\ worker[w].pc = "complete"
  /\ Call(WithJob(w, "completed"))
  /\ worker' = [worker EXCEPT ![w] = IdleWorker]

\* Mutant: one attempt too many.
GivesUpLate(job) == job.attempts > MaxAttempts

GivesUp(job) == job.attempts >= MaxAttempts

FailJob(w) ==
  /\ worker[w].pc = "fail"
  /\ Call(WithJob(w, IF GivesUp(worker[w].job) THEN "failed" ELSE "pending"))
  /\ worker' = [worker EXCEPT ![w] = IdleWorker]

WorkerKilled(w) ==
  /\ worker[w].pc # "idle" /\ Fault
  /\ worker' = [worker EXCEPT ![w] = IdleWorker]
  /\ UNCHANGED db

WorkerStep(w) == \/ FetchJob(w) \/ ClaimJob(w) \/ LoadLead(w) \/ FlushLead(w)
                 \/ CompleteJob(w) \/ FailJob(w)
EnrichmentStep == Enqueue \/ \E w \in Workers : WorkerStep(w) \/ WorkerKilled(w)

EnrichmentOK ==
  worker \in [Workers -> [pc : {"idle", "claim", "load", "flush", "complete", "fail"},
                          job : [id : Nat, attempts : Nat]]]

\* A job leaves the queue: it is done or given up, unless nobody is left to
\* write its outcome.
Stranded == db.job.status = "processing" /\ \A w \in Workers : ~(AtWork(w) /\ JobIs(w))
JobSettles ==
  Plays("enrich") /\ db.job.status = "pending" ~> db.job.status \notin {"pending", "processing"} \/ Stranded
=============================================================================
