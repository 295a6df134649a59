--------------------------- MODULE IntakeSession ---------------------------
(***************************************************************************)
(* A chat that captures an intent: IntentService and its row in            *)
(* `intent_sessions`, on top of the job engine.  The session's intake job  *)
(* is the job of JobEngine.  A message of the user is an event for that    *)
(* job, walked in the same request, and the session is updated after the   *)
(* walk; the intent the job produces is handed to the session by a         *)
(* synchronous listener, inside the walk.  Confirming submits the work job.*)
(*                                                                         *)
(* No code writes 'expired', and 'pipeline-creation-required' has no       *)
(* producer yet, so neither occurs, nor does 'failed', which only follows  *)
(* the latter.                                                             *)
(***************************************************************************)
EXTENDS JobEngine

CONSTANT Confirms    \* requests to confirm the session

VARIABLES
    session,    \* intent_sessions.status
    relays,     \* walks that serve deliverMessage, which writes the session after
    confirm,    \* where each confirm is: its transaction opens, then closes
    workJobs    \* the confirms whose work job is in `jobs`, committed

sessionVars == <<session, relays, confirm, workJobs>>
confirmVars == <<confirm, workJobs>>
intakeVars == <<vars, sessionVars>>

Sessions ==
    {"awaiting-message", "processing", "intent-ready", "submitted", "aborted"}
Ended == {"submitted", "aborted"}
Open == Sessions \ Ended

\* startSession submits the intake job and creates the session in one
\* transaction.
IntakeInit ==
    /\ Init
    /\ session = "awaiting-message"
    /\ relays = {}
    /\ confirm = [c \in Confirms |-> "new"]
    /\ workJobs = {}

-----------------------------------------------------------------------------
(* The intake job. *)

\* A request that still owes the session its update takes no other work.
Free(w) == w \notin relays

JobMoves ==
    /\ \/ Outside
       \/ \E w \in Walks : Proceed(w) \/ (Free(w) /\ Request(w))
    /\ UNCHANGED sessionVars

\* deliverMessage is the event "user-message" for the intake job; the session
\* itself is not asked for its status.
Message(w) ==
    /\ Free(w)
    /\ DeliverEvent(w)
    /\ relays' = relays \union {w}
    /\ UNCHANGED <<session, confirmVars>>

\* A bug to detect: an update without its condition.
OverwritesAlways(w) ==
    /\ w \in relays /\ pc[w] = "idle"
    /\ session' = "processing"
    /\ relays' = relays \ {w}
    /\ UNCHANGED <<vars, confirmVars>>

\* The walk is over: deliverMessage now says that it begins.
Relay(w) ==
    /\ w \in relays /\ pc[w] = "idle"
    /\ session' = IF session \in Open THEN "processing" ELSE session
    /\ relays' = relays \ {w}
    /\ UNCHANGED <<vars, confirmVars>>

\* JobIntentListener runs in the walk's thread, right after the event.
PublishIntent(w) ==
    /\ Publish(w)
    /\ session' = IF session \in Open THEN "intent-ready" ELSE session
    /\ UNCHANGED <<relays, confirmVars>>

\* The exception goes through deliverMessage, which then updates nothing.
RequestDies(w) ==
    /\ WalkDies(w)
    /\ relays' = relays \ {w}
    /\ UNCHANGED <<session, confirmVars>>

-----------------------------------------------------------------------------
(* The session's own requests. *)

Abort ==
    /\ session \in Open
    /\ session' = "aborted"
    /\ UNCHANGED <<vars, relays, confirmVars>>

\* confirm up to the update of the session: the status is read and the work job
\* inserted, without being committed.
ConfirmOpens(c) ==
    /\ confirm[c] = "new"
    /\ session \in Open
    /\ confirm' = [confirm EXCEPT ![c] = "open"]
    /\ UNCHANGED <<vars, session, relays, workJobs>>

\* A bug to detect: markSubmitted trusts the status read before.
CommitsUnchecked(c) ==
    /\ confirm[c] = "open"
    /\ session' = "submitted"
    /\ workJobs' = workJobs \union {c}
    /\ confirm' = [confirm EXCEPT ![c] = "closed"]
    /\ UNCHANGED <<vars, relays>>

\* markSubmitted updates the row and the transaction commits.
ConfirmCommits(c) ==
    /\ confirm[c] = "open"
    /\ session \in Open
    /\ session' = "submitted"
    /\ workJobs' = workJobs \union {c}
    /\ confirm' = [confirm EXCEPT ![c] = "closed"]
    /\ UNCHANGED <<vars, relays>>

\* markSubmitted finds no row to update: the exception rolls the work job back,
\* though a harness that was sent it keeps it.
ConfirmRollsBack(c) ==
    /\ confirm[c] = "open"
    /\ session \in Ended
    /\ confirm' = [confirm EXCEPT ![c] = "closed"]
    /\ UNCHANGED <<vars, session, relays, workJobs>>

IntakeNext ==
    \/ JobMoves
    \/ \E w \in Walks : Message(w) \/ Relay(w) \/ PublishIntent(w) \/ RequestDies(w)
    \/ Abort
    \/ \E c \in Confirms : ConfirmOpens(c) \/ ConfirmCommits(c) \/ ConfirmRollsBack(c)

\* Threads go on until they answer.
IntakeSpec ==
    /\ IntakeInit /\ [][IntakeNext]_intakeVars
    /\ \A w \in Walks :
          WF_intakeVars(Relay(w) \/ PublishIntent(w)
                        \/ (Proceed(w) /\ UNCHANGED sessionVars))

-----------------------------------------------------------------------------
(* Properties. *)

\* The types of the job's row and walks, and of the session's row.
IntakeTypeOK ==
    /\ TypeOK
    /\ session \in Sessions
    /\ relays \subseteq Walks
    /\ confirm \in [Confirms -> {"new", "open", "closed"}]
    /\ workJobs \subseteq Confirms

\* However many requests confirm or abort a session at once, it is submitted
\* with exactly one work job in the database, and aborted with none.
OneWorkJob ==
    /\ session = "submitted" <=> workJobs # {}
    /\ \A c, d \in workJobs : c = d

\* A submitted or aborted session stays what it is, whatever walk still relays
\* a message, produces an intent or confirms.
EndedSessionsStayEnded == [][(session \in Ended) => (session' = session)]_session

\* A session that offers an intent has an intake job at its end: nothing the
\* user confirms is still being worked out.
ReadySessionsHaveEndedJobs ==
    session = "intent-ready" => produced /\ status \in Terminal

-----------------------------------------------------------------------------
(* What the comments of the code say, and the code does not do. *)

\* IntentService.java:40-44: the intent takes the session to intent-ready.
\* Hence no session without a request under way has an intent and still waits
\* for its intake job.
IntentsReachTheSession ==
    produced /\ Busy = {} /\ relays = {} =>
        session \notin {"awaiting-message", "processing"}
=============================================================================
