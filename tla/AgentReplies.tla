---------------------------- MODULE AgentReplies ----------------------------
(***************************************************************************)
(* The reply a chat shows for an agent request, published beside its run.  *)
(*                                                                         *)
(* AgentRuns moves the rows; here every handler that ends a run also asks  *)
(* for the terminal reply (terminal_backfill), a runner's completion       *)
(* publishes between its check and its final update, and a Mac publishes   *)
(* its reply and its phase in one transaction.  Publications live in the   *)
(* server's memory and are lost when it restarts; the backfill sweep asks  *)
(* again for runs a Mac held.  The owner's devices also post terminal       *)
(* messages of their own beside the run's reply: a notice that the request  *)
(* has ended without a run, and the answer of a turn a Mac ran by itself.   *)
(* One reply per request: the self-agent chat.                              *)
(***************************************************************************)
EXTENDS AgentRuns

VARIABLES
  reply,     \* the run's reply: its delivery state, "none" before the first
  notice,    \* the message of a Mac that ends a reply no run will end
  ownAnswer, \* requests a Mac answered by a turn of its own, outside the run
  told,      \* stops whose caller was told the request already finished
  past,      \* runs a Mac held that ended more than fifteen minutes ago
  due,       \* publications asked for: the run, and whether a reply was reported
  writing,   \* publications that found no terminal reply and write theirs next
  answered   \* runners whose completion published and has yet to commit

postVars == <<notice, ownAnswer, told>>
replyVars == <<reply, postVars, past, due, writing, answered>>
allVars == <<vars, replyVars>>

Terminal == {"complete", "failed", "cancelled"}
ReplyStates(r) == ({reply[r], notice[r]} \cap Terminal)
                    \cup (IF r \in ownAnswer THEN {"complete"} ELSE {})
HasTerminalReply(r) == ReplyStates(r) # {}

RepliesTypeOK ==
  /\ reply \in [Runs -> {"none", "processing"} \cup Terminal]
  /\ notice \in [Runs -> {"none", "failed", "cancelled"}]
  /\ ownAnswer \subseteq Runs
  /\ told \subseteq Runs
  /\ past \subseteq Runs
  /\ due \subseteq [run : Runs, reported : BOOLEAN]
  /\ writing \subseteq [run : Runs, state : Terminal]
  /\ answered \subseteq Runners

RepliesInit ==
  /\ Init
  /\ reply = [r \in Runs |-> "none"]
  /\ notice = [r \in Runs |-> "none"]
  /\ ownAnswer = {}
  /\ told = {}
  /\ past = {}
  /\ due = {}
  /\ writing = {}
  /\ answered = {}

DeliveryState(status) == IF status = "completed" THEN "complete" ELSE status
StatusForReply(state) == IF state = "complete" THEN "completed" ELSE state

Ask(r, reported) ==
  /\ due' = due \cup {[run |-> r, reported |-> reported]}
  /\ UNCHANGED <<reply, postVars, past, writing, answered>>

-----------------------------------------------------------------------------
(* publish_terminal_response reads the run and its replies, then writes.   *)

\* A completed run gets a reply only when its executor reports one.
NeedsReply(x) ==
  /\ run[x.run].status \in {"cancelled", "failed"}
       \/ (x.reported /\ run[x.run].status = "completed")
  /\ ~HasTerminalReply(x.run)

CheckReply(x) ==
  /\ due' = due \ {x}
  /\ writing' = IF NeedsReply(x)
                  THEN writing \cup {[run |-> x.run,
                                      state |-> DeliveryState(run[x.run].status)]}
                  ELSE writing
  /\ UNCHANGED <<vars, reply, postVars, past, answered>>

\* ensure_response_message and update_response_message_body: the reply's body
\* is replaced whatever it says by now.
WriteReply(p) ==
  /\ writing' = writing \ {p}
  /\ reply' = [reply EXCEPT ![p.run] = p.state]
  /\ UNCHANGED <<vars, postVars, past, due, answered>>

\* The server restarts or the publication fails; it is only logged.
PublicationLost ==
  /\ \/ \E x \in due : due' = due \ {x} /\ UNCHANGED writing
     \/ \E p \in writing : writing' = writing \ {p} /\ UNCHANGED due
  /\ UNCHANGED <<vars, reply, postVars, past, answered>>

\* The backfill's window closes for a run that ended long enough ago; one whose
\* Mac was lost ended when its lease lapsed, which may be as long ago.
WindowCloses(r) ==
  /\ run[r].backend = "desktop" /\ run[r].status \in {"cancelled", "failed"}
  /\ r \notin past
  /\ past' = past \cup {r}
  /\ UNCHANGED <<vars, reply, postVars, due, writing, answered>>

\* The minute's sweep: runs of a Mac that ended within the window.
BackfillStopped(r) ==
  /\ r \notin past
  /\ run[r].backend = "desktop" /\ run[r].status = "cancelled"
  /\ Ask(r, FALSE)
  /\ UNCHANGED vars

Backfill(r) ==
  /\ r \notin past
  /\ run[r].backend = "desktop" /\ run[r].status \in {"cancelled", "failed"}
  /\ Ask(r, FALSE)
  /\ UNCHANGED vars

-----------------------------------------------------------------------------
(* The handlers of AgentRuns that publish.                                 *)

EndsAndAsks ==
  \/ \E r \in Runs : (StopEnds(r) \/ ReleaseStopped(r)) /\ Ask(r, FALSE)
  \/ \E r \in Runs : /\ Restrict(r) \/ EndOthers(r)
                     /\ IF IsActive(r) THEN Ask(r, TRUE) ELSE UNCHANGED replyVars
  \/ \E d \in Desktops, r \in Runs : DesktopCancel(d, r) /\ Ask(r, FALSE)
  \/ \E w \in Runners : AcknowledgeStop(w) /\ Ask(work[w].run, FALSE)
  \/ \E w \in Runners :
       /\ RunnerAnswer(w)
       /\ IF work[w].run \in barred /\ IsHeld(work[w].run)
            THEN Ask(work[w].run, TRUE) ELSE UNCHANGED replyVars
  \/ \E dev \in Devices, r \in Runs, status \in Ended, stopped, reported \in BOOLEAN :
       EndInterrupted(dev, r, status, stopped) /\ Ask(r, reported)

\* Within complete or fail: the reply is written through the pool, outside the
\* transaction that holds the lock.
PublishEnding(w, at) ==
  /\ work[w].at = at /\ w \notin answered
  /\ reply' = [reply EXCEPT ![work[w].run] = DeliveryState(EndStatus(at))]
  /\ answered' = answered \cup {w}
  /\ UNCHANGED <<vars, postVars, past, due, writing>>

PublishAnswer(w) == PublishEnding(w, "completing")
PublishFailure(w) == PublishEnding(w, "failing")

CommitFirst(w) ==
  /\ CommitEnding(w)
  /\ answered' = answered \ {w}
  /\ UNCHANGED <<reply, postVars, past, due, writing>>

CommitAnswer(w) ==
  /\ CommitEnding(w) /\ w \in answered
  /\ answered' = answered \ {w}
  /\ UNCHANGED <<reply, postVars, past, due, writing>>

RunnerDropsOut(w) ==
  /\ RunnerGone(w)
  /\ answered' = answered \ {w}
  /\ UNCHANGED <<reply, postVars, past, due, writing>>

\* publish_into_reply_row: progress replaces a processing reply, the terminal
\* reply replaces it once, and a terminal reply stays.
LateSnapshot(d, r, phase) ==
  /\ phase \in Held /\ run[r].claimedBy = d
  /\ reply' = [reply EXCEPT ![r] = "processing"]
  /\ UNCHANGED <<vars, postVars, past, due, writing, answered>>

PublishIntoReply(d, r, phase) ==
  /\ PublishProgress(d, r, phase)
  /\ reply' = IF reply[r] \in Terminal THEN reply
              ELSE [reply EXCEPT ![r] = IF phase \in Held THEN "processing"
                                        ELSE DeliveryState(phase)]
  /\ UNCHANGED <<postVars, past, due, writing, answered>>

-----------------------------------------------------------------------------
(* What the owner's devices post themselves, as messages of their own.     *)

\* A stop that finds the request finished, while the chat still shows it as
\* processing: the run ended before, or moved between the two updates.
StopFindsEnded(r) ==
  /\ IsEnded(r) /\ reply[r] = "processing"
  /\ told' = told \cup {r}
  /\ UNCHANGED <<vars, reply, notice, ownAnswer, past, due, writing, answered>>

StopAnswersCaller(r) ==
  /\ StopAnswers(r)
  /\ told' = IF ~IsHeld(r) /\ reply[r] = "processing" THEN told \cup {r} ELSE told
  /\ UNCHANGED <<reply, notice, ownAnswer, past, due, writing, answered>>

\* The Mac that asked for the stop then ends the reply.  One message id serves
\* this notice and the next: the first that is posted stays.
StopEndsReply(r) ==
  /\ r \in told
  /\ told' = told \ {r}
  /\ notice' = [notice EXCEPT ![r] = IF @ = "none" THEN "cancelled" ELSE @]
  /\ UNCHANGED <<vars, reply, ownAnswer, past, due, writing, answered>>

\* A processing reply without progress for half an hour, whose run has ended.
EndAbandoned(r) ==
  /\ reply[r] = "processing" /\ IsEnded(r) /\ notice[r] = "none"
  /\ notice' = [notice EXCEPT ![r] = "failed"]
  /\ UNCHANGED <<vars, reply, ownAnswer, told, past, due, writing, answered>>

\* The owner asked on a Mac that ran the turn by itself and forwards it.
PostOwnAnswer(r) ==
  /\ ownAnswer' = ownAnswer \cup {r}
  /\ UNCHANGED <<vars, reply, notice, told, past, due, writing, answered>>

PostsNext ==
  \E r \in Runs : \/ StopFindsEnded(r) \/ StopAnswersCaller(r) \/ StopEndsReply(r)
                 \/ EndAbandoned(r) \/ PostOwnAnswer(r)

-----------------------------------------------------------------------------
ReleaseWithReply(r) ==
  /\ \E state \in ReplyStates(r) : ReleaseAnswered(r, StatusForReply(state))
  /\ UNCHANGED replyVars

QuietNext ==
  \/ AdmissionNext
  \/ TimeNext
  \/ \E w \in Runners :
       \/ \E r \in Runs : RunnerLease(w, r)
       \/ NoStopYet(w) \/ MarkRunning(w)
       \/ \E at \in {"completing", "failing"} : BeginEnding(w, at)
  \/ \E d \in Desktops, r \in Runs : Admit(d, r) \/ HandBack(d, r)
  \/ \E dev \in Devices, r \in Runs : ReportInterrupted(dev, r)
  \/ \E r \in Runs : StopMisses(r) \/ SavePrivate(r) \/ Permit(r) \/ ReleaseLost(r)

RepliesNext ==
  \/ QuietNext /\ UNCHANGED replyVars
  \/ EndsAndAsks
  \/ \E x \in due : CheckReply(x)
  \/ \E p \in writing : WriteReply(p)
  \/ PublicationLost
  \/ PostsNext
  \/ \E r \in Runs : Backfill(r) \/ WindowCloses(r) \/ ReleaseWithReply(r)
  \/ \E w \in Runners : \/ PublishAnswer(w) \/ PublishFailure(w)
                        \/ CommitAnswer(w) \/ RunnerDropsOut(w)
  \/ \E d \in Desktops, r \in Runs, phase \in Held \cup Ended :
       PublishIntoReply(d, r, phase)

RepliesSpec == RepliesInit /\ [][RepliesNext]_allVars

\* A publication under way goes on unless it is lost, and of those the sweep
\* repeats every minute, as long as the window is open, one gets through.
RepliesFairness ==
  \A r \in Runs :
    /\ WF_allVars(Backfill(r))
    /\ SF_allVars(\E x \in due : x.run = r /\ CheckReply(x))
    /\ SF_allVars(\E p \in writing : p.run = r /\ WriteReply(p))

RepliesFairSpec == RepliesSpec /\ RepliesFairness

-----------------------------------------------------------------------------
(* Properties.                                                             *)

\* A runner's completion or failure ends the run only after the reply says so:
\* a crash between the two leaves a held run to be run again, never an ended
\* run without its reply (completion.rs publishes first and commits last).
EndsWithItsReply ==
  [][\A w \in Runners :
       work[w].at \in {"completing", "failing"} /\ work'[w] = Idle =>
         LET r == work[w].run
         IN run'[r].status # run[r].status =>
              reply[r] = DeliveryState(run'[r].status)]_allVars

\* A run's terminal reply is never shown as running again
\* (desktop_reply_row.rs: a late snapshot must not replace the terminal reply).
NeverProcessingAgain ==
  [][\A r \in Runs : reply[r] \in Terminal => reply'[r] # "processing"]_allVars

\* The run's own reply says stopped or interrupted only when the run is over as
\* such: no executor can still answer it.  (The notice that a Mac posts beside
\* the reply makes no such promise.)
CancelledReplyIsFinal ==
  \A r \in Runs : reply[r] = "cancelled" => run[r].status = "cancelled"

\* A request whose run ended on a Mac without an answer gets its terminal reply,
\* even when the server restarts before each publication but the last, unless
\* the fifteen minutes end first in which the backfill asks for one
\* (terminal_backfill.rs, BACKFILL_WINDOW_MINUTES).
LostMacRunIsAnswered ==
  \A r \in Runs :
    run[r].backend = "desktop" /\ run[r].status \in {"cancelled", "failed"}
      ~> HasTerminalReply(r) \/ r \in past

\* A request whose stop ended its run gets its terminal reply (stop.rs: "A
\* queued run is cancelled here and gets its terminal reply at once."); a Mac's
\* run at least within the backfill's window.
StoppedRunIsAnswered ==
  \A r \in Runs :
    run[r].status = "cancelled" /\ run[r].cancel ~> HasTerminalReply(r) \/ r \in past

\* An executor publishes no answer for a run that a withdrawn permission ended
\* (contact_permissions/routes.rs, stop_requests: the executor "can no longer
\* publish").
RefusedRunIsNotAnswered ==
  [][\A r \in barred :
       run[r].status = "cancelled" /\ reply'[r] # reply[r]
         => reply'[r] # "complete"]_allVars

=============================================================================
