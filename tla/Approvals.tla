----------------------------- MODULE Approvals -----------------------------
(***************************************************************************)
(* The approvals of internal/approvals as a tool call meets them: the      *)
(* checks of Registry.Call and of permissions.Evaluate, the review by a    *)
(* model, the wait for a human, the answers, the snapshots of what is      *)
(* pending, the trust of a project's MCP configuration and the end of the  *)
(* service.                                                                *)
(*                                                                         *)
(* A call runs on a goroutine of its own: one step for each stretch it     *)
(* spends under Service.mu or between two looks at a context.  Cancelling  *)
(* the context of a run cancels what is derived from it at once; closing   *)
(* the service cancels it later, on a goroutine of context.AfterFunc.      *)
(***************************************************************************)
EXTENDS FiniteSets, Naturals

CONSTANTS Calls,       \* calls that may need a permission
          CallKind,    \* [Calls -> {"tool", "mcp", "config"}]
          Mode,        \* [Calls -> permissions.Mode of the call]
          Workspace,   \* [Calls -> Workspaces]
          Listeners,   \* subscriptions to the snapshots
          Workspaces   \* projects with an MCP configuration

VARIABLES
  stage,      \* [Calls -> where the call is]
  said,       \* [Calls -> the decision somebody was told is taken]
  verdict,    \* [Calls -> the decision the call holds]
  answer,     \* [Calls -> what lies in its answer channel]
  ended,      \* the calls whose run was stopped
  ctxDone,    \* the calls whose derived context is cancelled
  pending,    \* Service.pending
  listening,  \* Service.listeners
  unread,     \* [Listeners -> the snapshot in the channel, or Nothing]
  known,      \* [Listeners -> the last snapshot received]
  trusted,    \* mcp-trust.json: the workspaces whose current digest is in it
  forgetting, \* a ForgetWorkspaceTrust that has read the file
  closing     \* "open", "closed" (Close waits) or "done" (Close returned)

approvalVars == <<stage, said, verdict, answer, ended, ctxDone, pending,
                  listening, unread, known, trusted, forgetting, closing>>

Nothing == {"nothing"}
NoForget == [of |-> "nobody", read |-> {}]
Final == {"granted", "free", "refused", "cancelled", "failed"}

TypeOK ==
  /\ stage \in [Calls -> {"idle", "review", "asking", "waiting", "decided",
                          "saving"} \cup Final]
  /\ said \in [Calls -> {"none", "yes", "no"}]
  /\ verdict \in [Calls -> {"none", "yes", "no"}]
  /\ answer \in [Calls -> {"none", "yes", "no"}]
  /\ ended \subseteq Calls /\ ctxDone \subseteq Calls
  /\ pending \subseteq Calls /\ listening \subseteq Listeners
  /\ unread \in [Listeners -> (SUBSET Calls) \cup {Nothing}]
  /\ known \in [Listeners -> (SUBSET Calls) \cup {Nothing}]
  /\ trusted \subseteq Workspaces
  /\ closing \in {"open", "closed", "done"}

Init ==
  /\ stage = [q \in Calls |-> "idle"]
  /\ said = [q \in Calls |-> "none"]
  /\ verdict = [q \in Calls |-> "none"]
  /\ answer = [q \in Calls |-> "none"]
  /\ ended = {} /\ ctxDone = {} /\ pending = {}
  /\ listening = {}
  /\ unread = [l \in Listeners |-> Nothing]
  /\ known = [l \in Listeners |-> Nothing]
  /\ trusted \in SUBSET Workspaces
  /\ forgetting = NoForget
  /\ closing = "open"

Open == closing = "open"
Working == {q \in Calls : stage[q] \notin Final \cup {"idle"}}

-----------------------------------------------------------------------------
(* The snapshots.  A slow subscriber only keeps the newest.                *)

Publish(next) ==
  /\ pending' = next
  /\ unread' = [l \in Listeners |-> IF l \in listening THEN next ELSE unread[l]]

Subscribe(l) ==
  /\ Open /\ l \notin listening
  /\ listening' = listening \cup {l}
  /\ known' = [known EXCEPT ![l] = pending]
  /\ UNCHANGED <<stage, said, verdict, answer, ended, ctxDone, pending,
                 unread, trusted, forgetting, closing>>

ReadSnapshot(l) ==
  /\ unread[l] /= Nothing
  /\ known' = [known EXCEPT ![l] = unread[l]]
  /\ unread' = [unread EXCEPT ![l] = Nothing]
  /\ UNCHANGED <<stage, said, verdict, answer, ended, ctxDone, pending,
                 listening, trusted, forgetting, closing>>

Unsubscribe(l) ==
  /\ l \in listening
  /\ listening' = listening \ {l}
  /\ unread' = [unread EXCEPT ![l] = Nothing]
  /\ known' = [known EXCEPT ![l] = Nothing]
  /\ UNCHANGED <<stage, said, verdict, answer, ended, ctxDone, pending,
                 trusted, forgetting, closing>>

-----------------------------------------------------------------------------
(* What a call needs before it may run.                                    *)

\* The mode of the run: read-only refuses what MCP offers and lets a human
\* decide on the rest; full access asks nobody, but for a project's servers.
Reviewer(q) == CASE Mode[q] = "approveForMe" -> "model"
                 [] Mode[q] = "fullAccess" -> "nobody"
                 [] OTHER -> "human"
Forbidden(q) == CallKind[q] /= "tool" /\ Mode[q] = "readOnly"
Unrestricted(q) == CallKind[q] /= "config" /\ Reviewer(q) = "nobody"
Trusted(q) == CallKind[q] = "config" /\ Workspace[q] \in trusted
Reviewed(q) == CallKind[q] /= "config" /\ Reviewer(q) = "model"

Goes(q, to) == stage' = [stage EXCEPT ![q] = to]

\* The call meets the registry, the rules and the service: refused by its
\* mode, let through, turned away by a closed service, reviewed, or asked.
Call(q) ==
  /\ stage[q] = "idle"
  /\ Goes(q, IF q \in ended THEN "cancelled"
             ELSE IF Forbidden(q) THEN "refused"
             ELSE IF Unrestricted(q) THEN "free"
             ELSE IF ~Open THEN "cancelled"
             ELSE IF Trusted(q) THEN "free"
             ELSE IF Reviewed(q) THEN "review" ELSE "asking")
  /\ UNCHANGED <<said, verdict, answer, ended, ctxDone, pending, listening,
                 unread, known, trusted, forgetting, closing>>

\* What a review ends with; an error, a timeout, an invalid answer and
\* settings that are no longer usable count as "ask".
Verdicts == {"yes", "no", "ask"}

Review(q) ==
  /\ stage[q] = "review"
  /\ \/ /\ CallKind[q] = "tool" /\ q \in ctxDone
        /\ Goes(q, "cancelled")
        /\ UNCHANGED <<said, verdict>>
     \/ /\ ~(CallKind[q] = "tool" /\ q \in ctxDone)
        /\ \E v \in Verdicts :
             IF v = "ask" THEN Goes(q, "asking") /\ UNCHANGED <<said, verdict>>
             ELSE /\ Goes(q, "decided")
                  /\ said' = [said EXCEPT ![q] = v]
                  /\ verdict' = [verdict EXCEPT ![q] = v]
  /\ UNCHANGED <<answer, ended, ctxDone, pending, listening, unread, known,
                 trusted, forgetting, closing>>

-----------------------------------------------------------------------------
(* The wait for a human.                                                   *)

Ask_AfterClose(q) == q \notin ctxDone
Ask(q) == Open /\ q \notin ctxDone

WaitForHuman(q) ==
  /\ stage[q] = "asking"
  /\ IF Ask(q) THEN Goes(q, "waiting") /\ Publish(pending \cup {q})
     ELSE Goes(q, "cancelled") /\ UNCHANGED <<pending, unread>>
  /\ UNCHANGED <<said, verdict, answer, ended, ctxDone, listening, known,
                 trusted, forgetting, closing>>

Left_Keeps(q) == pending
Left(q) == pending \ {q}

\* Respond with the identity of a request that was shown: the request is
\* taken; a caller whose context is cancelled hears nothing any more.
Respond(q, d) ==
  /\ q \in pending
  /\ Publish(Left(q))
  /\ IF q \in ctxDone THEN UNCHANGED <<answer, said>>
     ELSE /\ answer[q] = "none"
          /\ answer' = [answer EXCEPT ![q] = d]
          /\ said' = [said EXCEPT ![q] = d]
  /\ UNCHANGED <<stage, verdict, ended, ctxDone, listening, known, trusted,
                 forgetting, closing>>

TakeAnswer(q) ==
  /\ stage[q] = "waiting" /\ answer[q] /= "none"
  /\ answer' = [answer EXCEPT ![q] = "none"]
  /\ IF q \in ctxDone THEN Goes(q, "cancelled") /\ UNCHANGED verdict
     ELSE Goes(q, "decided") /\ verdict' = [verdict EXCEPT ![q] = answer[q]]
  /\ UNCHANGED <<said, ended, ctxDone, pending, listening, unread, known,
                 trusted, forgetting, closing>>

Shown_Late(next) == pending' = next /\ UNCHANGED unread
Shown(next) == Publish(next)

TakeCancel(q) ==
  /\ stage[q] = "waiting" /\ q \in ctxDone
  /\ Goes(q, "cancelled")
  /\ Shown(pending \ {q})
  /\ UNCHANGED <<said, verdict, answer, ended, ctxDone, listening, known,
                 trusted, forgetting, closing>>

\* The last look at both contexts before the decision counts.  The service's
\* own is read as well: it reaches the derived one only later.
Cancelled_Derived(q) == q \in ctxDone
Cancelled(q) == q \in ctxDone \/ ~Open

Decide(q) ==
  /\ stage[q] = "decided"
  /\ Goes(q, IF Cancelled(q) THEN "cancelled"
             ELSE IF verdict[q] = "no" THEN "refused"
             ELSE IF CallKind[q] = "config" THEN "saving" ELSE "granted")
  /\ verdict' = [verdict EXCEPT ![q] = "none"]
  /\ UNCHANGED <<said, answer, ended, ctxDone, pending, listening,
                 unread, known, trusted, forgetting, closing>>

-----------------------------------------------------------------------------
(* The trust of a project's configuration.                                 *)

\* A confirmed configuration is written under Service.mu; the write may fail.
SaveTrust(q) ==
  /\ stage[q] = "saving"
  /\ \/ /\ Open
        /\ Goes(q, "granted")
        /\ trusted' = trusted \cup {Workspace[q]}
     \/ Goes(q, IF Open THEN "failed" ELSE "cancelled") /\ UNCHANGED trusted
  /\ UNCHANGED <<said, verdict, answer, ended, ctxDone, pending, listening,
                 unread, known, forgetting, closing>>

\* The same from the settings page, before a login.
TrustFromSettings(w) ==
  /\ Open /\ w \notin trusted
  /\ trusted' = trusted \cup {w}
  /\ UNCHANGED <<stage, said, verdict, answer, ended, ctxDone, pending,
                 listening, unread, known, forgetting, closing>>

\* ForgetWorkspaceTrust, called by the deletion of a project, holds no lock
\* between its read of the file and its write.
ForgetReads(w) ==
  /\ forgetting = NoForget /\ w \in trusted
  /\ forgetting' = [of |-> w, read |-> trusted]
  /\ UNCHANGED <<stage, said, verdict, answer, ended, ctxDone, pending,
                 listening, unread, known, trusted, closing>>

ForgetWrites ==
  /\ forgetting /= NoForget
  /\ trusted' = forgetting.read \ {forgetting.of}
  /\ forgetting' = NoForget
  /\ UNCHANGED <<stage, said, verdict, answer, ended, ctxDone, pending,
                 listening, unread, known, closing>>

-----------------------------------------------------------------------------
(* The end of a run and of the service.                                    *)

StopRun(q) ==
  /\ q \notin ended /\ stage[q] \notin Final
  /\ ended' = ended \cup {q}
  /\ ctxDone' = ctxDone \cup {q}
  /\ UNCHANGED <<stage, said, verdict, answer, pending, listening, unread,
                 known, trusted, forgetting, closing>>

\* The goroutine of context.AfterFunc.
CancelReaches(q) ==
  /\ ~Open /\ q \in Working \ ctxDone
  /\ ctxDone' = ctxDone \cup {q}
  /\ UNCHANGED <<stage, said, verdict, answer, ended, pending, listening,
                 unread, known, trusted, forgetting, closing>>

Close ==
  /\ Open
  /\ closing' = "closed"
  /\ answer' = [q \in Calls |-> IF q \in pending THEN "no" ELSE answer[q]]
  /\ pending' = {}
  /\ listening' = {}
  /\ unread' = [l \in Listeners |-> Nothing]
  /\ known' = [l \in Listeners |-> Nothing]
  /\ UNCHANGED <<stage, said, verdict, ended, ctxDone, trusted, forgetting>>

CloseReturns ==
  /\ closing = "closed" /\ Working = {}
  /\ closing' = "done"
  /\ UNCHANGED <<stage, said, verdict, answer, ended, ctxDone, pending,
                 listening, unread, known, trusted, forgetting>>

CallStep(q) == \/ Review(q) \/ WaitForHuman(q) \/ TakeAnswer(q)
               \/ TakeCancel(q) \/ Decide(q) \/ SaveTrust(q) \/ CancelReaches(q)

Next ==
  \/ \E q \in Calls : Call(q) \/ CallStep(q) \/ StopRun(q)
  \/ \E q \in Calls, d \in {"yes", "no"} : Respond(q, d)
  \/ \E l \in Listeners : Subscribe(l) \/ ReadSnapshot(l) \/ Unsubscribe(l)
  \/ \E w \in Workspaces : TrustFromSettings(w) \/ ForgetReads(w)
  \/ ForgetWrites \/ Close \/ CloseReturns

\* A reviewer is bounded by its timeout, every other step by the scheduler.
\* Nobody has to answer, and no run has to be stopped.
Fairness == /\ \A q \in Calls : WF_approvalVars(CallStep(q))
            /\ WF_approvalVars(CloseReturns)

Spec == Init /\ [][Next]_approvalVars /\ Fairness

-----------------------------------------------------------------------------
(* Properties.                                                             *)

\* What somebody was told is decided is what happens to the call: it is
\* granted only on a yes, refused only on a no or by its mode, and dropped
\* only because its run was stopped or the service closed
\* (service.go:64-148, mcp.go:77-112, 175-205).
DecisionsCount == \A q \in Calls :
  /\ stage[q] = "granted" => said[q] = "yes"
  /\ stage[q] = "refused" => said[q] = "no" \/ Forbidden(q)
  /\ stage[q] = "cancelled" => q \in ended \/ ~Open

\* A subscriber that has read everything knows what is pending, and the
\* snapshot that waits for it is the newest (service.go:214-240).
LatestIsCurrent == \A l \in listening :
  (IF unread[l] = Nothing THEN known[l] ELSE unread[l]) = pending

\* From its Close on no step of the service shows anything as pending or
\* grants anything (service.go:190-212) ...
ClosedGrantsNothing ==
  ~Open => /\ {q \in Calls : stage[q] = "granted"}' = {q \in Calls : stage[q] = "granted"}
           /\ pending' = {}

\* ... and when Close returns no call is left in it.
ClosedIsEmpty == (~Open => pending = {} /\ listening = {})
                 /\ (closing = "done" => Working = {})

\* Close returns: every call inside leaves once the service is closed.
IsClosed == closing = "closed"
Closed == closing = "done"
CloseEnds == IsClosed ~> Closed
=============================================================================
