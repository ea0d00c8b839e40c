----------------------------- MODULE ExplainChat -----------------------------
(* The chat that explains a fuel plan, one of its stops or one of its end     *)
(* points (frontend/src/components/Map/AiExplainDialog.tsx).  Its answers     *)
(* come late and in any order; meanwhile the plan, the step or the point the  *)
(* chat is about may change under it, and it may be closed and opened again.  *)
EXTENDS Integers, Sequences, SequencesExt

CONSTANTS
  MaxAsks,  \* bound: questions and retries of the user
  Nobody

VARIABLES
  subject,   \* what `ask` closes over: the plan, the stop, the anchor
  messages,  \* the conversation
  timer,     \* the first explanation is about to be asked for
  pending,   \* requests under way; at most one holds the current requestId
  loading,   \* isLoading
  failed,    \* an error and its Retry button are shown
  asks       \* questions and retries so far

chatVars == <<subject, messages, timer, pending, loading, failed, asks>>

\* A message, with the subject that was current when it was asked for.
Message(role, about) == [role |-> role, about |-> about]

ChatInit ==
  /\ subject = Nobody
  /\ messages = <<>>
  /\ timer = FALSE
  /\ pending = {}
  /\ loading = FALSE
  /\ failed = FALSE
  /\ asks = 0

StillOwned == pending

\* requestId moves on: nothing under way is current any more.
Disowned == {[r EXCEPT !.current = FALSE] : r \in pending}

RetargetOnce(new) ==
  IF new = subject THEN UNCHANGED chatVars
  ELSE /\ subject' = new
       /\ messages' = <<>>
       /\ timer' = (new # Nobody /\ subject = Nobody)
       /\ pending' = Disowned
       /\ loading' = (loading /\ subject # Nobody /\ new # Nobody)
       /\ failed' = (failed /\ subject # Nobody /\ new # Nobody)
       /\ UNCHANGED asks

\* The effect of a changed subject: its cleanup drops the timer and disowns
\* the request under way, then an empty conversation waits for its first
\* explanation.  A chat that mounts again starts from nothing.
Retarget(new) ==
  IF new = subject THEN UNCHANGED chatVars
  ELSE /\ subject' = new
       /\ messages' = <<>>
       /\ timer' = (new # Nobody)
       /\ pending' = Disowned
       /\ loading' = (loading /\ subject # Nobody /\ new # Nobody)
       /\ failed' = (failed /\ subject # Nobody /\ new # Nobody)
       /\ UNCHANGED asks

Ask(about) ==
  /\ pending' = Disowned \cup {[about |-> about, current |-> TRUE]}
  /\ loading' = TRUE
  /\ failed' = FALSE

FirstExplanation ==
  /\ timer
  /\ timer' = FALSE
  /\ Ask(subject)
  /\ UNCHANGED <<subject, messages, asks>>

UserAsks == asks < MaxAsks /\ asks' = asks + 1 /\ Ask(subject)

\* A question is not sent while an answer is awaited.
Submit ==
  /\ subject # Nobody
  /\ ~loading
  /\ messages' = Append(messages, Message("user", subject))
  /\ UserAsks
  /\ UNCHANGED <<subject, timer>>

\* Asks the last question again.
Retry ==
  /\ subject # Nobody
  /\ failed
  /\ UserAsks
  /\ UNCHANGED <<subject, messages, timer>>

\* An answer or an error; only that of the latest request is looked at.
Answer(r, ok) ==
  /\ r \in pending
  /\ pending' = pending \ {r}
  /\ IF r.current
     THEN /\ messages' = IF ok THEN Append(messages, Message("assistant", r.about))
                         ELSE messages
          /\ failed' = ~ok
          /\ loading' = FALSE
     ELSE UNCHANGED <<messages, failed, loading>>
  /\ UNCHANGED <<subject, timer, asks>>

ChatNext ==
  \/ FirstExplanation
  \/ Submit
  \/ Retry
  \/ \E r \in pending, ok \in BOOLEAN : Answer(r, ok)

\* Timers fire and requests end.
ChatFairness ==
  /\ WF_chatVars(FirstExplanation)
  /\ WF_chatVars(\E r \in pending, ok \in BOOLEAN : Answer(r, ok))

-----------------------------------------------------------------------------
(* Properties. *)

\* What the chat shows was said about what it is about now, however late the
\* answers of the plans and stops it was about before come in.
ConversationIsCurrent ==
  \A i \in DOMAIN messages : messages[i].about = subject

\* A chat that has been opened gets to an explanation or an error, or is
\* closed; it does not think forever.
ThinkingEnds == loading ~> ~loading
=============================================================================
