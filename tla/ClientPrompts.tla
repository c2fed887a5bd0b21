----------------------------- MODULE ClientPrompts -----------------------------
(***************************************************************************)
(* The two widgets of the client that show one prompt at a time and keep   *)
(* the others waiting: consent prompts and achievement toasts. A prompt is *)
(* known by its id; pushing it again replaces its text in place. All of it *)
(* happens on the game thread, but the consent widget tells its listeners  *)
(* of an answer before it goes on to the next prompt, so that they can     *)
(* call it while the answer is under way.                                  *)
(***************************************************************************)
EXTENDS Naturals, Sequences, SequencesExt

CONSTANTS
  Ids, NoPrompt,
  MaxNesting         \* bound on answers within answers

\* A toast; a consent prompt whose listeners do no more than push others; and
\* one whose listeners may also answer and clear.
WidgetKinds == {"toast", "consent", "consentReentered"}

ASSUME PromptsAssumption == NoPrompt \notin Ids /\ MaxNesting \in Nat \ {0}

VARIABLES
  widget,    \* of which kind it is
  active,    \* the active prompt; NoPrompt while bHasActive... is false
  pending,   \* PendingPrompts or PendingNotifications
  answering  \* PromptId of each RespondToActivePrompt that is in its Broadcast

promptVars == <<widget, active, pending, answering>>

\* Slip: the active prompt is not compared.
KnowsPending(id) == id \in ToSet(pending)

\* The id is that of the active prompt, or FindPending finds it.
KnowsPrompt(id) == active = id \/ id \in ToSet(pending)

\* Nothing but text changes if the id is known.
PushPrompt(id) ==
  /\ ~KnowsPrompt(id)
  /\ IF active = NoPrompt THEN active' = id /\ UNCHANGED pending
     ELSE pending' = Append(pending, id) /\ UNCHANGED active
  /\ UNCHANGED <<widget, answering>>

\* AdvanceToNextPrompt, ActivateNextNotification
Advance ==
  IF pending = <<>> THEN active' = NoPrompt /\ UNCHANGED pending
  ELSE active' = Head(pending) /\ pending' = Tail(pending)

\* A call from outside, or from a listener that goes that far.
Called == answering = <<>> \/ widget = "consentReentered"

\* RespondToActivePrompt up to the Broadcast
RespondBegins ==
  /\ widget # "toast" /\ Called
  /\ active # NoPrompt
  /\ Len(answering) < MaxNesting
  /\ answering' = Append(answering, active)
  /\ UNCHANGED <<widget, active, pending>>

\* and after it, whatever the listeners have done.
RespondEnds ==
  /\ answering # <<>>
  /\ answering' = Front(answering)
  /\ Advance
  /\ UNCHANGED widget

DismissActive ==
  /\ widget = "toast"
  /\ active # NoPrompt
  /\ Advance
  /\ UNCHANGED <<widget, answering>>

ClearAllPrompts ==
  /\ Called
  /\ active' = NoPrompt
  /\ pending' = <<>>
  /\ UNCHANGED <<widget, answering>>

-----------------------------------------------------------------------------
PromptsInit ==
  /\ widget \in WidgetKinds
  /\ active = NoPrompt
  /\ pending = <<>>
  /\ answering = <<>>

PromptsNext ==
  \/ \E id \in Ids : PushPrompt(id)
  \/ RespondBegins \/ RespondEnds \/ DismissActive \/ ClearAllPrompts

PromptsSpec == PromptsInit /\ [][PromptsNext]_promptVars

-----------------------------------------------------------------------------
PromptsTypeOK ==
  /\ widget \in WidgetKinds
  /\ active \in Ids \cup {NoPrompt}
  /\ pending \in Seq(Ids)
  /\ answering \in Seq(Ids) /\ Len(answering) <= MaxNesting

\* The prompts nobody is done with, in the order in which they were pushed.
Line == IF active = NoPrompt THEN <<>> ELSE <<active>> \o pending

\* The abstract queue: a prompt that is not in the line joins it at the end; the
\* first one leaves; all leave. Whatever listeners call in the middle of an
\* answer, no prompt is there twice, overtakes, or waits behind no active one.
\* Unless they answer or clear in there, the prompt that leaves is the one that
\* has been answered.
PromptsLeaveInTurn ==
  [][\/ Line' = Line
     \/ \E id \in Ids \ ToSet(Line) : Line' = Append(Line, id)
     \/ /\ Line # <<>> /\ Line' = Tail(Line)
        /\ widget = "consent" => ClearAllPrompts \/ active = Last(answering)
     \/ Line' = <<>> /\ ClearAllPrompts]_promptVars
=============================================================================
