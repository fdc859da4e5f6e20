--------------------------- MODULE ReconnectModal ---------------------------
(***************************************************************************)
(* The script of the dialog that the dashboard page shows when it loses    *)
(* its server: ReconnectModal.razor.js. The page is one record; each       *)
(* operator is the page after the named piece of the script ran, up to its *)
(* next await. Between an await and its answer anything else may run.      *)
(***************************************************************************)
CONSTANT Calls      \* the runs of retry() and resume() that can be in progress at a time

Awaited == {"nothing", "retry:reconnect", "retry:resumeCircuit", "resume:resumeCircuit"}
Classes == {"hide", "show", "failed", "rejected", "paused", "resume-failed"}

Page == [state : {"open", "reloading"},
         dialogOpen : BOOLEAN,
         listening : BOOLEAN,         \* to visibilitychange, with retryWhenDocumentBecomesVisible
         class : Classes,             \* components-reconnect-... of the dialog
         awaits : [Calls -> Awaited],
         overlapped : BOOLEAN]        \* two runs were in progress at once since the page loaded

LoadedPage == [state |-> "open", dialogOpen |-> FALSE, listening |-> FALSE, class |-> "hide",
               awaits |-> [c \in Calls |-> "nothing"], overlapped |-> FALSE]

Idle(p, c) == p.awaits[c] = "nothing"
Return(p, c) == [p EXCEPT !.awaits[c] = "nothing"]
Reload(p) == [p EXCEPT !.state = "reloading"]
Close(p) == [p EXCEPT !.dialogOpen = FALSE]

(* Mistaken variant: hide is not handled.                                  *)
HandleStateChangedWithoutHide(p, state) ==
  [p EXCEPT !.dialogOpen = @ \/ state = "show",
            !.listening = @ \/ state = "failed",
            !.state = IF state = "rejected" THEN "reloading" ELSE @]

HandleReconnectStateChanged(p, state) ==
  [p EXCEPT !.dialogOpen = (@ /\ state # "hide") \/ state = "show",
            !.listening = @ \/ state = "failed",
            !.state = IF state = "rejected" THEN "reloading" ELSE @]

Begin(p, c, awaited) ==
  [p EXCEPT !.awaits[c] = awaited,
            !.overlapped = @ \/ \E other \in Calls : ~Idle(p, other)]

-----------------------------------------------------------------------------
(* Mistaken variants: the listener stays; a refusal reloads at once, or is *)
(* not looked at; after an exception nothing listens any more.             *)
RetryListening(p, c) == Begin(p, c, "retry:reconnect")
RetryRefusedReloads(p, c) == Reload(Return(p, c))
RetryRefusedUnseen(p, c) == Return(p, c)
RetryThrowsUnheard(p, c) == Return(p, c)

(* retry(), up to Blazor.reconnect(), and what follows each answer.        *)
Retry(p, c) == [Begin(p, c, "retry:reconnect") EXCEPT !.listening = FALSE]
RetryRefused(p, c) == [p EXCEPT !.awaits[c] = "retry:resumeCircuit"]
RetryResumed(p, c) == Close(Return(p, c))
RetryLost(p, c) == Reload(Return(p, c))
RetryThrows(p, c) == [Return(p, c) EXCEPT !.listening = TRUE]

(* Mistaken variant: a class that the style sheet does not know.           *)
ResumeThrowsMisspelt(p, c) == [Return(p, c) EXCEPT !.class = "resume failed"]

(* resume(), up to Blazor.resumeCircuit(), and what follows each answer.   *)
Resume(p, c) == Begin(p, c, "resume:resumeCircuit")
ResumeLost(p, c) == Reload(Return(p, c))
ResumeThrows(p, c) ==
  [Return(p, c) EXCEPT !.class = IF @ = "paused" THEN "resume-failed" ELSE @]

(* visibilitychange fires for the listener both when the document is       *)
(* hidden and when it becomes visible.                                     *)
RetryWhenDocumentBecomesVisible(p, c, visible) ==
  IF p.listening /\ visible THEN Retry(p, c) ELSE p

(* The buttons can be clicked while the style sheet shows them.            *)
RetryOffered(p) == p.dialogOpen /\ p.class = "failed"
ResumeOffered(p) == p.dialogOpen /\ p.class \in {"paused", "resume-failed"}
=============================================================================
