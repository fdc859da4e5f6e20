---------------------------- MODULE Reconnection ----------------------------
(***************************************************************************)
(* The page with the reconnect dialog, the Blazor runtime that drives the  *)
(* dialog, the server that holds the page's circuit, and the user. The     *)
(* runtime and the server are external: they do what the script's comments *)
(* and its use of their answers say of them.                               *)
(***************************************************************************)
EXTENDS ReconnectModal, Naturals

CONSTANT MaxOutages \* how often the server becomes unreachable

ASSUME MaxOutagesAssumption == MaxOutages \in Nat

VARIABLES
  page,       \* the page and its dialog
  visible,    \* document.visibilityState = "visible"
  link,       \* what the Blazor runtime makes of its connection
  reachable,  \* the server answers
  circuit,    \* the page's circuit on the server: live, saved to be resumed, or lost
  unreached,  \* calls made while the server was unreachable, or cut off by an outage
  outages     \* outages so far, at most MaxOutages

vars == <<page, visible, link, reachable, circuit, unreached, outages>>
serverVars == <<reachable, circuit, outages>>

TypeOK ==
  /\ page \in Page
  /\ visible \in BOOLEAN
  /\ link \in {"connected", "retrying", "failed", "paused"}
  /\ reachable \in BOOLEAN
  /\ circuit \in {"live", "saved", "lost"}
  /\ unreached \subseteq Calls
  /\ outages \in 0..MaxOutages

Init ==
  /\ page = LoadedPage
  /\ visible = TRUE
  /\ link = "connected"
  /\ reachable = TRUE
  /\ circuit = "live"
  /\ unreached = {}
  /\ outages = 0

-----------------------------------------------------------------------------
(* The server.                                                             *)

InProgress == {c \in Calls : ~Idle(page, c)}

(* An outage of the network, or a restart that loses every circuit.        *)
GoDown ==
  /\ reachable /\ outages < MaxOutages
  /\ reachable' = FALSE
  /\ circuit' \in {circuit, "lost"}
  /\ unreached' = unreached \union InProgress
  /\ outages' = outages + 1
  /\ UNCHANGED <<page, visible, link>>

ComeBack == reachable' = TRUE /\ ~reachable /\ UNCHANGED <<page, visible, link, circuit, unreached, outages>>

(* A circuit without a connection is kept for a while, then saved or lost; *)
(* what was saved is kept for a while too.                                 *)
Evict ==
  /\ link # "connected"
  /\ \/ circuit = "live" /\ circuit' \in {"saved", "lost"}
     \/ circuit = "saved" /\ circuit' = "lost"
  /\ UNCHANGED <<page, visible, link, reachable, unreached, outages>>

-----------------------------------------------------------------------------
(* The Blazor runtime, which sets the class of the dialog and dispatches   *)
(* components-reconnect-state-changed.                                     *)

Dispatch(p, state, class) == HandleReconnectStateChanged([p EXCEPT !.class = class], state)

Attach(p) ==
  /\ reachable
  /\ circuit' = "live"
  /\ link' = "connected"
  /\ page' = Dispatch(p, "hide", "hide")
  /\ UNCHANGED <<visible, reachable, outages>>

ConnectionLost ==
  /\ page.state = "open" /\ link = "connected"
  /\ ~reachable \/ circuit # "live"
  /\ link' = "retrying"
  /\ page' = Dispatch(page, "show", "show")
  /\ UNCHANGED <<visible, serverVars, unreached>>

Pause ==
  /\ page.state = "open" /\ link = "connected" /\ reachable /\ circuit = "live"
  /\ link' = "paused"
  /\ circuit' = "saved"
  /\ page' = Dispatch(page, "show", "paused")
  /\ UNCHANGED <<visible, reachable, outages, unreached>>

(* The runtime's own attempts, before it asks the user to retry.           *)
AttemptsExhausted ==
  /\ ~reachable
  /\ link' = "failed"
  /\ page' = Dispatch(page, "failed", "failed")
  /\ UNCHANGED <<visible, serverVars, unreached>>

AttemptRejected ==
  /\ reachable /\ circuit = "lost"
  /\ page' = Dispatch(page, "rejected", "rejected")
  /\ UNCHANGED <<visible, link, serverVars, unreached>>

AttemptAccepted == circuit # "lost" /\ Attach(page) /\ UNCHANGED unreached

Attempt ==
  /\ page.state = "open" /\ link = "retrying"
  /\ AttemptsExhausted \/ AttemptRejected \/ AttemptAccepted

-----------------------------------------------------------------------------
(* The user: the document and the two buttons. A call starts unreached     *)
(* when the server is down.                                                *)

Called(c) == unreached' = IF reachable THEN unreached \ {c} ELSE unreached \union {c}

VisibilityChange ==
  /\ page.state = "open"
  /\ visible' = ~visible
  /\ \E c \in Calls :
       /\ Idle(page, c)
       /\ page' = RetryWhenDocumentBecomesVisible(page, c, visible')
       /\ IF page' = page THEN UNCHANGED unreached ELSE Called(c)
  /\ UNCHANGED <<link, serverVars>>

Click(c) ==
  /\ page.state = "open" /\ Idle(page, c)
  /\ \/ RetryOffered(page) /\ page' = Retry(page, c)
     \/ ResumeOffered(page) /\ page' = Resume(page, c)
  /\ Called(c)
  /\ UNCHANGED <<visible, link, serverVars>>

-----------------------------------------------------------------------------
(* The answers: true, false, or an exception when the server was not       *)
(* reached. A circuit that is live again, resumed by another call, may be  *)
(* answered either way by resumeCircuit().                                 *)

Awaits(c, awaited) == page.state = "open" /\ page.awaits[c] = awaited

ReconnectAnswered(c) ==
  /\ Awaits(c, "retry:reconnect") /\ reachable
  /\ unreached' = unreached \ {c}
  /\ \/ circuit = "live" /\ Attach(Return(page, c))
     \/ /\ circuit # "live"
        /\ page' = RetryRefused(page, c)
        /\ UNCHANGED <<visible, link, serverVars>>

ResumeAnswered(c) ==
  /\ reachable
  /\ unreached' = unreached \ {c}
  /\ \/ /\ circuit # "lost"
        /\ \/ Awaits(c, "retry:resumeCircuit") /\ Attach(RetryResumed(page, c))
           \/ Awaits(c, "resume:resumeCircuit") /\ Attach(Return(page, c))
     \/ /\ circuit # "saved"
        /\ \/ Awaits(c, "retry:resumeCircuit") /\ page' = RetryLost(page, c)
           \/ Awaits(c, "resume:resumeCircuit") /\ page' = ResumeLost(page, c)
        /\ UNCHANGED <<visible, link, serverVars>>

CallThrows(c) ==
  /\ ~reachable \/ c \in unreached
  /\ \/ Awaits(c, "retry:reconnect") /\ page' = RetryThrows(page, c)
     \/ Awaits(c, "retry:resumeCircuit") /\ page' = RetryThrows(page, c)
     \/ Awaits(c, "resume:resumeCircuit") /\ page' = ResumeThrows(page, c)
  /\ unreached' = unreached \ {c}
  /\ UNCHANGED <<visible, link, serverVars>>

Answer(c) == ReconnectAnswered(c) \/ ResumeAnswered(c) \/ CallThrows(c)

(* The reload ends every call and listener of the page.                    *)
LoadPage ==
  /\ page.state = "reloading" /\ reachable
  /\ page' = LoadedPage
  /\ link' = "connected"
  /\ circuit' = "live"
  /\ unreached' = {}
  /\ UNCHANGED <<visible, reachable, outages>>

Next ==
  \/ GoDown \/ ComeBack \/ Evict
  \/ ConnectionLost \/ Pause \/ Attempt
  \/ VisibilityChange
  \/ \E c \in Calls : Click(c) \/ Answer(c)
  \/ LoadPage

Spec == Init /\ [][Next]_vars

-----------------------------------------------------------------------------
(* A page that the runtime no longer tries to rejoin always has a way on:  *)
(* after failed attempts a retry is in progress, or both the button is     *)
(* offered and the return of the user to the page starts one; when the     *)
(* session is paused a call is in progress or the Resume button is         *)
(* offered. However many calls overlap and in whatever order they end.     *)
NeverStranded ==
  page.state = "open" =>
    /\ link = "failed" =>
         /\ RetryOffered(page)
         /\ page.listening \/ \E c \in Calls : page.awaits[c] \in {"retry:reconnect", "retry:resumeCircuit"}
    /\ link = "paused" => ResumeOffered(page)

(* While the page holds its server no dialog covers it, and while it does  *)
(* not, the dialog does, although it is the answers of calls that close it *)
(* and they may come late.                                                 *)
DialogCoversLostPage ==
  page.state = "open" => (page.dialogOpen <=> link # "connected")

(* Calls that do not overlap leave no listener behind on a page that works *)
(* again: it listens only after failed attempts.                           *)
ListensOnlyAfterFailure ==
  page.listening /\ ~page.overlapped => link = "failed"

(* A page is given up, with what the user entered, only when its circuit   *)
(* is lost: never because the server could not be reached, and never while *)
(* the circuit could be rejoined or resumed. (Calls that overlap are no    *)
(* part of this: one may have resumed what the other was refused.)         *)
ReloadsOnlyLostCircuits ==
  [][page.state = "open" /\ page'.state = "reloading" /\ ~page.overlapped
       => reachable /\ circuit = "lost"]_vars

(* The runtime makes its attempts and the browser delivers every answer;   *)
(* the server and the user promise nothing.                                *)
Fairness ==
  /\ WF_vars(Attempt)
  /\ \A c \in Calls : WF_vars(Answer(c))

FairSpec == Spec /\ Fairness

ServerStays == <>[]reachable
UserKeepsReturning == []<>visible /\ []<>~visible

(* If the server stays reachable from some time on and the user keeps      *)
(* coming back to the page, a page that lost its connection rejoins or     *)
(* reloads without a click.                                                *)
RejoinsOrReloads ==
  ServerStays /\ UserKeepsReturning =>
    (link \in {"retrying", "failed"} ~> link = "connected" \/ page.state = "reloading")
=============================================================================
