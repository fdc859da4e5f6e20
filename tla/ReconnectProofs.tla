--------------------------- MODULE ReconnectProofs --------------------------
(***************************************************************************)
(* The reconnect dialog for any number of calls in progress and of outages *)
(* of the server: its types, and that it never strands, hides or gives up  *)
(* a page that could go on.                                                *)
(***************************************************************************)
EXTENDS Reconnection, TLAPS

-----------------------------------------------------------------------------
(* The script.                                                             *)

(* Each piece of the script leaves a page, whatever page it runs on.       *)
LEMMA ScriptTypes ==
  ASSUME NEW p \in Page, NEW c \in Calls
  PROVE  /\ Return(p, c) \in Page
         /\ Close(p) \in Page /\ Reload(p) \in Page
         /\ Retry(p, c) \in Page /\ RetryRefused(p, c) \in Page
         /\ RetryResumed(p, c) \in Page /\ RetryLost(p, c) \in Page
         /\ RetryThrows(p, c) \in Page
         /\ Resume(p, c) \in Page /\ ResumeLost(p, c) \in Page /\ ResumeThrows(p, c) \in Page
         /\ \A visible_ \in BOOLEAN : RetryWhenDocumentBecomesVisible(p, c, visible_) \in Page
<1>1. Return(p, c) \in Page
  BY DEF Return, Page, Awaited
<1>2. ASSUME NEW q \in Page PROVE Close(q) \in Page /\ Reload(q) \in Page
  BY DEF Close, Reload, Page
<1>3. \A awaited \in Awaited : Begin(p, c, awaited) \in Page
  BY DEF Begin, Page, Idle
<1>4. Retry(p, c) \in Page /\ Resume(p, c) \in Page
  <2>1. Begin(p, c, "retry:reconnect") \in Page /\ Resume(p, c) \in Page
    BY <1>3 DEF Resume, Awaited
  <2> QED
    BY <2>1 DEF Retry, Page
<1>5. RetryRefused(p, c) \in Page
  BY DEF RetryRefused, Page, Awaited
<1>6. RetryThrows(p, c) \in Page /\ ResumeThrows(p, c) \in Page
  BY <1>1 DEF RetryThrows, ResumeThrows, Page, Classes
<1> QED
  BY <1>1, <1>2, <1>4, <1>5, <1>6
     DEF RetryResumed, RetryLost, ResumeLost, RetryWhenDocumentBecomesVisible

LEMMA DispatchTypes ==
  ASSUME NEW p \in Page, NEW class \in Classes, NEW state
  PROVE  Dispatch(p, state, class) \in Page
BY DEF Dispatch, HandleReconnectStateChanged, Page

-----------------------------------------------------------------------------
(* Type correctness.                                                       *)

LEMMA AttachTypes ==
  ASSUME TypeOK, NEW p \in Page, Attach(p), unreached' \subseteq Calls
  PROVE  TypeOK'
<1>1. page' \in Page
  BY DispatchTypes DEF Attach, Classes
<1> QED
  BY <1>1 DEF Attach, TypeOK

LEMMA TypeNext == TypeOK /\ [Next]_vars => TypeOK'
<1> SUFFICES ASSUME TypeOK, [Next]_vars PROVE TypeOK'
  OBVIOUS
<1> USE DEF TypeOK
<1>1. CASE GoDown
  <2>1. outages' \in 0..MaxOutages
    BY <1>1, MaxOutagesAssumption DEF GoDown
  <2>2. unreached' \subseteq Calls /\ circuit' \in {"live", "saved", "lost"}
    BY <1>1 DEF GoDown, InProgress
  <2> QED
    BY <1>1, <2>1, <2>2 DEF GoDown
<1>2. CASE ComeBack \/ Evict
  BY <1>2 DEF ComeBack, Evict
<1>3. CASE ConnectionLost \/ Pause
  BY <1>3, DispatchTypes DEF ConnectionLost, Pause, Classes, serverVars
<1>4. CASE Attempt
  <2>1. CASE AttemptsExhausted \/ AttemptRejected
    BY <2>1, DispatchTypes DEF AttemptsExhausted, AttemptRejected, Classes, serverVars
  <2>2. CASE AttemptAccepted
    BY <2>2, AttachTypes DEF AttemptAccepted
  <2> QED
    BY <1>4, <2>1, <2>2 DEF Attempt
<1>5. CASE VisibilityChange
  BY <1>5, ScriptTypes DEF VisibilityChange, Called, serverVars
<1>6. ASSUME NEW c \in Calls, Click(c) PROVE TypeOK'
  BY <1>6, ScriptTypes DEF Click, Called, serverVars
<1>7. ASSUME NEW c \in Calls, ReconnectAnswered(c) PROVE TypeOK'
  BY <1>7, ScriptTypes, AttachTypes DEF ReconnectAnswered, serverVars
<1>8. ASSUME NEW c \in Calls, ResumeAnswered(c) PROVE TypeOK'
  BY <1>8, ScriptTypes, AttachTypes DEF ResumeAnswered, serverVars
<1>9. ASSUME NEW c \in Calls, CallThrows(c) PROVE TypeOK'
  BY <1>9, ScriptTypes DEF CallThrows, serverVars
<1>10. CASE LoadPage
  <2>1. LoadedPage \in Page
    BY DEF LoadedPage, Page, Awaited, Classes
  <2> QED
    BY <1>10, <2>1 DEF LoadPage
<1>11. CASE UNCHANGED vars
  BY <1>11 DEF vars
<1> QED
  BY <1>1, <1>2, <1>3, <1>4, <1>5, <1>6, <1>7, <1>8, <1>9, <1>10, <1>11 DEF Next, Answer

(* Every variable keeps its type: the dialog has no class but those its    *)
(* style sheet knows, and each call awaits one answer at most.             *)
THEOREM ReconnectionTypes == Spec => []TypeOK
<1>1. Init => TypeOK
  BY MaxOutagesAssumption DEF Init, TypeOK, LoadedPage, Page, Awaited, Classes
<1> QED
  BY <1>1, TypeNext, PTL DEF Spec
-----------------------------------------------------------------------------
(* The inductive invariant. NeverStranded looks at the class, the listener *)
(* and the calls; what ties them to the link is stated apart.              *)

(* The class of the dialog is the one that the runtime set last, or the    *)
(* one resume() put in its place.                                          *)
ClassFollowsLink ==
  page.state = "open" =>
    /\ link = "connected" => page.class = "hide"
    /\ link = "retrying" => page.class = "show"
    /\ link = "failed" => page.class = "failed"
    /\ link = "paused" => page.class \in {"paused", "resume-failed"}

Retrying == {"retry:reconnect", "retry:resumeCircuit"}

HeardAfterFailure ==
  page.state = "open" /\ link = "failed" =>
    page.listening \/ \E c \in Calls : page.awaits[c] \in Retrying

(* Without overlaps there is one call at most, of the kind that the link   *)
(* calls for; no other call has made the circuit live again, and nothing   *)
(* listens while it retries.                                               *)
CallsFitLink ==
  page.state = "open" /\ ~page.overlapped =>
    \A c \in Calls :
      /\ \A other \in Calls : ~Idle(page, c) /\ ~Idle(page, other) => c = other
      /\ page.awaits[c] \in Retrying => link = "failed" /\ ~page.listening
      /\ page.awaits[c] = "resume:resumeCircuit" => link = "paused"
      /\ page.awaits[c] = "retry:resumeCircuit" => circuit # "live"

PausedIsSaved == page.state = "open" /\ link = "paused" => circuit # "live"

PageInv == ClassFollowsLink /\ DialogCoversLostPage /\ HeardAfterFailure
CallInv == CallsFitLink /\ PausedIsSaved /\ ListensOnlyAfterFailure
(* What a dispatch and an attachment leave of the page they start from.    *)
LEMMA DispatchEffect ==
  ASSUME NEW p \in Page, NEW state, NEW class \in Classes
  PROVE  LET q == Dispatch(p, state, class)
         IN /\ q.state = IF state = "rejected" THEN "reloading" ELSE p.state
            /\ q.dialogOpen <=> (p.dialogOpen /\ state # "hide") \/ state = "show"
            /\ q.listening <=> p.listening \/ state = "failed"
            /\ q.class = class
            /\ q.awaits = p.awaits
            /\ q.overlapped = p.overlapped
BY DEF Dispatch, HandleReconnectStateChanged, Page

LEMMA AttachEffect ==
  ASSUME NEW p \in Page, Attach(p)
  PROVE  /\ link' = "connected" /\ circuit' = "live"
         /\ page'.class = "hide" /\ ~page'.dialogOpen
         /\ (page'.listening <=> p.listening)
         /\ page'.awaits = p.awaits
         /\ page'.overlapped = p.overlapped
<1>1. page' = Dispatch(p, "hide", "hide") /\ "hide" \in Classes
  BY DEF Attach, Classes
<1>2. LET q == Dispatch(p, "hide", "hide")
      IN /\ q.class = "hide" /\ ~q.dialogOpen
         /\ (q.listening <=> p.listening)
         /\ q.awaits = p.awaits /\ q.overlapped = p.overlapped
  BY <1>1, DispatchEffect
<1> QED
  BY <1>1, <1>2 DEF Attach

LEMMA PageNext == TypeOK /\ PageInv /\ [Next]_vars => PageInv'
<1> SUFFICES ASSUME TypeOK, PageInv, [Next]_vars PROVE PageInv'
  OBVIOUS
<1> USE DEF PageInv, ClassFollowsLink, DialogCoversLostPage, HeardAfterFailure, Retrying
<1>1. ASSUME NEW p \in Page, Attach(p) PROVE PageInv'
  BY <1>1, AttachEffect
<1>2. CASE GoDown \/ ComeBack \/ Evict
  BY <1>2 DEF GoDown, ComeBack, Evict
<1>3. CASE ConnectionLost \/ Pause
  BY <1>3, DispatchEffect DEF ConnectionLost, Pause, Classes, TypeOK
<1>4. CASE Attempt
  <2>1. CASE AttemptsExhausted
    BY <1>4, <2>1, DispatchEffect DEF Attempt, AttemptsExhausted, Classes, TypeOK
  <2>2. CASE AttemptRejected
    BY <2>2, DispatchEffect DEF AttemptRejected, Classes, TypeOK
  <2>3. CASE AttemptAccepted
    BY <2>3, <1>1 DEF AttemptAccepted, TypeOK
  <2> QED
    BY <1>4, <2>1, <2>2, <2>3 DEF Attempt
<1>5. ASSUME NEW c \in Calls, Idle(page, c), UNCHANGED link,
             page' = Retry(page, c) \/ page' = Resume(page, c)
      PROVE  PageInv'
  BY <1>5 DEF Retry, Resume, Begin, Idle, TypeOK, Page, Awaited
<1>6. CASE VisibilityChange
  BY <1>5, <1>6 DEF VisibilityChange, RetryWhenDocumentBecomesVisible
<1>7. ASSUME NEW c \in Calls, Click(c) PROVE PageInv'
  BY <1>5, <1>7 DEF Click
<1>8. ASSUME NEW c \in Calls, ReconnectAnswered(c) PROVE PageInv'
  <2>1. CASE Attach(Return(page, c))
    BY <2>1, <1>1, ScriptTypes DEF TypeOK
  <2>2. CASE page' = RetryRefused(page, c) /\ UNCHANGED link
    BY <2>2 DEF RetryRefused, TypeOK, Page, Awaited
  <2> QED
    BY <1>8, <2>1, <2>2 DEF ReconnectAnswered
<1>9. ASSUME NEW c \in Calls, ResumeAnswered(c) PROVE PageInv'
  <2>1. CASE Attach(RetryResumed(page, c)) \/ Attach(Return(page, c))
    BY <2>1, <1>1, ScriptTypes DEF TypeOK
  <2>2. CASE page' = RetryLost(page, c) \/ page' = ResumeLost(page, c)
    BY <2>2 DEF RetryLost, ResumeLost, Reload, Return, TypeOK, Page, Awaited
  <2> QED
    BY <1>9, <2>1, <2>2 DEF ResumeAnswered
<1>10. ASSUME NEW c \in Calls, CallThrows(c) PROVE PageInv'
  <2>1. CASE page' = RetryThrows(page, c) /\ UNCHANGED link
    BY <2>1 DEF RetryThrows, Return, TypeOK, Page, Awaited
  <2>2. CASE page' = ResumeThrows(page, c) /\ UNCHANGED link /\ page.awaits[c] = "resume:resumeCircuit"
    BY <2>2 DEF ResumeThrows, Return, TypeOK, Page, Awaited
  <2> QED
    BY <1>10, <2>1, <2>2 DEF CallThrows, Awaits
<1>11. CASE LoadPage
  BY <1>11 DEF LoadPage, LoadedPage
<1>12. CASE UNCHANGED vars
  BY <1>12 DEF vars
<1> QED
  BY <1>2, <1>3, <1>4, <1>6, <1>7, <1>8, <1>9, <1>10, <1>11, <1>12 DEF Next, Answer

LEMMA PageInvariant == Spec => []PageInv
<1>1. Init => PageInv
  BY DEF Init, LoadedPage, PageInv, ClassFollowsLink, DialogCoversLostPage, HeardAfterFailure
<1> QED
  BY <1>1, PageNext, ReconnectionTypes, PTL DEF Spec

(* The dialog covers the page exactly while it has lost its server,        *)
(* whatever calls overlap and however late their answers close it.         *)
THEOREM DialogMatchesLink == Spec => []DialogCoversLostPage
BY PageInvariant, PTL DEF PageInv

(* A page the runtime gave up always has a way on, whatever calls overlap. *)
THEOREM PageIsNeverStranded == Spec => []NeverStranded
<1>1. PageInv => NeverStranded
  BY DEF PageInv, ClassFollowsLink, DialogCoversLostPage, HeardAfterFailure, Retrying,
     NeverStranded, RetryOffered, ResumeOffered
<1> QED
  BY <1>1, PageInvariant, PTL
-----------------------------------------------------------------------------
(* Calls that do not overlap.                                              *)

(* A call that starts is the only one unless it overlaps another.          *)
LEMMA BeginEffect ==
  ASSUME NEW p \in Page, NEW c \in Calls, Idle(p, c), NEW awaited \in Awaited
  PROVE  /\ Begin(p, c, awaited).awaits = [p.awaits EXCEPT ![c] = awaited]
         /\ ~Begin(p, c, awaited).overlapped =>
              ~p.overlapped /\ \A other \in Calls : Idle(p, other)
BY DEF Begin, Page

LEMMA CallNext == TypeOK /\ PageInv /\ CallInv /\ [Next]_vars => CallInv'
<1> SUFFICES ASSUME TypeOK, PageInv, CallInv, [Next]_vars PROVE CallInv'
  OBVIOUS
<1> USE DEF CallInv, CallsFitLink, PausedIsSaved, ListensOnlyAfterFailure, Idle, Retrying
<1>1. ASSUME NEW p \in Page, Attach(p), ~p.listening \/ p.overlapped,
             ~p.overlapped => \A c \in Calls : p.awaits[c] = "nothing"
      PROVE  CallInv'
  BY <1>1, AttachEffect
<1>2. CASE GoDown \/ ComeBack \/ Evict
  BY <1>2 DEF GoDown, ComeBack, Evict
<1>3. CASE ConnectionLost \/ Pause
  BY <1>3, DispatchEffect DEF ConnectionLost, Pause, Classes, TypeOK, Page, Awaited, serverVars
<1>4. CASE Attempt
  <2>1. CASE AttemptsExhausted
    BY <1>4, <2>1, DispatchEffect DEF Attempt, AttemptsExhausted, Classes, TypeOK, Page, Awaited, serverVars
  <2>2. CASE AttemptRejected
    BY <1>4, <2>2, DispatchEffect DEF Attempt, AttemptRejected, Classes, TypeOK, serverVars
  <2>3. CASE AttemptAccepted
    <3>1. ~page.overlapped => ~page.listening /\ \A c \in Calls : page.awaits[c] = "nothing"
      BY <1>4 DEF Attempt, TypeOK, Page, Awaited
    <3> QED
      BY <2>3, <3>1, <1>1 DEF AttemptAccepted, TypeOK
  <2> QED
    BY <1>4, <2>1, <2>2, <2>3 DEF Attempt
<1>5. ASSUME NEW c \in Calls, page.state = "open", Idle(page, c), UNCHANGED <<link, circuit>>,
             \/ page' = Retry(page, c) /\ link = "failed"
             \/ page' = Resume(page, c) /\ link = "paused"
      PROVE  CallInv'
  <2>1. CASE page' = Retry(page, c) /\ link = "failed"
    <3>1. "retry:reconnect" \in Awaited /\ page \in Page
      BY DEF Awaited, TypeOK
    <3>2. /\ page'.awaits = Begin(page, c, "retry:reconnect").awaits
          /\ page'.overlapped = Begin(page, c, "retry:reconnect").overlapped
          /\ ~page'.listening
      BY <2>1, <3>1 DEF Retry, Begin, Page
    <3>3. page'.awaits = [page.awaits EXCEPT ![c] = "retry:reconnect"]
      BY <1>5, <3>1, <3>2, BeginEffect
    <3>4. ~page'.overlapped => \A other \in Calls : page.awaits[other] = "nothing"
      BY <1>5, <3>1, <3>2, BeginEffect
    <3> QED
      BY <1>5, <2>1, <3>1, <3>2, <3>3, <3>4 DEF Page
  <2>2. CASE page' = Resume(page, c) /\ link = "paused"
    <3>1. "resume:resumeCircuit" \in Awaited /\ page \in Page
      BY DEF Awaited, TypeOK
    <3>2. page'.listening = page.listening
      BY <2>2, <3>1 DEF Resume, Begin, Page
    <3>3. page'.awaits = [page.awaits EXCEPT ![c] = "resume:resumeCircuit"]
      BY <1>5, <2>2, <3>1, BeginEffect DEF Resume
    <3>4. ~page'.overlapped => ~page.overlapped /\ \A other \in Calls : page.awaits[other] = "nothing"
      BY <1>5, <2>2, <3>1, BeginEffect DEF Resume
    <3> QED
      BY <1>5, <2>2, <3>1, <3>2, <3>3, <3>4 DEF Page
  <2> QED
    BY <1>5, <2>1, <2>2
<1>6. CASE VisibilityChange
  <2>1. PICK c \in Calls : Idle(page, c) /\ page' = RetryWhenDocumentBecomesVisible(page, c, visible')
    BY <1>6 DEF VisibilityChange
  <2>2. CASE page' = page
    BY <1>6, <2>2 DEF VisibilityChange, serverVars
  <2>3. CASE page.listening /\ page' = Retry(page, c) /\ page.overlapped
    <3>1. page'.overlapped /\ (link' = "paused" => circuit' # "live")
      BY <1>6, <2>3 DEF VisibilityChange, serverVars, Retry, Begin, TypeOK, Page
    <3> QED
      BY <3>1
  <2>4. CASE page.listening /\ page' = Retry(page, c) /\ ~page.overlapped
    BY <1>5, <1>6, <2>1, <2>4 DEF VisibilityChange, serverVars
  <2> QED
    BY <2>1, <2>2, <2>3, <2>4 DEF RetryWhenDocumentBecomesVisible
<1>7. ASSUME NEW c \in Calls, Click(c) PROVE CallInv'
  BY <1>5, <1>7 DEF Click, RetryOffered, ResumeOffered, serverVars, TypeOK,
     PageInv, ClassFollowsLink, DialogCoversLostPage
<1>8. ASSUME NEW c \in Calls, page.state = "open", page.awaits[c] # "nothing"
      PROVE  /\ Return(page, c).listening = page.listening
             /\ Return(page, c).overlapped = page.overlapped
             /\ ~page.overlapped => \A other \in Calls : Return(page, c).awaits[other] = "nothing"
  BY <1>8 DEF Return, TypeOK, Page, Awaited
<1>9. ASSUME NEW c \in Calls, ReconnectAnswered(c) PROVE CallInv'
  <2>1. page.state = "open" /\ page.awaits[c] = "retry:reconnect"
    BY <1>9 DEF ReconnectAnswered, Awaits
  <2>2. CASE Attach(Return(page, c))
    BY <2>1, <2>2, <1>8, <1>1, ScriptTypes DEF TypeOK
  <2>3. CASE /\ circuit # "live" /\ page' = RetryRefused(page, c)
             /\ UNCHANGED <<visible, link, serverVars>>
    BY <2>1, <2>3 DEF RetryRefused, serverVars, TypeOK, Page, Awaited
  <2> QED
    BY <1>9, <2>2, <2>3 DEF ReconnectAnswered
<1>10. ASSUME NEW c \in Calls, ResumeAnswered(c) PROVE CallInv'
  <2>1. page.state = "open" /\ page.awaits[c] # "nothing"
    BY <1>10 DEF ResumeAnswered, Awaits
  <2>2. ~page.listening \/ page.overlapped
    BY <2>1 DEF TypeOK, Page, Awaited
  <2>3. CASE Attach(Return(page, c))
    BY <2>2, <2>3, <2>1, <1>8, <1>1, ScriptTypes DEF TypeOK
  <2>4. CASE Attach(RetryResumed(page, c))
    <3>1. /\ RetryResumed(page, c).listening = Return(page, c).listening
          /\ RetryResumed(page, c).overlapped = Return(page, c).overlapped
          /\ RetryResumed(page, c).awaits = Return(page, c).awaits
      BY ScriptTypes DEF RetryResumed, Close, TypeOK, Page
    <3> QED
      BY <2>2, <2>4, <2>1, <3>1, <1>8, <1>1, ScriptTypes DEF TypeOK
  <2>5. CASE page' = Reload(Return(page, c)) /\ UNCHANGED <<visible, link, serverVars>>
    BY <2>1, <2>5, <1>8, ScriptTypes DEF TypeOK, Reload, Page, serverVars
  <2> QED
    BY <1>10, <2>3, <2>4, <2>5 DEF ResumeAnswered, RetryLost, ResumeLost
<1>11. ASSUME NEW c \in Calls, CallThrows(c) PROVE CallInv'
  <2>1. page.state = "open" /\ page.awaits[c] # "nothing" /\ UNCHANGED <<visible, link, serverVars>>
    BY <1>11 DEF CallThrows, Awaits
  <2>2. CASE page' = RetryThrows(page, c) /\ page.awaits[c] \in Retrying
    BY <2>1, <2>2, <1>8, ScriptTypes DEF TypeOK, RetryThrows, Page, serverVars
  <2>3. CASE page' = ResumeThrows(page, c)
    BY <2>1, <2>3, <1>8, ScriptTypes DEF TypeOK, ResumeThrows, Page, serverVars
  <2> QED
    BY <1>11, <2>2, <2>3 DEF CallThrows, Awaits
<1>12. CASE LoadPage
  BY <1>12 DEF LoadPage, LoadedPage
<1>13. CASE UNCHANGED vars
  BY <1>13 DEF vars
<1> QED
  BY <1>2, <1>3, <1>4, <1>6, <1>7, <1>9, <1>10, <1>11, <1>12, <1>13 DEF Next, Answer

LEMMA CallInvariant == Spec => []CallInv
<1>1. Init => CallInv
  BY DEF Init, LoadedPage, CallInv, CallsFitLink, PausedIsSaved, ListensOnlyAfterFailure, Idle, Retrying
<1> QED
  BY <1>1, CallNext, ReconnectionTypes, PageInvariant, PTL DEF Spec

(* Calls that do not overlap leave no listener behind.                     *)
THEOREM ListenerIsRemoved == Spec => []ListensOnlyAfterFailure
BY CallInvariant, PTL DEF CallInv

LEMMA ReloadStep ==
  ASSUME TypeOK, CallInv, [Next]_vars,
         page.state = "open", page'.state = "reloading", ~page.overlapped
  PROVE  reachable /\ circuit = "lost"
<1>1. ASSUME NEW p \in Page, p.state = "open", Attach(p) PROVE FALSE
  BY <1>1, DispatchEffect DEF Attach, Classes
<1>2. ASSUME NEW c \in Calls
      PROVE  /\ Return(page, c).state = "open" /\ RetryResumed(page, c).state = "open"
             /\ RetryRefused(page, c).state = "open"
             /\ RetryThrows(page, c).state = "open" /\ ResumeThrows(page, c).state = "open"
             /\ Retry(page, c).state = "open" /\ Resume(page, c).state = "open"
  BY DEF Return, RetryResumed, Close, RetryRefused, RetryThrows, ResumeThrows, Retry, Resume, Begin, TypeOK, Page
<1>3. CASE ConnectionLost \/ Pause
  BY <1>3, DispatchEffect DEF ConnectionLost, Pause, Classes, TypeOK
<1>4. CASE Attempt
  BY <1>1, <1>4, DispatchEffect
     DEF Attempt, AttemptsExhausted, AttemptRejected, AttemptAccepted, Classes, TypeOK
<1>5. ASSUME NEW c \in Calls, ResumeAnswered(c) PROVE reachable /\ circuit = "lost"
  <2>1. CASE Attach(RetryResumed(page, c)) \/ Attach(Return(page, c))
    BY <2>1, <1>1, <1>2, ScriptTypes DEF TypeOK
  <2>2. CASE /\ circuit # "saved"
             /\ page.awaits[c] \in {"retry:resumeCircuit", "resume:resumeCircuit"}
    BY <1>5, <2>2 DEF ResumeAnswered, TypeOK, CallInv, CallsFitLink, PausedIsSaved
  <2> QED
    BY <1>5, <2>1, <2>2 DEF ResumeAnswered, Awaits
<1>6. ASSUME NEW c \in Calls, ReconnectAnswered(c) \/ CallThrows(c) PROVE FALSE
  BY <1>1, <1>2, <1>6, ScriptTypes DEF ReconnectAnswered, CallThrows, TypeOK
<1>7. ASSUME VisibilityChange \/ \E c \in Calls : Click(c) PROVE FALSE
  BY <1>2, <1>7 DEF VisibilityChange, RetryWhenDocumentBecomesVisible, Click
<1>8. CASE GoDown \/ ComeBack \/ Evict \/ LoadPage \/ UNCHANGED vars
  BY <1>8 DEF GoDown, ComeBack, Evict, LoadPage, LoadedPage, vars
<1> QED
  BY <1>3, <1>4, <1>5, <1>6, <1>7, <1>8 DEF Next, Answer

(* Calls that do not overlap never reload a page that could go on.         *)
THEOREM OnlyLostCircuitsReload == Spec => ReloadsOnlyLostCircuits
<1>1. TypeOK /\ CallInv /\ [Next]_vars
        => [page.state = "open" /\ page'.state = "reloading" /\ ~page.overlapped
              => reachable /\ circuit = "lost"]_vars
  BY ReloadStep
<1> QED
  BY <1>1, ReconnectionTypes, CallInvariant, PTL DEF Spec, ReloadsOnlyLostCircuits
=============================================================================
