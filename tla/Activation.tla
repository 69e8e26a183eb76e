----------------------------- MODULE Activation -----------------------------
(***************************************************************************)
(* The background worker (extension/background.js): a click on the         *)
(* toolbar icon activates the extension in one tab, once per document.     *)
(*                                                                         *)
(* Each click is a call of activateTab, which asks the tab whether it is   *)
(* active and then injects the content scripts, waiting for the browser    *)
(* both times.  Meanwhile the user clicks again, tabs navigate and close,  *)
(* and the browser may stop the worker: its memory and its continuations   *)
(* are lost, what it asked the browser for goes on.  The browser orders    *)
(* neither answers nor events.                                             *)
(***************************************************************************)
EXTENDS Naturals, FiniteSets

CONSTANTS
    Tabs,
    MaxClicks,      \* bound on the clicks on the icon
    MaxRestarts     \* bound on the stops of the worker

ASSUME ActivationAssumption == MaxClicks \in Nat /\ MaxRestarts \in Nat

Clicks == 1..MaxClicks

VARIABLES
    injectingTabs,  \* the worker's set
    clicked,        \* per tab, the clicks that activateTab went on with
    at,             \* per click, the await it is in
    request,        \* per click, what the browser has yet to do for it
    said,           \* per click, the browser's answer, not heard yet
    open,           \* the tabs that exist
    forbidden,      \* those whose document no extension may touch
    granted,        \* those whose document activeTab gives access to
    listeners,      \* per tab, click listeners of interceptor.js in its document
    loads,          \* per tab, runs of the content scripts in its document
    loading,        \* the tabs with an onUpdated "loading" on its way
    removing,       \* the tabs with an onRemoved on its way
    badge,          \* per tab, the icon's badge
    restarts        \* how often the worker was stopped

workerVars == <<injectingTabs, clicked, at>>
requestVars == <<request, said>>
pageVars == <<open, forbidden, granted, listeners, loads>>
eventVars == <<loading, removing>>
vars == <<workerVars, requestVars, pageVars, eventVars, badge, restarts>>

ActivationTypeOK ==
    /\ injectingTabs \subseteq Tabs
    /\ clicked \in [Tabs -> SUBSET Clicks]
    /\ at \in [Clicks -> {"unused", "asking", "injecting", "over"}]
    /\ request \in [Clicks -> {"none", "ask", "inject"}]
    /\ said \in [Clicks -> {"nothing", "active", "inactive", "injected", "error"}]
    /\ open \subseteq Tabs /\ forbidden \subseteq Tabs /\ granted \subseteq Tabs
    /\ listeners \in [Tabs -> Nat] /\ loads \in [Tabs -> Nat]
    /\ loading \subseteq Tabs /\ removing \subseteq Tabs
    /\ badge \in [Tabs -> {"none", "ON", "!"}]
    /\ restarts \in 0..MaxRestarts

Init ==
    /\ injectingTabs = {} /\ clicked = [t \in Tabs |-> {}]
    /\ at = [c \in Clicks |-> "unused"]
    /\ request = [c \in Clicks |-> "none"]
    /\ said = [c \in Clicks |-> "nothing"]
    /\ open = Tabs /\ forbidden \in SUBSET Tabs /\ granted = {}
    /\ listeners = [t \in Tabs |-> 0] /\ loads = [t \in Tabs |-> 0]
    /\ loading = {} /\ removing = {}
    /\ badge = [t \in Tabs |-> "none"]
    /\ restarts = 0
-----------------------------------------------------------------------------
(* Faulty variants of definitions below: one plausible slip each.          *)

(* interceptor.js without its check of isActive.                           *)
AlwaysListen(t) == listeners[t] + 1

(* injectingTabs is kept and never asked.                                  *)
NeverBusy(t) == FALSE

(* The tab is released by success only, not by a finally.                  *)
KeepTab(t) == UNCHANGED injectingTabs

(* A text that does not fit the badge.                                     *)
BadgeOfError == "erro"
-----------------------------------------------------------------------------
(* The worker.                                                             *)

Busy(t) == t \in injectingTabs

(* The click that activeTab takes for consent, whatever the worker does.   *)
Grant(t) == granted' = IF t \in forbidden THEN granted ELSE granted \cup {t}

ClickIgnored(t) ==
    /\ t \in open /\ Busy(t)
    /\ Grant(t)
    /\ UNCHANGED <<workerVars, requestVars, open, forbidden, listeners, loads,
                   eventVars, badge, restarts>>

(* activateTab up to its first await.                                      *)
ActivateTab(t, c) ==
    /\ t \in open /\ ~Busy(t)
    /\ at[c] = "unused" /\ \A d \in Clicks : d < c => at[d] # "unused"
    /\ Grant(t)
    /\ injectingTabs' = injectingTabs \cup {t}
    /\ clicked' = [clicked EXCEPT ![t] = @ \cup {c}]
    /\ at' = [at EXCEPT ![c] = "asking"]
    /\ request' = [request EXCEPT ![c] = "ask"]
    /\ UNCHANGED <<said, open, forbidden, listeners, loads, eventVars,
                   badge, restarts>>

Release(t) == injectingTabs' = injectingTabs \ {t}
ReleaseAfterError(t) == injectingTabs' = injectingTabs \ {t}

SetBadge(t, text) ==
    badge' = IF t \in open THEN [badge EXCEPT ![t] = text] ELSE badge

(* setActionState(tab, true), for a document that may be gone by now.      *)
Activated(t, c) ==
    /\ SetBadge(t, "ON")
    /\ Release(t)
    /\ at' = [at EXCEPT ![c] = "over"]
    /\ UNCHANGED request

Answer(t, c) ==
    /\ c \in clicked[t]
    /\ said[c] # "nothing"
    /\ said' = [said EXCEPT ![c] = "nothing"]
    /\ UNCHANGED <<clicked, pageVars, eventVars, restarts>>

HearActive(t, c) ==
    /\ Answer(t, c)
    /\ \/ at[c] = "asking" /\ said[c] = "active"
       \/ at[c] = "injecting" /\ said[c] = "injected"
    /\ Activated(t, c)

HearInactive(t, c) ==
    /\ Answer(t, c)
    /\ at[c] = "asking" /\ said[c] = "inactive"
    /\ at' = [at EXCEPT ![c] = "injecting"]
    /\ request' = [request EXCEPT ![c] = "inject"]
    /\ UNCHANGED <<injectingTabs, badge>>

FailureBadge == "!"

HearError(t, c) ==
    /\ Answer(t, c)
    /\ at[c] \in {"asking", "injecting"} /\ said[c] = "error"
    /\ SetBadge(t, FailureBadge)
    /\ ReleaseAfterError(t)
    /\ at' = [at EXCEPT ![c] = "over"]
    /\ UNCHANGED request

ClearBadge(t) == SetBadge(t, "none")

(* onUpdated "loading" and onRemoved.                                      *)
HearLoading(t) ==
    /\ t \in loading
    /\ loading' = loading \ {t}
    /\ ClearBadge(t)
    /\ UNCHANGED <<workerVars, requestVars, pageVars, removing, restarts>>

HearRemoved(t) ==
    /\ t \in removing
    /\ removing' = removing \ {t}
    /\ Release(t)
    /\ UNCHANGED <<clicked, at, requestVars, pageVars, loading, badge,
                   restarts>>

(* Nothing of the worker is kept; an event starts it anew.                 *)
WorkerStops ==
    /\ restarts < MaxRestarts
    /\ restarts' = restarts + 1
    /\ injectingTabs' = {}
    /\ at' = [c \in Clicks |-> IF at[c] = "unused" THEN "unused" ELSE "over"]
    /\ said' = [c \in Clicks |-> "nothing"]
    /\ UNCHANGED <<clicked, request, pageVars, eventVars, badge>>
-----------------------------------------------------------------------------
(* The browser.                                                            *)

(* Only a worker that still waits is told.                                 *)
Tell(c, answer) ==
    /\ request' = [request EXCEPT ![c] = "none"]
    /\ said' = IF at[c] = "over" THEN said ELSE [said EXCEPT ![c] = answer]

RunIsActive(t, c) ==
    /\ c \in clicked[t] /\ request[c] = "ask" /\ t \in open \cap granted
    /\ Tell(c, IF listeners[t] > 0 THEN "active" ELSE "inactive")
    /\ UNCHANGED <<workerVars, pageVars, eventVars, badge, restarts>>

(* interceptor.js in a document: it listens once, and marks that it does.  *)
Listen(t) == IF listeners[t] > 0 THEN listeners[t] ELSE 1

RunInjection(t, c) ==
    /\ c \in clicked[t] /\ request[c] = "inject" /\ t \in open \cap granted
    /\ listeners' = [listeners EXCEPT ![t] = Listen(t)]
    /\ loads' = [loads EXCEPT ![t] = @ + 1]
    /\ Tell(c, "injected")
    /\ UNCHANGED <<workerVars, open, forbidden, granted, eventVars,
                   badge, restarts>>

RefuseScript(t, c) ==
    /\ c \in clicked[t] /\ request[c] # "none" /\ t \notin open \cap granted
    /\ Tell(c, "error")
    /\ UNCHANGED <<workerVars, pageVars, eventVars, badge, restarts>>

(* A new document, of the same origin (activeTab goes on) or of another;   *)
(* the browser may drop the badge by itself and the scripts that wait.     *)
Navigate(t) ==
    /\ t \in open
    /\ \/ UNCHANGED <<forbidden, granted>>
       \/ granted' = granted \ {t} /\ forbidden' \in {forbidden \cup {t}, forbidden \ {t}}
    /\ listeners' = [listeners EXCEPT ![t] = 0]
    /\ loads' = [loads EXCEPT ![t] = 0]
    /\ loading' = loading \cup {t}
    /\ \/ UNCHANGED badge
       \/ badge' = [badge EXCEPT ![t] = "none"]
    /\ \E dropped \in SUBSET {c \in clicked[t] : request[c] # "none"} :
          /\ request' = [c \in Clicks |-> IF c \in dropped THEN "none" ELSE request[c]]
          /\ said' = [c \in Clicks |->
                        IF c \in dropped /\ at[c] # "over" THEN "error" ELSE said[c]]
    /\ UNCHANGED <<workerVars, open, removing, restarts>>

(* "loading" without a new document, as single-page applications cause.    *)
LoadsInPlace(t) ==
    /\ t \in open
    /\ loading' = loading \cup {t}
    /\ UNCHANGED <<workerVars, requestVars, pageVars, removing, badge,
                   restarts>>

TabCloses(t) ==
    /\ t \in open
    /\ open' = open \ {t}
    /\ removing' = removing \cup {t}
    /\ UNCHANGED <<workerVars, requestVars, forbidden, granted, listeners,
                   loads, loading, badge, restarts>>
-----------------------------------------------------------------------------
RunScript(t, c) == RunIsActive(t, c) \/ RunInjection(t, c) \/ RefuseScript(t, c)
HearAnswer(t, c) == HearActive(t, c) \/ HearInactive(t, c) \/ HearError(t, c)

Next ==
    \/ \E t \in Tabs :
          \/ ClickIgnored(t)
          \/ \E c \in Clicks : ActivateTab(t, c) \/ RunScript(t, c) \/ HearAnswer(t, c)
          \/ HearLoading(t) \/ HearRemoved(t)
          \/ Navigate(t) \/ LoadsInPlace(t) \/ TabCloses(t)
    \/ WorkerStops

Spec == Init /\ [][Next]_vars

(* The browser answers executeScript at the latest when the document was   *)
(* loaded or given up, and delivers answers.                               *)
FairSpec ==
    /\ Spec
    /\ \A t \in Tabs, c \in Clicks :
          WF_vars(RunScript(t, c)) /\ WF_vars(HearAnswer(t, c))
-----------------------------------------------------------------------------
(* Properties.                                                             *)

(* interceptor.js:13: a document has one listener for clicks, even if a    *)
(* restarted worker injects the content scripts a second time; two would   *)
(* open two flows per click.                                               *)
OneListener == \A t \in Tabs : listeners[t] <= 1

(* The content scripts, whose other modules are not idempotent, run once   *)
(* in a document, and once more only for each time the worker forgot that  *)
(* it was injecting.                                                       *)
LoadedOnce == \A t \in Tabs : loads[t] <= 1 + restarts

(* background.js:8, "Direct Attachment está ativo nesta aba", and 67, a     *)
(* navigation ends the activation: once the worker heard of a navigation,  *)
(* ON stands for a listener in the document that the tab has.  The code    *)
(* breaks it: an answer about the old document may come after the event    *)
(* and sets ON again.                                                      *)
HonestBadge == \A t \in open \ loading : badge[t] = "ON" => listeners[t] = 1

(* No click makes a tab deaf to the icon: whatever fails, closes or        *)
(* navigates, activateTab releases it.                                     *)
TabReleased == \A t \in Tabs : t \in injectingTabs ~> t \notin injectingTabs
-----------------------------------------------------------------------------
(* The inductive invariant.                                                *)

Waits(c) == at[c] \in {"asking", "injecting"}

(* A click belongs to one tab.  While the worker waits for a click, the    *)
(* browser has yet to answer or its answer is on its way, never both; what *)
(* it was asked and answered fits the await.                               *)
ClicksInv ==
    /\ \A t \in Tabs : \A c \in clicked[t] : at[c] # "unused"
    /\ \A t, u \in Tabs : clicked[t] \cap clicked[u] # {} => t = u
    /\ \A c \in Clicks : request[c] # "none" => at[c] # "unused"
    /\ \A c \in Clicks : said[c] # "nothing" =>
          /\ Waits(c) /\ request[c] = "none"
          /\ said[c] \in {"active", "inactive"} => at[c] = "asking"
          /\ said[c] = "injected" => at[c] = "injecting"
    /\ \A c \in Clicks : Waits(c) /\ request[c] # "none" =>
          request[c] = IF at[c] = "asking" THEN "ask" ELSE "inject"

(* injectingTabs does what it is for: an open tab has one click that the   *)
(* worker waits for, if any.                                               *)
OneWaiting ==
    /\ removing \cap open = {}
    /\ \A t \in open : \A c, d \in clicked[t] :
          Waits(c) /\ Waits(d) => c = d /\ t \in injectingTabs

(* The clicks of a tab that lead to an injection into its document: those  *)
(* the browser was asked for, also by a worker since stopped, and one      *)
(* whose document was found inactive.                                      *)
ToInject(t) ==
    {c \in clicked[t] : request[c] = "inject" \/ said[c] = "inactive"}
Forgotten(t) == {c \in ToInject(t) : at[c] = "over"}

(* Each stop of the worker leaves at most one injection of a tab forgotten *)
(* and under way, so what a document has run and has yet to run stays      *)
(* within one more than the stops.                                         *)
FewInjections(t) ==
    /\ listeners[t] <= 1
    /\ listeners[t] = 0 <=> loads[t] = 0
    /\ loads[t] <= 1 + restarts
    /\ t \in open =>
          /\ Cardinality(Forgotten(t)) <= restarts
          /\ loads[t] + Cardinality(ToInject(t)) <= 1 + restarts

InjectionsInv == \A t \in Tabs : FewInjections(t)

(* The worker's memory, the browser's requests and answers and the         *)
(* documents, related across clicks, navigations and stops of the worker.  *)
ActivationInv ==
    /\ ActivationTypeOK
    /\ ClicksInv
    /\ OneWaiting
    /\ InjectionsInv
============================================================================
