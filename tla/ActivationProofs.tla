-------------------------- MODULE ActivationProofs --------------------------
(***************************************************************************)
(* Proofs about the background worker, for any number of tabs, clicks and  *)
(* restarts.                                                               *)
(***************************************************************************)
EXTENDS Activation, FiniteSetTheorems, TLAPS

(* Sets of clicks are finite, and so are counted by a number.              *)
LEMMA ClicksFinite ==
  ASSUME NEW S \in SUBSET Clicks
  PROVE  IsFiniteSet(S) /\ Cardinality(S) \in Nat
<1>1. IsFiniteSet(Clicks)
  BY ActivationAssumption, FS_Interval DEF Clicks
<1>. QED BY <1>1, FS_Subset, FS_CardinalityType

LEMMA FewerClicks ==
  ASSUME NEW S \in SUBSET Clicks, NEW T \in SUBSET S
  PROVE  Cardinality(T) <= Cardinality(S)
  BY ClicksFinite, FS_Subset

LEMMA OneClickLess ==
  ASSUME NEW S \in SUBSET Clicks, NEW c \in S
  PROVE  Cardinality(S \ {c}) = Cardinality(S) - 1
  BY ClicksFinite, FS_RemoveElement

LEMMA OneClickMore ==
  ASSUME NEW S \in SUBSET Clicks, NEW c \in Clicks
  PROVE  Cardinality(S \cup {c}) <= Cardinality(S) + 1
  BY ClicksFinite, FS_AddElement

(* The worker has just been installed: no click, no request, no listener.  *)
LEMMA ActivationInit == Init => ActivationInv
<1>. SUFFICES ASSUME Init PROVE ActivationInv
  OBVIOUS
<1>. USE ActivationAssumption DEF Init
<1>1. ActivationTypeOK
  BY DEF ActivationTypeOK
<1>2. ClicksInv /\ OneWaiting
  BY DEF ClicksInv, OneWaiting
<1>3. InjectionsInv
  <2>1. \A t \in Tabs : ToInject(t) = {} /\ Forgotten(t) = {}
    BY DEF ToInject, Forgotten
  <2>2. \A t \in Tabs : Cardinality(ToInject(t)) = 0 /\ Cardinality(Forgotten(t)) = 0
    BY ONLY <2>1, FS_EmptySet
  <2>. QED BY <2>2 DEF InjectionsInv, FewInjections
<1>. QED BY <1>1, <1>2, <1>3 DEF ActivationInv

LEMMA TypeStep ==
  ASSUME ActivationInv, [Next]_vars
  PROVE  ActivationTypeOK'
<1>. USE ActivationAssumption
     DEF ActivationInv, ActivationTypeOK, workerVars, requestVars, pageVars,
         eventVars
<1>1. CASE UNCHANGED vars
  BY <1>1 DEF vars
<1>2. ASSUME NEW t \in Tabs, ClickIgnored(t) PROVE ActivationTypeOK'
  BY <1>2 DEF ClickIgnored, Grant
<1>3. ASSUME NEW t \in Tabs, NEW c \in Clicks, ActivateTab(t, c)
      PROVE  ActivationTypeOK'
  BY <1>3 DEF ActivateTab, Grant
<1>4. ASSUME NEW t \in Tabs, NEW c \in Clicks, RunIsActive(t, c)
      PROVE  ActivationTypeOK'
  BY <1>4 DEF RunIsActive, Tell
<1>5. ASSUME NEW t \in Tabs, NEW c \in Clicks, RunInjection(t, c)
      PROVE  ActivationTypeOK'
  BY <1>5 DEF RunInjection, Tell, Listen
<1>6. ASSUME NEW t \in Tabs, NEW c \in Clicks, RefuseScript(t, c)
      PROVE  ActivationTypeOK'
  BY <1>6 DEF RefuseScript, Tell
<1>7. ASSUME NEW t \in Tabs, NEW c \in Clicks, HearActive(t, c)
      PROVE  ActivationTypeOK'
  BY <1>7 DEF HearActive, Answer, Activated, SetBadge, Release
<1>8. ASSUME NEW t \in Tabs, NEW c \in Clicks, HearInactive(t, c)
      PROVE  ActivationTypeOK'
  BY <1>8 DEF HearInactive, Answer
<1>9. ASSUME NEW t \in Tabs, NEW c \in Clicks, HearError(t, c)
      PROVE  ActivationTypeOK'
  BY <1>9 DEF HearError, Answer, SetBadge, FailureBadge, ReleaseAfterError
<1>10. ASSUME NEW t \in Tabs, HearLoading(t) PROVE ActivationTypeOK'
  BY <1>10 DEF HearLoading, ClearBadge, SetBadge
<1>11. ASSUME NEW t \in Tabs, HearRemoved(t) PROVE ActivationTypeOK'
  BY <1>11 DEF HearRemoved, Release
<1>12. ASSUME NEW t \in Tabs, Navigate(t) PROVE ActivationTypeOK'
  <2>1. /\ request' \in [Clicks -> {"none", "ask", "inject"}]
        /\ said' \in [Clicks -> {"nothing", "active", "inactive", "injected", "error"}]
    <3>1. PICK dropped \in SUBSET {c \in clicked[t] : request[c] # "none"} :
            /\ request' = [c \in Clicks |->
                             IF c \in dropped THEN "none" ELSE request[c]]
            /\ said' = [c \in Clicks |->
                          IF c \in dropped /\ at[c] # "over" THEN "error" ELSE said[c]]
      BY <1>12 DEF Navigate
    <3>. QED BY ONLY <3>1, ActivationTypeOK DEF ActivationTypeOK
  <2>2. UNCHANGED <<workerVars, open, removing, restarts>>
    BY <1>12 DEF Navigate
  <2>3. /\ forbidden' \subseteq Tabs /\ granted' \subseteq Tabs
        /\ loading' \subseteq Tabs
    BY <1>12 DEF Navigate
  <2>4. /\ listeners' \in [Tabs -> Nat] /\ loads' \in [Tabs -> Nat]
        /\ badge' \in [Tabs -> {"none", "ON", "!"}]
    BY <1>12 DEF Navigate
  <2>. QED BY <2>1, <2>2, <2>3, <2>4
<1>13. ASSUME NEW t \in Tabs, LoadsInPlace(t) PROVE ActivationTypeOK'
  BY <1>13 DEF LoadsInPlace
<1>14. ASSUME NEW t \in Tabs, TabCloses(t) PROVE ActivationTypeOK'
  BY <1>14 DEF TabCloses
<1>15. CASE WorkerStops
  BY <1>15 DEF WorkerStops
<1>. QED
  BY [Next]_vars, <1>1, <1>2, <1>3, <1>4, <1>5, <1>6, <1>7, <1>8, <1>9,
     <1>10, <1>11, <1>12, <1>13, <1>14, <1>15
  DEF Next, RunScript, HearAnswer

(* The steps that touch what the worker and the browser know of a click.   *)
LEMMA ClickSteps ==
  ASSUME [Next]_vars
  PROVE  \/ UNCHANGED <<clicked, at, request, said>>
         \/ \E t \in Tabs, c \in Clicks :
               ActivateTab(t, c) \/ RunScript(t, c) \/ HearAnswer(t, c)
         \/ \E t \in Tabs : Navigate(t)
         \/ WorkerStops
  BY DEF Next, vars, workerVars, requestVars, ClickIgnored, HearLoading,
         HearRemoved, LoadsInPlace, TabCloses

(* A click is of one tab, and what is asked, answered and awaited for it   *)
(* agrees.                                                                 *)
LEMMA ClicksStep ==
  ASSUME ActivationInv, [Next]_vars
  PROVE  ClicksInv'
<1>. USE DEF ActivationInv, ActivationTypeOK, ClicksInv, Waits
<1>1. CASE UNCHANGED <<clicked, at, request, said>>
  BY <1>1
<1>2. ASSUME NEW t \in Tabs, NEW c \in Clicks, ActivateTab(t, c)
      PROVE  ClicksInv'
  BY <1>2 DEF ActivateTab
<1>3. ASSUME NEW t \in Tabs, NEW c \in Clicks, RunIsActive(t, c)
      PROVE  ClicksInv'
  BY <1>3 DEF RunIsActive, Tell, workerVars
<1>4. ASSUME NEW t \in Tabs, NEW c \in Clicks, RunInjection(t, c)
      PROVE  ClicksInv'
  BY <1>4 DEF RunInjection, Tell, workerVars
<1>5. ASSUME NEW t \in Tabs, NEW c \in Clicks, RefuseScript(t, c)
      PROVE  ClicksInv'
  BY <1>5 DEF RefuseScript, Tell, workerVars
<1>6. ASSUME NEW t \in Tabs, NEW c \in Clicks, HearActive(t, c)
      PROVE  ClicksInv'
  BY <1>6 DEF HearActive, Answer, Activated
<1>7. ASSUME NEW t \in Tabs, NEW c \in Clicks, HearInactive(t, c)
      PROVE  ClicksInv'
  BY <1>7 DEF HearInactive, Answer
<1>8. ASSUME NEW t \in Tabs, NEW c \in Clicks, HearError(t, c)
      PROVE  ClicksInv'
  BY <1>8 DEF HearError, Answer
<1>9. ASSUME NEW t \in Tabs, Navigate(t) PROVE ClicksInv'
  <2>1. PICK dropped \in SUBSET {c \in clicked[t] : request[c] # "none"} :
          /\ request' = [c \in Clicks |->
                           IF c \in dropped THEN "none" ELSE request[c]]
          /\ said' = [c \in Clicks |->
                        IF c \in dropped /\ at[c] # "over" THEN "error" ELSE said[c]]
    BY <1>9 DEF Navigate
  <2>2. UNCHANGED <<clicked, at>>
    BY <1>9 DEF Navigate, workerVars
  <2>. QED BY <2>1, <2>2
<1>10. CASE WorkerStops
  BY <1>10 DEF WorkerStops
<1>. QED
  BY ClickSteps, <1>1, <1>2, <1>3, <1>4, <1>5, <1>6, <1>7, <1>8, <1>9, <1>10
  DEF RunScript, HearAnswer

(* injectingTabs holds the tabs of the clicks that are waited for, but for *)
(* closed ones.                                                            *)
LEMMA WaitingStep ==
  ASSUME ActivationInv, [Next]_vars
  PROVE  OneWaiting'
<1>. USE DEF ActivationInv, ActivationTypeOK, ClicksInv, OneWaiting, Waits
<1>1. CASE UNCHANGED <<injectingTabs, clicked, at, open, removing>>
  BY <1>1
<1>2. ASSUME NEW t \in Tabs, NEW c \in Clicks, ActivateTab(t, c)
      PROVE  OneWaiting'
  BY <1>2 DEF ActivateTab, Busy, eventVars
<1>3. ASSUME NEW t \in Tabs, NEW c \in Clicks, HearActive(t, c)
      PROVE  OneWaiting'
  BY <1>3 DEF HearActive, Answer, Activated, Release, pageVars, eventVars
<1>4. ASSUME NEW t \in Tabs, NEW c \in Clicks, HearInactive(t, c)
      PROVE  OneWaiting'
  BY <1>4 DEF HearInactive, Answer, pageVars, eventVars
<1>5. ASSUME NEW t \in Tabs, NEW c \in Clicks, HearError(t, c)
      PROVE  OneWaiting'
  BY <1>5 DEF HearError, Answer, ReleaseAfterError, pageVars, eventVars
<1>6. ASSUME NEW t \in Tabs, HearRemoved(t) PROVE OneWaiting'
  BY <1>6 DEF HearRemoved, Release, pageVars
<1>7. ASSUME NEW t \in Tabs, TabCloses(t) PROVE OneWaiting'
  BY <1>7 DEF TabCloses, workerVars
<1>8. CASE WorkerStops
  BY <1>8 DEF WorkerStops, pageVars, eventVars
<1>9. \/ UNCHANGED <<injectingTabs, clicked, at, open, removing>>
      \/ \E t \in Tabs : HearRemoved(t) \/ TabCloses(t)
      \/ \E t \in Tabs, c \in Clicks : ActivateTab(t, c) \/ HearAnswer(t, c)
      \/ WorkerStops
  BY [Next]_vars
  DEF Next, RunScript, vars, workerVars, pageVars, eventVars, ClickIgnored,
      RunIsActive, RunInjection, RefuseScript, HearLoading, Navigate, LoadsInPlace
<1>. QED
  BY <1>1, <1>2, <1>3, <1>4, <1>5, <1>6, <1>7, <1>8, <1>9 DEF HearAnswer

(* A tab whose injections under way and documents are those of before, or  *)
(* fewer, stays within the bound.                                          *)
LEMMA NoMoreInjections ==
  ASSUME ActivationInv, ActivationTypeOK', NEW t \in Tabs,
         ToInject(t)' \subseteq ToInject(t),
         Forgotten(t)' \subseteq Forgotten(t),
         \/ listeners'[t] = listeners[t] /\ loads'[t] = loads[t]
         \/ listeners'[t] = 0 /\ loads'[t] = 0,
         restarts' = restarts, t \in open' => t \in open
  PROVE  FewInjections(t)'
<1>1. /\ ToInject(t) \in SUBSET Clicks /\ Forgotten(t) \in SUBSET Clicks
      /\ ToInject(t)' \in SUBSET Clicks /\ Forgotten(t)' \in SUBSET Clicks
  BY DEF ActivationInv, ActivationTypeOK, ToInject, Forgotten
<1>2. /\ Cardinality(ToInject(t)') <= Cardinality(ToInject(t))
      /\ Cardinality(Forgotten(t)') <= Cardinality(Forgotten(t))
      /\ Cardinality(ToInject(t)) \in Nat /\ Cardinality(Forgotten(t)) \in Nat
      /\ Cardinality(ToInject(t)') \in Nat /\ Cardinality(Forgotten(t)') \in Nat
  BY <1>1, FewerClicks, ClicksFinite
<1>3. FewInjections(t)
  BY DEF ActivationInv, InjectionsInv
<1>4. /\ restarts \in Nat /\ loads[t] \in Nat /\ listeners[t] \in Nat
  BY ActivationAssumption DEF ActivationInv, ActivationTypeOK
<1>5. /\ listeners'[t] <= 1 /\ (listeners'[t] = 0 <=> loads'[t] = 0)
      /\ loads'[t] <= 1 + restarts'
  BY <1>3, <1>4 DEF FewInjections
<1>6. ASSUME t \in open'
      PROVE  /\ Cardinality(Forgotten(t)') <= restarts'
             /\ loads'[t] + Cardinality(ToInject(t)') <= 1 + restarts'
  BY <1>2, <1>3, <1>4, <1>6 DEF FewInjections
<1>. QED BY <1>5, <1>6 DEF FewInjections

(* A stop of the worker, a script that runs and a document found inactive  *)
(* are the steps that can bring a tab nearer to the bound.                 *)
LEMMA InjectionsStep ==
  ASSUME ActivationInv, ActivationTypeOK', [Next]_vars
  PROVE  InjectionsInv'
<1>. USE DEF ActivationInv, ActivationTypeOK, ClicksInv, Waits
<1>1. ASSUME UNCHANGED <<clicked, at, request, said, listeners, loads, restarts>>,
             open' \subseteq open
      PROVE  InjectionsInv'
  BY <1>1, NoMoreInjections DEF ToInject, Forgotten, InjectionsInv
<1>2. ASSUME NEW t \in Tabs, NEW c \in Clicks, ActivateTab(t, c)
      PROVE  InjectionsInv'
  <2>1. UNCHANGED <<said, open, listeners, loads, restarts>>
    BY <1>2 DEF ActivateTab
  <2>2. ASSUME NEW u \in Tabs
        PROVE  /\ ToInject(u)' \subseteq ToInject(u)
               /\ Forgotten(u)' \subseteq Forgotten(u)
    BY <1>2 DEF ActivateTab, ToInject, Forgotten
  <2>. QED BY <2>1, <2>2, NoMoreInjections DEF InjectionsInv
<1>3. ASSUME NEW t \in Tabs, NEW c \in Clicks, HearAnswer(t, c)
      PROVE  InjectionsInv'
  <2>1. UNCHANGED <<open, listeners, loads, restarts>>
    BY <1>3 DEF HearAnswer, HearActive, HearInactive, HearError, Answer, pageVars
  <2>2. ASSUME NEW u \in Tabs
        PROVE  /\ ToInject(u)' \subseteq ToInject(u)
               /\ Forgotten(u)' \subseteq Forgotten(u)
    BY <1>3 DEF HearAnswer, HearActive, HearInactive, HearError, Answer,
                Activated, ToInject, Forgotten
  <2>. QED BY <2>1, <2>2, NoMoreInjections DEF InjectionsInv
<1>4. ASSUME NEW t \in Tabs, NEW c \in Clicks, RefuseScript(t, c)
      PROVE  InjectionsInv'
  <2>1. UNCHANGED <<open, listeners, loads, restarts>>
    BY <1>4 DEF RefuseScript, pageVars
  <2>2. ASSUME NEW u \in Tabs
        PROVE  /\ ToInject(u)' \subseteq ToInject(u)
               /\ Forgotten(u)' \subseteq Forgotten(u)
    BY <1>4 DEF RefuseScript, Tell, workerVars, ToInject, Forgotten
  <2>. QED BY <2>1, <2>2, NoMoreInjections DEF InjectionsInv
<1>5. ASSUME NEW t \in Tabs, Navigate(t) PROVE InjectionsInv'
  <2>1. PICK dropped \in SUBSET {c \in clicked[t] : request[c] # "none"} :
          /\ request' = [c \in Clicks |->
                           IF c \in dropped THEN "none" ELSE request[c]]
          /\ said' = [c \in Clicks |->
                        IF c \in dropped /\ at[c] # "over" THEN "error" ELSE said[c]]
    BY <1>5 DEF Navigate
  <2>2. /\ UNCHANGED <<clicked, at, open, restarts>>
        /\ listeners' = [listeners EXCEPT ![t] = 0]
        /\ loads' = [loads EXCEPT ![t] = 0]
    BY <1>5 DEF Navigate, workerVars
  <2>3. ASSUME NEW u \in Tabs
        PROVE  /\ ToInject(u)' \subseteq ToInject(u)
               /\ Forgotten(u)' \subseteq Forgotten(u)
    BY <2>1, <2>2 DEF ToInject, Forgotten
  <2>. QED BY SMTT(30), <2>2, <2>3, NoMoreInjections DEF InjectionsInv
<1>6. ASSUME NEW t \in Tabs, NEW c \in Clicks, RunIsActive(t, c)
      PROVE  InjectionsInv'
  <2>1. UNCHANGED <<clicked, at, open, listeners, loads, restarts>>
    BY <1>6 DEF RunIsActive, workerVars, pageVars
  <2>2. ASSUME NEW u \in Tabs
        PROVE  Forgotten(u)' \subseteq Forgotten(u)
    BY <1>6, <2>1 DEF RunIsActive, Tell, ToInject, Forgotten
  <2>3. ASSUME NEW u \in Tabs, u # t \/ listeners[t] > 0 \/ at[c] = "over"
        PROVE  ToInject(u)' \subseteq ToInject(u)
    BY <1>6, <2>1, <2>3 DEF RunIsActive, Tell, ToInject
  <2>4. ASSUME listeners[t] = 0, at[c] # "over" PROVE FewInjections(t)'
    <3>1. /\ t \in open /\ c \in clicked[t] /\ request[c] = "ask" /\ Waits(c)
          /\ said[c] = "nothing"
      BY <1>6, <2>4 DEF RunIsActive
    <3>2. ToInject(t)' \subseteq Forgotten(t) \cup {c}
      BY <1>6, <2>1, <3>1 DEF RunIsActive, Tell, ToInject, Forgotten, OneWaiting
    <3>3. /\ Forgotten(t) \in SUBSET Clicks /\ Forgotten(t)' \in SUBSET Clicks
          /\ ToInject(t)' \in SUBSET (Forgotten(t) \cup {c})
          /\ Forgotten(t) \cup {c} \in SUBSET Clicks
      BY <3>2 DEF ToInject, Forgotten
    <3>4. /\ Cardinality(ToInject(t)') <= Cardinality(Forgotten(t)) + 1
          /\ Cardinality(Forgotten(t)') <= Cardinality(Forgotten(t))
      <4>1. Cardinality(ToInject(t)') <= Cardinality(Forgotten(t) \cup {c})
        BY ONLY <3>3, FewerClicks
      <4>2. Cardinality(Forgotten(t) \cup {c}) <= Cardinality(Forgotten(t)) + 1
        BY ONLY <3>3, OneClickMore
      <4>3. Cardinality(Forgotten(t)') <= Cardinality(Forgotten(t))
        BY ONLY <3>3, <2>2, FewerClicks
      <4>4. /\ Cardinality(Forgotten(t)) \in Nat /\ Cardinality(ToInject(t)') \in Nat
            /\ Cardinality(Forgotten(t) \cup {c}) \in Nat
        BY ONLY <3>3, ClicksFinite
      <4>. QED BY ONLY <4>1, <4>2, <4>3, <4>4
    <3>5. /\ Cardinality(ToInject(t)') \in Nat /\ Cardinality(Forgotten(t)') \in Nat
          /\ Cardinality(Forgotten(t)) \in Nat /\ restarts \in Nat
      BY <3>3, ClicksFinite, ActivationAssumption
    <3>. QED BY <2>1, <2>4, <3>1, <3>4, <3>5 DEF FewInjections, InjectionsInv
  <2>5. listeners[t] > 0 \/ listeners[t] = 0
    OBVIOUS
  <2>. QED BY <2>1, <2>2, <2>3, <2>4, <2>5, NoMoreInjections DEF InjectionsInv
<1>7. ASSUME NEW t \in Tabs, NEW c \in Clicks, RunInjection(t, c)
      PROVE  InjectionsInv'
  <2>1. /\ UNCHANGED <<clicked, at, open, restarts>>
        /\ listeners' = [listeners EXCEPT ![t] = Listen(t)]
        /\ loads' = [loads EXCEPT ![t] = @ + 1]
        /\ t \in open /\ c \in clicked[t] /\ request[c] = "inject"
    BY <1>7 DEF RunInjection, workerVars
  <2>2. /\ \A u \in Tabs : Forgotten(u)' \subseteq Forgotten(u)
        /\ \A u \in Tabs : ToInject(u)' \subseteq ToInject(u)
        /\ ToInject(t)' \subseteq ToInject(t) \ {c} /\ c \in ToInject(t)
    BY <1>7, <2>1 DEF RunInjection, Tell, ToInject, Forgotten
  <2>3. FewInjections(t)'
    <3>1. /\ ToInject(t) \in SUBSET Clicks /\ ToInject(t) \ {c} \in SUBSET Clicks
          /\ ToInject(t)' \in SUBSET (ToInject(t) \ {c})
          /\ Forgotten(t) \in SUBSET Clicks /\ Forgotten(t)' \in SUBSET Forgotten(t)
      BY <2>2 DEF ToInject, Forgotten
    <3>2. /\ Cardinality(ToInject(t)') <= Cardinality(ToInject(t)) - 1
          /\ Cardinality(Forgotten(t)') <= Cardinality(Forgotten(t))
      <4>1. Cardinality(ToInject(t) \ {c}) = Cardinality(ToInject(t)) - 1
        BY ONLY <2>2, <3>1, OneClickLess
      <4>2. Cardinality(ToInject(t)') <= Cardinality(ToInject(t) \ {c})
        BY ONLY <3>1, FewerClicks
      <4>3. Cardinality(Forgotten(t)') <= Cardinality(Forgotten(t))
        BY ONLY <3>1, FewerClicks
      <4>. QED BY ONLY <4>1, <4>2, <4>3
    <3>3. /\ Cardinality(ToInject(t)) \in Nat /\ Cardinality(ToInject(t)') \in Nat
          /\ Cardinality(Forgotten(t)) \in Nat /\ Cardinality(Forgotten(t)') \in Nat
          /\ restarts \in Nat
      BY <3>1, ClicksFinite, ActivationAssumption
    <3>4. /\ loads[t] \in Nat /\ loads'[t] = loads[t] + 1 /\ listeners'[t] = 1
      BY <2>1 DEF Listen, InjectionsInv, FewInjections
    <3>. QED BY <2>1, <3>2, <3>3, <3>4 DEF InjectionsInv, FewInjections
  <2>. QED BY <2>1, <2>2, <2>3, NoMoreInjections DEF InjectionsInv
<1>8. CASE WorkerStops
  <2>1. /\ UNCHANGED <<clicked, request, open, listeners, loads>>
        /\ restarts' = restarts + 1
    BY <1>8 DEF WorkerStops, pageVars
  <2>2. ASSUME NEW t \in Tabs PROVE FewInjections(t)'
    <3>1. /\ ToInject(t) \in SUBSET Clicks /\ ToInject(t)' \in SUBSET ToInject(t)
          /\ Forgotten(t) \in SUBSET Clicks /\ Forgotten(t)' \in SUBSET Clicks
      BY <1>8 DEF WorkerStops, ToInject, Forgotten
    <3>2. ASSUME t \in open
          PROVE  Cardinality(Forgotten(t)') <= Cardinality(Forgotten(t)) + 1
      <4>1. CASE \E c \in clicked[t] : Waits(c)
        <5>1. PICK c \in clicked[t] : Waits(c)
          BY <4>1
        <5>2. Forgotten(t)' \in SUBSET (Forgotten(t) \cup {c})
          BY <1>8, <3>2, <5>1 DEF WorkerStops, ToInject, Forgotten, OneWaiting
        <5>3. c \in Clicks /\ Forgotten(t) \cup {c} \in SUBSET Clicks
          BY <3>1
        <5>4. Cardinality(Forgotten(t)') <= Cardinality(Forgotten(t) \cup {c})
          BY ONLY <5>2, <5>3, FewerClicks
        <5>5. Cardinality(Forgotten(t) \cup {c}) <= Cardinality(Forgotten(t)) + 1
          BY ONLY <3>1, <5>3, OneClickMore
        <5>6. /\ Cardinality(Forgotten(t)') \in Nat /\ Cardinality(Forgotten(t)) \in Nat
              /\ Cardinality(Forgotten(t) \cup {c}) \in Nat
          BY ONLY <3>1, <5>3, ClicksFinite
        <5>. QED BY ONLY <5>4, <5>5, <5>6
      <4>2. CASE ~\E c \in clicked[t] : Waits(c)
        <5>1. Forgotten(t)' \in SUBSET Forgotten(t)
          BY <1>8, <4>2 DEF WorkerStops, ToInject, Forgotten
        <5>2. Cardinality(Forgotten(t)') <= Cardinality(Forgotten(t))
          BY ONLY <3>1, <5>1, FewerClicks
        <5>3. /\ Cardinality(Forgotten(t)') \in Nat /\ Cardinality(Forgotten(t)) \in Nat
          BY ONLY <3>1, ClicksFinite
        <5>. QED BY ONLY <5>2, <5>3
      <4>. QED BY <4>1, <4>2
    <3>3. Cardinality(ToInject(t)') <= Cardinality(ToInject(t))
      BY ONLY <3>1, FewerClicks
    <3>4. /\ Cardinality(ToInject(t)) \in Nat /\ Cardinality(ToInject(t)') \in Nat
          /\ Cardinality(Forgotten(t)) \in Nat /\ Cardinality(Forgotten(t)') \in Nat
          /\ restarts \in Nat /\ loads[t] \in Nat
      <4>1. ToInject(t)' \in SUBSET Clicks
        BY <3>1
      <4>. QED BY <3>1, <4>1, ClicksFinite, ActivationAssumption
    <3>. QED BY <2>1, <3>2, <3>3, <3>4 DEF InjectionsInv, FewInjections
  <2>. QED BY <2>2 DEF InjectionsInv
<1>9. \/ /\ UNCHANGED <<clicked, at, request, said, listeners, loads, restarts>>
         /\ open' \subseteq open
      \/ \E t \in Tabs : Navigate(t)
      \/ \E t \in Tabs, c \in Clicks :
            ActivateTab(t, c) \/ RunScript(t, c) \/ HearAnswer(t, c)
      \/ WorkerStops
  BY [Next]_vars
  DEF Next, vars, workerVars, requestVars, pageVars, eventVars, ClickIgnored,
      HearLoading, HearRemoved, LoadsInPlace, TabCloses
<1>. QED
  BY <1>1, <1>2, <1>3, <1>4, <1>5, <1>6, <1>7, <1>8, <1>9 DEF RunScript

(* Every step preserves the whole invariant.                               *)
LEMMA ActivationStep == ActivationInv /\ [Next]_vars => ActivationInv'
<1>. SUFFICES ASSUME ActivationInv, [Next]_vars PROVE ActivationInv'
  OBVIOUS
<1>1. ActivationTypeOK'
  BY TypeStep
<1>2. ClicksInv' /\ OneWaiting' /\ InjectionsInv'
  BY <1>1, ClicksStep, WaitingStep, InjectionsStep
<1>. QED BY <1>1, <1>2 DEF ActivationInv

(* The inductive invariant holds in every reachable state.                 *)
THEOREM ActivationInvariance == Spec => []ActivationInv
  BY ActivationInit, ActivationStep, PTL DEF Spec
-----------------------------------------------------------------------------
(* Type correctness of the background worker, for any tabs and bounds.     *)
THEOREM WorkerTypes == Spec => []ActivationTypeOK
<1>1. ActivationInv => ActivationTypeOK
  BY DEF ActivationInv
<1>. QED BY <1>1, ActivationInvariance, PTL

(* interceptor.js: no document ever has two click listeners, however often *)
(* the worker is stopped while it injects.                                 *)
THEOREM ListensOnce == Spec => []OneListener
<1>1. ActivationInv => OneListener
  BY DEF ActivationInv, InjectionsInv, FewInjections, OneListener
<1>. QED BY <1>1, ActivationInvariance, PTL

(* background.js: the content scripts run in a document at most once more  *)
(* than the worker was stopped.                                            *)
THEOREM LoadsAreBounded == Spec => []LoadedOnce
<1>1. ActivationInv => LoadedOnce
  BY DEF ActivationInv, InjectionsInv, FewInjections, LoadedOnce
<1>. QED BY <1>1, ActivationInvariance, PTL
============================================================================
