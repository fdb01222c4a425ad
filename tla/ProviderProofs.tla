--------------------------- MODULE ProviderProofs ---------------------------
(***************************************************************************)
(* Theorems about Provider, for any number of slots, attempts, results and *)
(* launches, and for any failures.                                         *)
(***************************************************************************)
EXTENDS Provider, FiniteSetTheorems, FunctionTheorems, TLAPS

(* What a check holds at each await, and what main has released.           *)
Values ==
    /\ \A c \in Checks :
          /\ pc[c] = "idle" => at[c] = None
          /\ pc[c] = "launching" => at[c] # None
          /\ pc[c] = "searchWait" => tries[c] < Attempts
          /\ pc[c] = "productWait" => again[c] < Attempts
          /\ pc[c] \in {"product", "productOpen", "productWait"} => left[c] # 0
          /\ phase # "up" => pc[c] \in {"idle", "cancelled"}
    /\ phase \in {"stopping", "down"} => handle = None
    /\ phase = "down" => driver = None

Control == TypeOK /\ Values

------------------------------------------------------------------------------
LEMMA ControlInit == Init => Control
  BY ProviderAssumption DEF Init, Control, TypeOK, Values, Steps, None

LEMMA FinishControl ==
    ASSUME Control, NEW c \in Checks, Finish(c)
    PROVE  /\ pc' \in [Checks -> Steps] /\ at' \in [Checks -> 0 .. launches]
           /\ tries' \in [Checks -> 0 .. Attempts] /\ again' \in [Checks -> 0 .. Attempts]
           /\ left' \in [Checks -> 0 .. MaxCards]
           /\ pc'[c] = "idle" /\ at'[c] = None
           /\ \A d \in Checks \ {c} : /\ pc'[d] = pc[d] /\ at'[d] = at[d] /\ tries'[d] = tries[d]
                                      /\ again'[d] = again[d] /\ left'[d] = left[d]
  BY ProviderAssumption DEF Control, TypeOK, Finish, Steps, None

LEMMA AskControl ==
    ASSUME Control, NEW c \in Checks, NEW step \in Steps, Ask(c, step)
    PROVE  /\ pc' \in [Checks -> Steps] /\ at' \in [Checks -> 0 .. launches]
           /\ pc'[c] = step /\ at'[c] = handle
           /\ \A d \in Checks \ {c} : pc'[d] = pc[d] /\ at'[d] = at[d]
  BY DEF Control, TypeOK, Ask

LEMMA LaunchIsNumbered ==
    ASSUME Control, NEW c \in Checks, pc[c] = "launching"
    PROVE  at[c] \in 1 .. launches
  <1>1. at[c] \in 0 .. launches /\ at[c] # 0 /\ launches \in Nat
    BY ProviderAssumption DEF Control, TypeOK, Values, None
  <1> QED BY <1>1

LEMMA PagesShrink ==
    ASSUME TypeOK, NEW rest \in SUBSET pages
    PROVE  rest \subseteq [check : Checks, kind : {"home", "search", "product"}, browser : browsers]
  BY DEF TypeOK

LEMMA PagesStay ==
    ASSUME TypeOK, browsers \subseteq browsers', UNCHANGED pages
    PROVE  pages' \subseteq [check : Checks, kind : {"home", "search", "product"}, browser : browsers']
  <1> SUFFICES ASSUME NEW p \in pages
               PROVE  p \in [check : Checks, kind : {"home", "search", "product"}, browser : browsers']
    OBVIOUS
  <1>1. p \in [check : Checks, kind : {"home", "search", "product"}, browser : browsers]
    BY DEF TypeOK
  <1> QED BY <1>1

LEMMA GoneControl ==
    ASSUME TypeOK, NEW b, Gone(b), UNCHANGED launches
    PROVE  /\ browsers' \subseteq browsers /\ browsers' \subseteq 1 .. launches'
           /\ pages' \subseteq [check : Checks, kind : {"home", "search", "product"}, browser : browsers']
  BY DEF TypeOK, Gone

------------------------------------------------------------------------------
LEMMA ControlCheckStep ==
    ASSUME Control, NEW c \in Checks, CheckStep(c)
    PROVE  Control'
  <1> USE ProviderAssumption DEF Control, None
  <1>1. CASE DriverStarts(c)
    BY <1>1 DEF DriverStarts, TypeOK, Values, Steps, counts
  <1>2. CASE BrowserLaunches(c)
    <2>0. browsers \subseteq browsers' /\ UNCHANGED pages /\ TypeOK
      BY <1>2 DEF BrowserLaunches
    <2>1. /\ pages' \subseteq [check : Checks, kind : {"home", "search", "product"}, browser : browsers']
          /\ browsers' \subseteq 1 .. launches
      <3>1. browsers' \subseteq 1 .. launches
        <4>1. browsers \subseteq 1 .. launches /\ browsers' = browsers \union {at[c]}
          BY <1>2 DEF BrowserLaunches, TypeOK
        <4> QED BY <1>2, <4>1, LaunchIsNumbered DEF BrowserLaunches
      <3> QED BY <2>0, <3>1, PagesStay
    <2>2. handle' \in 0 .. launches' /\ driver' \in 0 .. launches'
      BY <1>2 DEF BrowserLaunches, TypeOK
    <2>3. /\ pc' \in [Checks -> Steps] /\ UNCHANGED <<pages, launches, at, tries, again, left, phase>>
      BY <1>2 DEF BrowserLaunches, TypeOK, Steps, counts
    <2>5. TypeOK'
      <3>1. {handle', driver'} \subseteq 0 .. launches' /\ launches' \in 0 .. MaxLaunches
        BY <2>2, <2>3 DEF TypeOK
      <3>2. browsers' \subseteq 1 .. launches' /\ phase' \in {"up", "closing", "stopping", "down"}
        BY <2>1, <2>3 DEF TypeOK
      <3>4. /\ at' \in [Checks -> 0 .. launches'] /\ tries' \in [Checks -> 0 .. Attempts]
            /\ again' \in [Checks -> 0 .. Attempts] /\ left' \in [Checks -> 0 .. MaxCards]
        BY <2>3 DEF TypeOK
      <3> QED BY <2>1, <2>3, <3>1, <3>2, <3>4, Zenon DEF TypeOK
    <2>4. Values'
      BY <1>2 DEF BrowserLaunches, TypeOK, Values, Steps, counts
    <2> QED BY <2>4, <2>5
  <1>3. CASE LaunchFails(c)
    BY <1>3, FinishControl DEF LaunchFails, launching, TypeOK, Values
  <1>4. ASSUME NEW step, NEW opened \in Steps, NEW kind \in {"home", "search", "product"},
               PageOpens(c, step, opened, kind),
               step # "cancelled", step # "idle",
               opened \notin {"idle", "launching", "searchWait", "productWait"},
               opened = "productOpen" => step = "product", opened # "product"
        PROVE  Control'
    BY <1>4 DEF PageOpens, Open, launching, counts, TypeOK, Values
  <1>5. CASE HomeOpens(c)
    BY <1>4, <1>5 DEF HomeOpens, Steps
  <1>6. CASE SearchOpens(c)
    BY <1>4, <1>6 DEF SearchOpens, Steps
  <1>7. CASE ProductOpens(c)
    BY <1>4, <1>7 DEF ProductOpens, Steps
  <1>8. CASE HomeDone(c)
    <2>1. AfterFinally(c, {"home"}) \in SUBSET pages
      BY DEF AfterFinally
    <2>2. Ask(c, "search") /\ "search" \in Steps
      BY <1>8 DEF HomeDone, Steps
    <2> QED BY <1>8, <2>1, <2>2, AskControl, PagesShrink DEF HomeDone, launching, TypeOK, Values
  <1>9. CASE HomeFails(c)
    <2>1. AfterFinally(c, {"home"}) \in SUBSET pages
      BY DEF AfterFinally
    <2> QED BY <1>9, <2>1, FinishControl, PagesShrink DEF HomeFails, launching, TypeOK, Values
  <1>10. ASSUME NEW n \in 0 .. MaxCards, Results(c, n), UNCHANGED launching,
                pc[c] \notin {"idle", "cancelled"}
         PROVE  Control'
    <2>1. /\ AfterFinally(c, {"search", "product"}) \in SUBSET pages
          /\ AfterFinally(c, {"product"}) \in SUBSET pages
      BY DEF AfterFinally
    <2>2. CASE n = 0
      BY <1>10, <2>1, <2>2, FinishControl, PagesShrink DEF Results, launching, TypeOK, Values
    <2>3. CASE n # 0
      <3>1. Ask(c, "product") /\ "product" \in Steps
        BY <1>10, <2>3 DEF Results, Steps
      <3> QED BY <1>10, <2>1, <2>3, <3>1, AskControl, PagesShrink DEF Results, launching, TypeOK, Values
    <2> QED BY <2>2, <2>3
  <1>11. CASE SearchLoads(c)
    BY <1>10, <1>11 DEF SearchLoads
  <1>12. CASE ProductLoads(c)
    <2>1. left[c] - 1 \in 0 .. MaxCards
      BY <1>12 DEF ProductLoads, TypeOK, Values
    <2> QED BY <1>10, <1>12, <2>1 DEF ProductLoads
  <1>13. ASSUME SearchRaises(c), UNCHANGED launching, pc[c] \notin {"idle", "cancelled"}
         PROVE  Control'
    <2>1. AfterFinally(c, {"search", "product"}) \in SUBSET pages
      BY DEF AfterFinally
    <2>2. CASE MayRetry(tries[c])
      BY <1>13, <2>1, <2>2, PagesShrink DEF SearchRaises, MayRetry, launching, TypeOK, Values, Steps
    <2>3. CASE ~ MayRetry(tries[c])
      BY <1>13, <2>1, <2>3, FinishControl, PagesShrink DEF SearchRaises, launching, TypeOK, Values
    <2> QED BY <2>2, <2>3
  <1>14. CASE SearchFails(c)
    BY <1>13, <1>14 DEF SearchFails
  <1>15. CASE SearchAgain(c)
    <2>1. Ask(c, "search") /\ "search" \in Steps
      BY <1>15 DEF SearchAgain, Steps
    <2> QED BY <1>15, <2>1, AskControl DEF SearchAgain, NextAttempt, launching, TypeOK, Values
  <1>16. CASE ProductFails(c)
    <2>1. CASE MayRetry(again[c])
      <3>1. AfterFinally(c, {"product"}) \in SUBSET pages
        BY DEF AfterFinally
      <3> QED BY <1>16, <2>1, <3>1, PagesShrink
              DEF ProductFails, MayRetry, launching, counts, TypeOK, Values, Steps
    <2>2. CASE ~ MayRetry(again[c])
      BY <1>13, <1>16, <2>2 DEF ProductFails
    <2> QED BY <2>1, <2>2
  <1>17. CASE ProductAgain(c)
    <2>1. Ask(c, "product") /\ "product" \in Steps
      BY <1>17 DEF ProductAgain, Steps
    <2> QED BY <1>17, <2>1, AskControl DEF ProductAgain, NextAttempt, launching, TypeOK, Values
  <1>18. CASE Unwind(c)
    <2>1. AfterFinally(c, {"home", "search", "product"}) \in SUBSET pages
      BY DEF AfterFinally
    <2> QED BY <1>18, <2>1, FinishControl, PagesShrink DEF Unwind, launching, TypeOK, Values
  <1> QED BY <1>1, <1>2, <1>3, <1>5, <1>6, <1>7, <1>8, <1>9, <1>11, <1>12, <1>14, <1>15, <1>16,
             <1>17, <1>18 DEF CheckStep

LEMMA ControlStep == Control /\ [Next]_vars => Control'
  <1> SUFFICES ASSUME Control, [Next]_vars PROVE Control'
    OBVIOUS
  <1> USE ProviderAssumption DEF Control, None
  <1>1. ASSUME NEW c \in Checks, Call(c) PROVE Control'
    <2>1. CASE NeedsBrowser
      BY <1>1, <2>1 DEF Call, launching, counts, TypeOK, Values, Steps
    <2>2. CASE ~ NeedsBrowser
      <3>1. Ask(c, "home") /\ "home" \in Steps
        BY <1>1, <2>2 DEF Call, Steps
      <3> QED BY <1>1, <2>2, <3>1, AskControl DEF Call, launching, counts, TypeOK, Values
    <2> QED BY <2>1, <2>2
  <1>2. ASSUME NEW c \in Checks, CheckStep(c) PROVE Control'
    BY <1>2, ControlCheckStep
  <1>3. ASSUME NEW b \in browsers, BrowserDies(b) PROVE Control'
    BY <1>3, GoneControl DEF BrowserDies, counts, TypeOK, Values
  <1>4. CASE Stop
    <2>1. browsers' \subseteq 1 .. launches
      <3>1. {at[c] : c \in {d \in Checks : pc[d] = "launching"}} \subseteq 1 .. launches
        BY LaunchIsNumbered
      <3>2. browsers \subseteq 1 .. launches
        BY DEF TypeOK
      <3> QED BY <1>4, <3>1, <3>2 DEF Stop
    <2>2. pages' \subseteq [check : Checks, kind : {"home", "search", "product"}, browser : browsers']
      <3>1. browsers \subseteq browsers' /\ UNCHANGED pages /\ TypeOK
        BY <1>4 DEF Stop
      <3> QED BY <3>1, PagesStay
    <2>3. pc' \in [Checks -> Steps]
      BY <1>4 DEF Stop, TypeOK, Steps
    <2>4. UNCHANGED <<handle, driver, launches, pages, at, tries, again, left>> /\ phase' = "closing"
      BY <1>4 DEF Stop, counts
    <2>5. TypeOK'
      <3>1. {handle', driver'} \subseteq 0 .. launches' /\ launches' \in 0 .. MaxLaunches
        BY <2>4 DEF TypeOK
      <3>2. browsers' \subseteq 1 .. launches' /\ phase' \in {"up", "closing", "stopping", "down"}
        BY <2>1, <2>4 DEF TypeOK
      <3>4. /\ at' \in [Checks -> 0 .. launches'] /\ tries' \in [Checks -> 0 .. Attempts]
            /\ again' \in [Checks -> 0 .. Attempts] /\ left' \in [Checks -> 0 .. MaxCards]
        BY <2>4 DEF TypeOK
      <3> QED BY <2>2, <2>3, <3>1, <3>2, <3>4, Zenon DEF TypeOK
    <2>6. Values'
      BY <1>4 DEF Stop, counts, TypeOK, Values, Steps
    <2> QED BY <2>5, <2>6
  <1>5. CASE CloseBrowser
    BY <1>5, GoneControl DEF CloseBrowser, counts, TypeOK, Values
  <1>6. CASE StopDriver
    BY <1>6, GoneControl DEF StopDriver, counts, TypeOK, Values
  <1>7. CASE Restart
    BY <1>7 DEF Restart, counts, TypeOK, Values
  <1>8. CASE UNCHANGED vars
    BY <1>8 DEF vars, launching, counts, TypeOK, Values
  <1> QED BY <1>1, <1>2, <1>3, <1>4, <1>5, <1>6, <1>7, <1>8 DEF Next

(* Whatever fails and dies at any await, every value stays in its type: no *)
(* retry is counted past its limit, no result is read twice, and no page   *)
(* outlives its browser.                                                   *)
THEOREM ProviderTypeCorrect == Spec => []TypeOK
  <1>1. Init => Control
    BY ControlInit
  <1>2. Control /\ [Next]_vars => Control'
    BY ControlStep
  <1>3. Control => TypeOK
    BY DEF Control
  <1> QED BY <1>1, <1>2, <1>3, PTL DEF Spec
------------------------------------------------------------------------------
(* How many browsers there are, and how many more the checks may bring up. *)
Starting == {c \in Checks : pc[c] \in {"starting", "launching"}}
Launching == {c \in Checks : pc[c] = "launching"}
Full == Checks # {} /\ Cardinality(browsers) = Cardinality(Checks)

(* The browser the provider holds keeps its place also when it is dead:    *)
(* then a full house at the time of a stop has a browser that close finds. *)
Slots ==
    /\ phase = "up" /\ handle = None => browsers = {}
    /\ phase = "up" /\ handle # None =>
          Cardinality(browsers \union {handle}) + Cardinality(Starting) <= Cardinality(Checks)
    /\ phase = "up" /\ Checks # {} /\ Launching = Checks => \E c \in Checks : at[c] = driver
    /\ phase # "up" => Cardinality(browsers) <= Cardinality(Checks)
    /\ phase = "closing" /\ Full => handle \in browsers \/ driver \in browsers
    /\ phase = "stopping" /\ Full => driver \in browsers
    /\ phase = "down" => ~ Full

LEMMA FiniteBrowsers ==
    ASSUME TypeOK
    PROVE  IsFiniteSet(browsers) /\ Cardinality(browsers) \in Nat
  <1>1. launches \in Nat
    BY ProviderAssumption DEF TypeOK
  <1>2. IsFiniteSet(1 .. launches)
    BY <1>1, FS_Interval
  <1>3. browsers \in SUBSET (1 .. launches)
    BY DEF TypeOK
  <1> QED BY <1>2, <1>3, FS_Subset, FS_CardinalityType

LEMMA FiniteChecks ==
    ASSUME NEW S \in SUBSET Checks
    PROVE  /\ IsFiniteSet(S) /\ Cardinality(S) \in Nat /\ Cardinality(Checks) \in Nat
           /\ Cardinality(S) <= Cardinality(Checks)
           /\ Cardinality(S) = Cardinality(Checks) => S = Checks
  BY ProviderAssumption, FS_Subset, FS_CardinalityType DEF ProviderAssumption

(* Slots only depends on the browsers, the launches and who is launching.  *)
LEMMA SlotsStay ==
    ASSUME Slots, UNCHANGED launching, Starting' = Starting,
           Launching' \subseteq Launching, \A c \in Launching' : at'[c] = at[c]
    PROVE  Slots'
  <1>1. Launching \subseteq Checks
    BY DEF Launching
  <1>2. /\ UNCHANGED <<handle, driver, browsers, phase>>
        /\ Full' = Full
    BY DEF launching, Full
  <1>3. ASSUME phase = "up", Checks # {}, Launching' = Checks PROVE \E c \in Checks : at'[c] = driver'
    BY <1>1, <1>2, <1>3 DEF Slots
  <1> QED BY <1>2, <1>3 DEF Slots

LEMMA SlotsInit == Init => Slots
  BY FS_EmptySet DEF Init, Slots, Launching, Full, None

(* A step of a check.                                                      *)
LEMMA SlotsCheckStep ==
    ASSUME Control, Slots, NEW c \in Checks, CheckStep(c)
    PROVE  Slots'
  <1> USE DEF Control
  <1> DEFINE others == Checks \ {c}
  <1>0. \A d \in others : pc'[d] = pc[d] /\ at'[d] = at[d]
    BY DEF CheckStep, DriverStarts, BrowserLaunches, LaunchFails, HomeOpens, HomeDone, HomeFails,
           SearchOpens, SearchLoads, SearchFails, SearchAgain, ProductOpens, ProductLoads,
           ProductFails, ProductAgain, Unwind, PageOpens, Results, SearchRaises, Finish, Ask,
           TypeOK, counts
  <1>1. CASE DriverStarts(c)
    <2>1. Starting' = Starting /\ pc'[c] = "launching" /\ at'[c] = driver'
      BY <1>1 DEF DriverStarts, Starting, TypeOK
    <2>2. UNCHANGED <<handle, browsers, phase>> /\ phase = "up"
      BY <1>1 DEF DriverStarts, Values
    <2> QED BY <2>1, <2>2 DEF Slots
  <1>2. CASE BrowserLaunches(c)
    <2> DEFINE before == browsers \union {handle}
    <2>1. /\ pc[c] = "launching" /\ pc'[c] = "home" /\ phase = "up" /\ phase' = "up"
          /\ browsers' = browsers \union {at[c]} /\ handle' = at[c] /\ handle' # None
      BY <1>2 DEF BrowserLaunches, TypeOK, Values
    <2>2. Starting' = Starting \ {c} /\ c \in Starting /\ Launching' # Checks
      BY <1>0, <2>1 DEF Starting, Launching
    <2>3. /\ Cardinality(Starting') = Cardinality(Starting) - 1
          /\ Cardinality(Starting) \in Nat /\ Cardinality(Starting) <= Cardinality(Checks)
          /\ Cardinality(Checks) \in Nat
      <3>1. Starting \in SUBSET Checks
        BY DEF Starting
      <3> QED BY <2>2, <3>1, FiniteChecks, FS_RemoveElement
    <2>4. browsers' \union {handle'} = browsers \union {at[c]}
      BY <2>1
    <2>5. Cardinality(browsers \union {at[c]}) <= Cardinality(browsers) + 1
      <3>1. IsFiniteSet(browsers) /\ Cardinality(browsers) \in Nat
        BY FiniteBrowsers
      <3>2. Cardinality(browsers \union {at[c]})
              = IF at[c] \in browsers THEN Cardinality(browsers) ELSE Cardinality(browsers) + 1
        BY <3>1, FS_AddElement
      <3> QED BY <3>1, <3>2
    <2>6. Cardinality(browsers) \in Nat /\ Cardinality(browsers \union {at[c]}) \in Nat
      BY FiniteBrowsers, FS_AddElement, FS_CardinalityType
    <2>7. Cardinality(browsers) + Cardinality(Starting) <= Cardinality(Checks)
      <3>1. CASE handle = None
        <4>1. Cardinality(browsers) = 0
          BY <2>1, <3>1, FS_EmptySet DEF Slots
        <4> QED BY <2>3, <4>1
      <3>2. CASE handle # None
        <4>1. Cardinality(browsers) <= Cardinality(before) /\ Cardinality(before) \in Nat
          <5>1. IsFiniteSet(before) /\ browsers \in SUBSET before
            BY FiniteBrowsers, FS_AddElement
          <5> QED BY <5>1, FS_Subset, FS_CardinalityType
        <4>2. Cardinality(before) + Cardinality(Starting) <= Cardinality(Checks)
          BY <2>1, <3>2 DEF Slots
        <4> QED BY <2>3, <2>6, <4>1, <4>2
      <3> QED BY <3>1, <3>2
    <2>8. Cardinality(browsers' \union {handle'}) + Cardinality(Starting') <= Cardinality(Checks)
      BY <2>3, <2>4, <2>5, <2>6, <2>7
    <2> QED BY <2>1, <2>2, <2>8 DEF Slots
  <1>3. CASE LaunchFails(c)
    <2>1. pc[c] \in {"starting", "launching"} /\ pc'[c] = "idle" /\ phase = "up"
      BY <1>3, FinishControl DEF LaunchFails, Values
    <2>2. Starting' \in SUBSET Starting /\ Launching' # Checks
      BY <1>0, <2>1 DEF Starting, Launching
    <2>3. UNCHANGED <<handle, browsers, phase>>
      BY <1>3 DEF LaunchFails, launching
    <2>4. /\ Cardinality(Starting') <= Cardinality(Starting)
          /\ Cardinality(Starting) \in Nat /\ Cardinality(Starting') \in Nat /\ Cardinality(Checks) \in Nat
      <3>1. Starting \in SUBSET Checks /\ Starting' \in SUBSET Checks
        BY DEF Starting
      <3> QED BY <2>2, <3>1, FiniteChecks, FS_Subset
    <2>5. Cardinality(browsers \union {handle}) \in Nat
      BY FiniteBrowsers, FS_AddElement, FS_CardinalityType
    <2> QED BY <2>1, <2>2, <2>3, <2>4, <2>5 DEF Slots
  <1>4. ASSUME UNCHANGED launching, pc[c] \notin {"starting", "launching"},
               pc'[c] \notin {"starting", "launching"}
        PROVE  Slots'
    <2>1. Starting' = Starting /\ Launching' = Launching /\ c \notin Launching'
      BY <1>0, <1>4 DEF Starting, Launching
    <2> QED BY <1>0, <1>4, <2>1, SlotsStay DEF Launching
  <1>5. CASE HomeOpens(c) \/ HomeDone(c) \/ HomeFails(c) \/ Unwind(c)
    BY <1>4, <1>5 DEF HomeOpens, HomeDone, HomeFails, Unwind, PageOpens, Ask, Finish, TypeOK
  <1>6. CASE SearchOpens(c) \/ SearchLoads(c) \/ SearchAgain(c) \/ SearchFails(c)
    BY <1>4, <1>6 DEF SearchOpens, SearchLoads, SearchAgain, SearchFails, PageOpens, Ask, Finish,
                      Results, SearchRaises, TypeOK
  <1>7. CASE ProductOpens(c) \/ ProductLoads(c) \/ ProductAgain(c) \/ ProductFails(c)
    BY <1>4, <1>7 DEF ProductOpens, ProductLoads, ProductAgain, ProductFails, PageOpens, Ask,
                      Finish, Results, SearchRaises, TypeOK
  <1> QED BY <1>1, <1>2, <1>3, <1>5, <1>6, <1>7 DEF CheckStep

(* A browser that is gone makes room.                                      *)
LEMMA SlotsGone ==
    ASSUME Control, NEW b, Gone(b)
    PROVE  /\ Cardinality(browsers') \in Nat /\ Cardinality(browsers) \in Nat
           /\ Cardinality(browsers') <= Cardinality(browsers)
           /\ b \in browsers => Cardinality(browsers') = Cardinality(browsers) - 1
           /\ b \notin browsers => browsers' = browsers
  <1>1. IsFiniteSet(browsers) /\ Cardinality(browsers) \in Nat
    BY FiniteBrowsers DEF Control
  <1>2. browsers' = browsers \ {b}
    BY DEF Gone
  <1>3. b \notin browsers => browsers' = browsers
    BY <1>2
  <1>4. b \in browsers => /\ Cardinality(browsers') = Cardinality(browsers) - 1
                          /\ Cardinality(browsers') \in Nat
    BY <1>1, <1>2, FS_RemoveElement, FS_CardinalityType
  <1> QED BY <1>1, <1>3, <1>4

LEMMA SlotsStop ==
    ASSUME Control, Slots, Stop
    PROVE  Slots'
  <1> USE DEF Control
  <1> DEFINE ats == {at[c] : c \in Launching}
             held == browsers \union {handle}
  <1>1. PICK up \in SUBSET ats : browsers' = browsers \union up
    BY DEF Stop, Launching
  <1>2. phase = "up" /\ phase' = "closing" /\ UNCHANGED <<handle, driver>>
    BY DEF Stop
  <1>3. /\ Launching \in SUBSET Checks /\ Starting \in SUBSET Checks
        /\ Launching \in SUBSET Starting
    BY DEF Launching, Starting
  <1>4. /\ IsFiniteSet(Launching) /\ Cardinality(Launching) \in Nat
        /\ Cardinality(Starting) \in Nat /\ Cardinality(Checks) \in Nat
        /\ Cardinality(Launching) <= Cardinality(Starting)
        /\ Cardinality(Launching) <= Cardinality(Checks)
        /\ Cardinality(Launching) = Cardinality(Checks) => Launching = Checks
    BY <1>3, FiniteChecks, FS_Subset
  <1>5. IsFiniteSet(ats) /\ Cardinality(ats) <= Cardinality(Launching) /\ Cardinality(ats) \in Nat
    <2> DEFINE f == [c \in Launching |-> at[c]]
    <2>1. f \in [Launching -> ats] /\ \A t \in ats : \E c \in Launching : f[c] = t
      OBVIOUS
    <2>2. f \in Surjection(Launching, ats)
      <3> HIDE DEF f, ats
      <3> QED BY <2>1, Fun_IsSurj
    <2>3. IsFiniteSet(ats) /\ Cardinality(ats) <= Cardinality(Launching)
      <3> HIDE DEF f, ats
      <3> QED BY <1>4, <2>2, FS_Surjection
    <2> QED BY <2>3, FS_CardinalityType
  <1>6. /\ IsFiniteSet(up) /\ Cardinality(up) \in Nat /\ Cardinality(up) <= Cardinality(ats)
        /\ Cardinality(up) = Cardinality(ats) => up = ats
    BY <1>5, FS_Subset, FS_CardinalityType
  <1>7. Cardinality(browsers') <= Cardinality(Checks)
        /\ (Full' => handle \in browsers' \/ driver \in browsers')
    <2>1. CASE handle = None
      <3>1. browsers' = up
        BY <1>1, <1>2, <2>1 DEF Slots
      <3>2. Cardinality(browsers') <= Cardinality(Checks)
        BY <1>4, <1>5, <1>6, <3>1
      <3>3. ASSUME Full' PROVE driver \in browsers'
        <4>1. Checks # {} /\ Cardinality(up) = Cardinality(Checks)
          BY <3>1, <3>3 DEF Full
        <4>2. Launching = Checks /\ up = ats
          BY <1>4, <1>5, <1>6, <4>1
        <4>3. \E c \in Checks : at[c] = driver
          BY <1>2, <4>1, <4>2 DEF Slots
        <4> QED BY <3>1, <4>2, <4>3
      <3> QED BY <3>2, <3>3
    <2>2. CASE handle # None
      <3>1. IsFiniteSet(held) /\ Cardinality(held) \in Nat
        BY FiniteBrowsers, FS_AddElement, FS_CardinalityType
      <3>2. Cardinality(held) + Cardinality(Starting) <= Cardinality(Checks)
        BY <1>2, <2>2 DEF Slots
      <3>3. IsFiniteSet(held \union up) /\ Cardinality(held \union up) <= Cardinality(held) + Cardinality(up)
        <4>1. Cardinality(held \cap up) \in Nat
          BY <3>1, FS_Intersection, FS_CardinalityType
        <4>2. /\ IsFiniteSet(held \union up)
              /\ Cardinality(held \union up) = Cardinality(held) + Cardinality(up) - Cardinality(held \cap up)
          BY <1>6, <3>1, FS_Union
        <4> HIDE DEF held
        <4> QED BY <1>6, <3>1, <4>1, <4>2
      <3>4. Cardinality(held \union up) <= Cardinality(Checks) /\ Cardinality(held \union up) \in Nat
        BY <1>4, <1>5, <1>6, <3>1, <3>2, <3>3, FS_CardinalityType
      <3>5. /\ browsers' \in SUBSET (held \union up)
            /\ handle \in held \union up
        BY <1>1
      <3>6. /\ Cardinality(browsers') <= Cardinality(held \union up)
            /\ Cardinality(browsers') \in Nat
            /\ Cardinality(held \union up) = Cardinality(browsers') => browsers' = held \union up
        BY <3>3, <3>5, FS_Subset, FS_CardinalityType
      <3>7. ASSUME Full' PROVE handle \in browsers'
        <4>1. Cardinality(browsers') = Cardinality(Checks)
          BY <3>7 DEF Full
        <4>2. Cardinality(browsers') = Cardinality(held \union up)
          BY <1>4, <3>4, <3>6, <4>1
        <4> QED BY <3>5, <3>6, <4>2
      <3> QED BY <1>4, <3>4, <3>6, <3>7
    <2> QED BY <2>1, <2>2
  <1> QED BY <1>2, <1>7 DEF Slots

LEMMA SlotsStep == Control /\ Slots /\ [Next]_vars => Slots'
  <1> SUFFICES ASSUME Control, Slots, [Next]_vars PROVE Slots'
    OBVIOUS
  <1> USE DEF Control
  <1>0. Cardinality(Checks) \in Nat /\ Cardinality(browsers) \in Nat
    BY FiniteChecks, FiniteBrowsers
  <1>1. ASSUME NEW c \in Checks, Call(c) PROVE Slots'
    <2>1. CASE handle = None
      <3>1. UNCHANGED launching /\ phase = "up" /\ pc'[c] = "starting"
        BY <1>1, <2>1 DEF Call, NeedsBrowser, TypeOK
      <3> QED BY <2>1, <3>1 DEF Slots, launching, Launching
    <2>2. CASE handle # None
      <3>1. UNCHANGED launching /\ pc[c] = "idle" /\ pc'[c] = "home"
        BY <1>1, <2>2 DEF Call, NeedsBrowser, Ask, TypeOK
      <3>2. \A d \in Checks \ {c} : pc'[d] = pc[d] /\ at'[d] = at[d]
        BY <1>1, <2>2 DEF Call, NeedsBrowser, Ask, TypeOK
      <3>3. Starting' = Starting /\ Launching' = Launching /\ c \notin Launching
        BY <3>1, <3>2 DEF Starting, Launching
      <3> QED BY <3>1, <3>2, <3>3, SlotsStay DEF Launching
    <2> QED BY <2>1, <2>2
  <1>2. ASSUME NEW c \in Checks, CheckStep(c) PROVE Slots'
    BY <1>2, SlotsCheckStep
  <1>3. ASSUME NEW b \in browsers, BrowserDies(b) PROVE Slots'
    <2>1. Gone(b) /\ UNCHANGED <<handle, driver, pc, at, phase>>
      BY <1>3 DEF BrowserDies
    <2>2. Starting' = Starting /\ Launching' = Launching
      BY <2>1 DEF Starting, Launching
    <2>3. Cardinality(browsers') = Cardinality(browsers) - 1
      BY <2>1, SlotsGone
    <2>4. phase # "up" => ~ Full'
      BY <1>0, <2>3 DEF Full, Slots
    <2>5. /\ Cardinality(browsers' \union {handle}) <= Cardinality(browsers \union {handle})
          /\ Cardinality(browsers' \union {handle}) \in Nat
          /\ Cardinality(browsers \union {handle}) \in Nat
      <3>1. IsFiniteSet(browsers \union {handle})
        BY FiniteBrowsers, FS_AddElement
      <3>2. browsers' \union {handle} \in SUBSET (browsers \union {handle})
        BY <2>1 DEF Gone
      <3> QED BY <3>1, <3>2, FS_Subset, FS_CardinalityType
    <2>6. Cardinality(Starting) \in Nat
      BY FiniteChecks DEF Starting
    <2>7. phase = "up" /\ handle # None =>
              Cardinality(browsers' \union {handle'}) + Cardinality(Starting') <= Cardinality(Checks)
      BY <1>0, <2>1, <2>2, <2>5, <2>6 DEF Slots
    <2>8. browsers' \subseteq browsers
      BY <2>1 DEF Gone
    <2> QED BY <1>0, <2>1, <2>2, <2>3, <2>4, <2>7, <2>8 DEF Slots
  <1>4. CASE Stop
    BY <1>4, SlotsStop
  <1>5. CASE CloseBrowser
    <2>1. phase = "closing" /\ phase' = "stopping" /\ Gone(handle) /\ UNCHANGED driver
      BY <1>5 DEF CloseBrowser
    <2>2. CASE handle \in browsers
      BY <1>0, <2>1, <2>2, SlotsGone DEF Slots, Full
    <2>3. CASE handle \notin browsers
      BY <1>0, <2>1, <2>3, SlotsGone DEF Slots, Full
    <2> QED BY <2>2, <2>3
  <1>6. CASE StopDriver
    <2>1. phase = "stopping" /\ phase' = "down" /\ Gone(driver)
      BY <1>6 DEF StopDriver
    <2>2. CASE driver \in browsers
      BY <1>0, <2>1, <2>2, SlotsGone DEF Slots, Full
    <2>3. CASE driver \notin browsers
      BY <1>0, <2>1, <2>3, SlotsGone DEF Slots, Full
    <2> QED BY <2>2, <2>3
  <1>7. CASE Restart
    <2>1. phase' = "up" /\ browsers' = {} /\ handle' = None /\ Launching' = {}
      BY <1>7 DEF Restart, Values, Launching
    <2> QED BY <2>1 DEF Slots
  <1>8. CASE UNCHANGED vars
    BY <1>8, SlotsStay DEF vars, launching, counts, Starting, Launching
  <1> QED BY <1>1, <1>2, <1>3, <1>4, <1>5, <1>6, <1>7, <1>8 DEF Next

(* The places bound the browsers.                                          *)
LEMMA SlotsBound == Control /\ Slots => NoMoreBrowsersThanSlots
  <1> SUFFICES ASSUME Control, Slots PROVE NoMoreBrowsersThanSlots
    OBVIOUS
  <1> USE DEF Control
  <1>1. /\ Cardinality(Checks) \in Nat /\ Cardinality(browsers) \in Nat
        /\ Cardinality(Starting) \in Nat
    BY FiniteChecks, FiniteBrowsers DEF Starting
  <1>2. /\ Cardinality(browsers) <= Cardinality(browsers \union {handle})
        /\ Cardinality(browsers \union {handle}) \in Nat
    <2>1. IsFiniteSet(browsers \union {handle}) /\ browsers \in SUBSET (browsers \union {handle})
      BY FiniteBrowsers, FS_AddElement
    <2> QED BY <2>1, FS_Subset, FS_CardinalityType
  <1>3. Cardinality(browsers) <= Cardinality(Checks)
    <2>1. CASE phase = "up" /\ handle = None
      BY <1>1, <2>1, FS_EmptySet DEF Slots
    <2>2. CASE phase = "up" /\ handle # None
      BY <1>1, <1>2, <2>2 DEF Slots
    <2> QED BY <2>1, <2>2 DEF Slots
  <1>4. phase = "down" /\ Checks # {} => Cardinality(browsers) < Cardinality(Checks)
    BY <1>1, <1>3 DEF Slots, Full
  <1> QED BY <1>3, <1>4 DEF NoMoreBrowsersThanSlots

(* However many checks find no browser at once, and whatever fails, a      *)
(* process runs at most one browser per slot, and close leaves fewer.      *)
THEOREM BrowsersNeverExceedSlots == Spec => []NoMoreBrowsersThanSlots
  <1>1. Init => Control /\ Slots
    BY ControlInit, SlotsInit
  <1>2. Control /\ Slots /\ [Next]_vars => Control' /\ Slots'
    BY ControlStep, SlotsStep
  <1> QED BY <1>1, <1>2, SlotsBound, PTL DEF Spec

------------------------------------------------------------------------------
LEMMA PagesOwnedInit == Init => PagesHaveAnOwner
  BY DEF Init, PagesHaveAnOwner

(* A step of one check moves only its own pages.                           *)
LEMMA PagesOwnedCheckStep ==
    ASSUME Control, PagesHaveAnOwner, NEW c \in Checks, CheckStep(c)
    PROVE  PagesHaveAnOwner'
  <1> USE DEF Control, TypeOK, PagesHaveAnOwner, PagesOf, AfterFinally
  <1>1. CASE DriverStarts(c) \/ BrowserLaunches(c) \/ LaunchFails(c)
    BY <1>1 DEF DriverStarts, BrowserLaunches, LaunchFails, Finish
  <1>2. CASE HomeOpens(c)
    BY <1>2 DEF HomeOpens, PageOpens, Open
  <1>3. CASE SearchOpens(c)
    BY <1>3 DEF SearchOpens, PageOpens, Open
  <1>4. CASE ProductOpens(c)
    BY <1>4 DEF ProductOpens, PageOpens, Open
  <1>5. CASE HomeDone(c) \/ HomeFails(c)
    BY <1>5 DEF HomeDone, HomeFails, Ask, Finish
  <1>6. CASE SearchLoads(c)
    BY <1>6 DEF SearchLoads, Results, Ask, Finish
  <1>7. CASE ProductLoads(c)
    BY <1>7 DEF ProductLoads, Results, Ask, Finish
  <1>8. CASE SearchFails(c)
    BY <1>8 DEF SearchFails, SearchRaises, Finish
  <1>9. CASE ProductFails(c)
    BY <1>9 DEF ProductFails, SearchRaises, Finish
  <1>10. CASE SearchAgain(c) \/ ProductAgain(c)
    BY <1>10 DEF SearchAgain, ProductAgain, Ask
  <1>11. CASE Unwind(c)
    BY <1>11 DEF Unwind, Finish
  <1> QED BY <1>1, <1>2, <1>3, <1>4, <1>5, <1>6, <1>7, <1>8, <1>9, <1>10, <1>11 DEF CheckStep

LEMMA PagesOwnedStep == Control /\ PagesHaveAnOwner /\ [Next]_vars => PagesHaveAnOwner'
  <1> SUFFICES ASSUME Control, PagesHaveAnOwner, [Next]_vars PROVE PagesHaveAnOwner'
    OBVIOUS
  <1> USE DEF Control, TypeOK, PagesHaveAnOwner
  <1>1. ASSUME NEW c \in Checks, Call(c) PROVE PagesHaveAnOwner'
    BY <1>1 DEF Call, Ask
  <1>2. ASSUME NEW c \in Checks, CheckStep(c) PROVE PagesHaveAnOwner'
    BY <1>2, PagesOwnedCheckStep
  <1>3. ASSUME NEW b \in browsers, BrowserDies(b) PROVE PagesHaveAnOwner'
    BY <1>3 DEF BrowserDies, Gone
  <1>4. CASE Stop
    BY <1>4 DEF Stop
  <1>5. CASE CloseBrowser \/ StopDriver \/ Restart
    BY <1>5 DEF CloseBrowser, StopDriver, Restart, Gone
  <1>6. CASE UNCHANGED vars
    BY <1>6 DEF vars, launching, counts
  <1> QED BY <1>1, <1>2, <1>3, <1>4, <1>5, <1>6 DEF Next

(* Whatever raises inside the nested retries, an open page belongs to the  *)
(* call that opened it.                                                    *)
THEOREM PagesAlwaysHaveAnOwner == Spec => []PagesHaveAnOwner
  <1>1. Init => Control /\ PagesHaveAnOwner
    BY ControlInit, PagesOwnedInit
  <1>2. Control /\ PagesHaveAnOwner /\ [Next]_vars => Control' /\ PagesHaveAnOwner'
    BY ControlStep, PagesOwnedStep
  <1> QED BY <1>1, <1>2, PTL DEF Spec
==============================================================================
