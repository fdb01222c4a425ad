------------------------------ MODULE Provider ------------------------------
(***************************************************************************)
(* One retail provider of the monitor process: its browser, shared by the  *)
(* checks the scheduler runs at once for its retailer.  The four provider  *)
(* classes differ only in addresses and selectors; the registry keeps one  *)
(* instance of each.  A check calls initialize and then search_product,    *)
(* which loads one page per result.  A step ends at an await: between two  *)
(* steps of a check the others run, and browsers die.                      *)
(***************************************************************************)
EXTENDS Naturals, FiniteSets

CONSTANTS
    Checks,      \* the checks that may run at once: the slots of the retailer
    Attempts,    \* stop_after_attempt: 3 in the code
    MaxCards,    \* bound: results of one search
    MaxLaunches  \* bound: browsers one process tries to launch

ASSUME ProviderAssumption ==
    /\ IsFiniteSet(Checks)
    /\ Attempts \in Nat \ {0} /\ MaxCards \in Nat /\ MaxLaunches \in Nat

VARIABLES
    handle,    \* _browser: the number of its launch, 0 for None
    driver,    \* _playwright: the same
    launches,  \* how many drivers were started
    browsers,  \* the browsers that run
    pages,     \* the pages that are open
    pc,        \* the await each check is at
    at,        \* the browser that await is about
    tries,     \* attempts of search_product, the running one included
    again,     \* attempts of get_product, the running one included
    left,      \* results still to be read, the one being read included
    phase      \* main: running, closing the providers, stopped

vars == <<handle, driver, launches, browsers, pages, pc, at, tries, again, left, phase>>
launching == <<handle, driver, launches, browsers, phase>>
counts == <<tries, again, left>>

None == 0
Steps == {"idle", "starting", "launching", "home", "homeOpen", "search", "searchOpen",
          "searchWait", "product", "productOpen", "productWait", "cancelled"}

PagesOf(c, kinds) == {p \in pages : p.check = c /\ p.kind \in kinds}
Open(c, kind) == [check |-> c, kind |-> kind, browser |-> at[c]]

TypeOK ==
    /\ {handle, driver} \subseteq 0 .. launches /\ launches \in 0 .. MaxLaunches
    /\ browsers \subseteq 1 .. launches
    /\ pages \subseteq [check : Checks, kind : {"home", "search", "product"}, browser : browsers]
    /\ pc \in [Checks -> Steps] /\ at \in [Checks -> 0 .. launches]
    /\ tries \in [Checks -> 0 .. Attempts] /\ again \in [Checks -> 0 .. Attempts]
    /\ left \in [Checks -> 0 .. MaxCards]
    /\ phase \in {"up", "closing", "stopping", "down"}

Init ==
    /\ handle = None /\ driver = None /\ launches = 0
    /\ browsers = {} /\ pages = {}
    /\ pc = [c \in Checks |-> "idle"] /\ at = [c \in Checks |-> None]
    /\ tries = [c \in Checks |-> 0] /\ again = [c \in Checks |-> 0]
    /\ left = [c \in Checks |-> 0]
    /\ phase = "up"

------------------------------------------------------------------------------
(* Ask awaits new_page of the browser the provider holds now.  Finish ends *)
(* the check, by an answer or by an exception the scheduler logs.          *)

Ask(c, step) == pc' = [pc EXCEPT ![c] = step] /\ at' = [at EXCEPT ![c] = handle]

Finish(c) ==
    /\ pc' = [pc EXCEPT ![c] = "idle"] /\ at' = [at EXCEPT ![c] = None]
    /\ tries' = [tries EXCEPT ![c] = 0] /\ again' = [again EXCEPT ![c] = 0]
    /\ left' = [left EXCEPT ![c] = 0]

\* What a call that raised in a step of these kinds leaves open: its finally closed its page.
AfterNoFinally(c, kinds) == pages
AfterFinally(c, kinds) == pages \ PagesOf(c, kinds)

\* The page a check awaits opens, unless its browser died.
PageOpens(c, step, opened, kind) ==
    /\ pc[c] = step /\ at[c] \in browsers
    /\ pages' = pages \union {Open(c, kind)}
    /\ pc' = [pc EXCEPT ![c] = opened]
    /\ UNCHANGED <<launching, at, counts>>

------------------------------------------------------------------------------
(* initialize                                                              *)

NeedsBrowserAlways == TRUE
NeedsBrowser == handle = None

Call(c) ==
    /\ phase = "up" /\ pc[c] = "idle"
    /\ IF NeedsBrowser THEN pc' = [pc EXCEPT ![c] = "starting"] /\ UNCHANGED at
                       ELSE Ask(c, "home")
    /\ UNCHANGED <<launching, pages, counts>>

DriverStarts(c) ==
    /\ pc[c] = "starting" /\ launches < MaxLaunches
    /\ launches' = launches + 1
    /\ driver' = launches'
    /\ pc' = [pc EXCEPT ![c] = "launching"] /\ at' = [at EXCEPT ![c] = launches']
    /\ UNCHANGED <<handle, browsers, pages, counts, phase>>

BrowserLaunches(c) ==
    /\ pc[c] = "launching"
    /\ browsers' = browsers \union {at[c]}
    /\ handle' = at[c]
    /\ pc' = [pc EXCEPT ![c] = "home"]
    /\ UNCHANGED <<driver, launches, pages, at, counts, phase>>

LaunchFails(c) ==
    /\ pc[c] \in {"starting", "launching"}
    /\ Finish(c)
    /\ UNCHANGED <<launching, pages>>

HomeOpens(c) == PageOpens(c, "home", "homeOpen", "home")

\* The location is entered, or its picker is not there in time, which is passed over.
HomeDone(c) ==
    /\ pc[c] = "homeOpen" /\ PagesOf(c, {"home"}) # {}
    /\ pages' = AfterFinally(c, {"home"})
    /\ Ask(c, "search") /\ tries' = [tries EXCEPT ![c] = 1]
    /\ UNCHANGED <<launching, again, left>>

HomeFails(c) ==
    /\ pc[c] \in {"home", "homeOpen"}
    /\ pages' = AfterFinally(c, {"home"})
    /\ Finish(c)
    /\ UNCHANGED launching

------------------------------------------------------------------------------
(* search_product and get_product, each tried Attempts times               *)

SearchOpens(c) == PageOpens(c, "search", "searchOpen", "search")

\* The answer is complete when no result is left to be read.
Results(c, n) ==
    IF n = 0
    THEN pages' = AfterFinally(c, {"search", "product"}) /\ Finish(c)
    ELSE /\ pages' = AfterFinally(c, {"product"})
         /\ Ask(c, "product")
         /\ left' = [left EXCEPT ![c] = n] /\ again' = [again EXCEPT ![c] = 1]
         /\ UNCHANGED tries

SearchLoads(c) ==
    /\ pc[c] = "searchOpen" /\ PagesOf(c, {"search"}) # {}
    /\ \E n \in 0 .. MaxCards : Results(c, n)
    /\ UNCHANGED launching

MayRetryOnceMore(n) == n <= Attempts
MayRetry(n) == n < Attempts
SameAttempt(n) == n
NextAttempt(n) == n + 1

\* One attempt of search_product raised: tenacity waits for the next one, or gives up.
SearchRaises(c) ==
    /\ pages' = AfterFinally(c, {"search", "product"})
    /\ IF MayRetry(tries[c])
       THEN /\ pc' = [pc EXCEPT ![c] = "searchWait"]
            /\ at' = [at EXCEPT ![c] = None]
            /\ again' = [again EXCEPT ![c] = 0] /\ left' = [left EXCEPT ![c] = 0]
            /\ UNCHANGED tries
       ELSE Finish(c)

SearchFails(c) ==
    /\ pc[c] \in {"search", "searchOpen"}
    /\ SearchRaises(c)
    /\ UNCHANGED launching

SearchAgain(c) ==
    /\ pc[c] = "searchWait"
    /\ Ask(c, "search")
    /\ tries' = [tries EXCEPT ![c] = NextAttempt(@)]
    /\ UNCHANGED <<launching, pages, again, left>>

ProductOpens(c) == PageOpens(c, "product", "productOpen", "product")

ProductLoads(c) ==
    /\ pc[c] = "productOpen" /\ PagesOf(c, {"product"}) # {}
    /\ Results(c, left[c] - 1)
    /\ UNCHANGED launching

ProductFails(c) ==
    /\ pc[c] \in {"product", "productOpen"}
    /\ IF MayRetry(again[c])
       THEN /\ pages' = AfterFinally(c, {"product"})
            /\ pc' = [pc EXCEPT ![c] = "productWait"] /\ at' = [at EXCEPT ![c] = None]
            /\ UNCHANGED counts
       ELSE SearchRaises(c)
    /\ UNCHANGED launching

ProductAgain(c) ==
    /\ pc[c] = "productWait"
    /\ Ask(c, "product")
    /\ again' = [again EXCEPT ![c] = NextAttempt(@)]
    /\ UNCHANGED <<launching, pages, tries, left>>

------------------------------------------------------------------------------
(* The browser dies; main stops the process: it cancels the checks and     *)
(* closes the provider, and the next process starts from nothing.          *)

Gone(b) == /\ browsers' = browsers \ {b}
           /\ pages' = {p \in pages : p.browser # b}

BrowserDies(b) ==
    /\ b \in browsers
    /\ Gone(b)
    /\ UNCHANGED <<handle, driver, launches, pc, at, counts, phase>>

\* A launch that is cancelled may have brought its browser up.
Stop ==
    /\ phase = "up" /\ phase' = "closing"
    /\ \E up \in SUBSET {at[c] : c \in {d \in Checks : pc[d] = "launching"}} :
          browsers' = browsers \union up
    /\ pc' = [c \in Checks |-> IF pc[c] = "idle" THEN "idle" ELSE "cancelled"]
    /\ UNCHANGED <<handle, driver, launches, pages, at, counts>>

Unwind(c) ==
    /\ pc[c] = "cancelled"
    /\ pages' = AfterFinally(c, {"home", "search", "product"})
    /\ Finish(c)
    /\ UNCHANGED launching

CloseBrowser ==
    /\ phase = "closing" /\ phase' = "stopping"
    /\ Gone(handle) /\ handle' = None
    /\ UNCHANGED <<driver, launches, pc, at, counts>>

\* Stopping a driver ends the browsers it launched.
StopDriver ==
    /\ phase = "stopping" /\ phase' = "down"
    /\ Gone(driver) /\ driver' = None
    /\ UNCHANGED <<handle, launches, pc, at, counts>>

Restart ==
    /\ phase = "down" /\ \A c \in Checks : pc[c] = "idle"
    /\ phase' = "up" /\ launches' = 0 /\ browsers' = {} /\ pages' = {}
    /\ UNCHANGED <<handle, driver, pc, at, counts>>

CheckStep(c) ==
    \/ DriverStarts(c) \/ BrowserLaunches(c) \/ LaunchFails(c)
    \/ HomeOpens(c) \/ HomeDone(c) \/ HomeFails(c)
    \/ SearchOpens(c) \/ SearchLoads(c) \/ SearchFails(c) \/ SearchAgain(c)
    \/ ProductOpens(c) \/ ProductLoads(c) \/ ProductFails(c) \/ ProductAgain(c)
    \/ Unwind(c)

Next ==
    \/ \E c \in Checks : Call(c) \/ CheckStep(c)
    \/ \E b \in browsers : BrowserDies(b)
    \/ Stop \/ CloseBrowser \/ StopDriver \/ Restart

Spec == Init /\ [][Next]_vars

\* Every await of a check ends: Playwright's calls have timeouts, tenacity's waits are bounded.
FairSpec == Spec /\ \A c \in Checks : WF_vars(CheckStep(c))

------------------------------------------------------------------------------
(* Checks that find no browser at the same time each launch one, and all   *)
(* but the last are lost.  The loss is bounded: a process never runs more  *)
(* browsers than its retailer has slots, whatever fails and is retried.    *)
(* close releases the browser the provider holds and those of the driver   *)
(* it holds: when the process goes down fewer are left, and with one slot  *)
(* none.                                                                   *)
NoMoreBrowsersThanSlots ==
    /\ Cardinality(browsers) <= Cardinality(Checks)
    /\ phase = "down" /\ Checks # {} => Cardinality(browsers) < Cardinality(Checks)

(* Whatever raises inside two nested retries, every page that is open      *)
(* belongs to a check that is inside the call that opened it: a search     *)
(* page to the search and its products, never to a wait between attempts.  *)
PagesHaveAnOwner ==
    \A p \in pages :
        pc[p.check] \in CASE p.kind = "home" -> {"homeOpen", "cancelled"}
                          [] p.kind = "search" -> {"searchOpen", "product", "productOpen", "productWait", "cancelled"}
                          [] p.kind = "product" -> {"productOpen", "cancelled"}

(* A crashed browser is restarted: in a process that stays up and whose    *)
(* retailer is checked again and again, the provider does not go without a *)
(* live browser for ever.  The code tests only whether it ever launched    *)
(* one: a browser that died is still not None, every later page fails to   *)
(* open in it, and the retailer is not scraped until the process is        *)
(* started anew.                                                           *)
CheckedForEver == <>[](phase = "up") /\ \A c \in Checks : []<>(pc[c] = "home")
CrashedBrowserIsRestarted == CheckedForEver => []<>(handle \in browsers)

(* Nested retries end: a check always comes back to the scheduler, and its *)
(* slot is free again, however often pages and searches fail.              *)
EveryCheckEnds == \A c \in Checks : pc[c] # "idle" ~> pc[c] = "idle"
==============================================================================
