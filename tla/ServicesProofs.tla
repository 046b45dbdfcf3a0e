---------------------------- MODULE ServicesProofs -----------------------------
(***************************************************************************)
(* Services beside the request path.                                        *)
(*                                                                          *)
(* RouterReload: why an address's burst holds although its limiter is looked*)
(* up, created, touched and cleaned up under different locks.  The argument *)
(* keeps a budget: what was granted in the window and what the address could*)
(* still spend exceed the burst by no more than the cells that came back    *)
(* since the window opened and the strays.  A limiter that cleanup may take,*)
(* or has taken, counts with a full burst, since the next one starts with it;*)
(* that costs nothing, as its own grants lie before the window (GrantsStay).*)
(* And why no edit is lost: what is not served yet has its event in the     *)
(* channel or the watcher on its way.                                       *)
(*                                                                          *)
(* QueryWhitelist: why the index by hash follows the ids although the three *)
(* maps change one after the other.  For a query whose entries are clean, its*)
(* ids in the two maps differ exactly by what a registration has yet to add *)
(* and a removal has yet to take, and no registration and removal of it are *)
(* under way together; the hash goes when the last id has gone.             *)
(*                                                                          *)
(* RestConnector: what a cleared cache forgets.  A write returns only after an*)
(* attempt of it was performed (Performed); so every GET that is answered   *)
(* after a clear sees the writes that had returned before it, and what was  *)
(* answered earlier is marked as such (Seen).  The order lists the cached keys*)
(* once each (InOrderOnce), as what an insertion appends it has taken out.   *)
(*                                                                          *)
(* QueryCosts: why no interval as long as a window charges a user more than *)
(* two budgets.  Each user has a last window (WindowOf): what was charged   *)
(* since it began is what its entry has spent, the windows before it left at*)
(* most one budget within its reach, and an entry is dropped only when its  *)
(* window is over.                                                          *)
(*                                                                          *)
(* DeferredDelivery: why a stream that ended in time had each field once.  At *)
(* every step the parts sent and the patches to send hold each field of the *)
(* response once (Once), and only what the splitter sends last says that it *)
(* is the last (SplitSays).                                                  *)
(*                                                                          *)
(* Shutdown: why one task runs it.  The server calls shutdown() only after it*)
(* was told to stop, hence finds it initiated; and a message for a server   *)
(* that has subscribed is not lost, polled or not (ToldToStop).              *)
(*                                                                          *)
(* Services: a step of the composition is a step of one service and leaves  *)
(* the variables of the others alone, so what is proved of each holds of it.*)
(***************************************************************************)
EXTENDS Services, ClientSocketsProofs, FiniteSetTheorems, WellFoundedInduction, TLAPS

CallerSteps == {"new", "waiting", "global", "lookup", "touch", "create", "spend", "execute", "done"}

LimiterRecord == [cells : 0..Burst, age : 0..MaxAge]

FileOK ==
    /\ file \in [version : 0..MaxEdits, valid : BOOLEAN]
    /\ watcher \in [at : {"idle", "debounce", "load", "write"}, version : 0..MaxEdits]
    /\ serving \in 0..MaxEdits

LimitersOK ==
    /\ limiters \in Seq(LimiterRecord)
    /\ current \in 0..Len(limiters)
    /\ granted \in Nat /\ strays \in Nat
    /\ beat \in 0..(Rps - 1) /\ window \in 0..Rps

CallersOK ==
    /\ caller \in [Callers -> [at : CallerSteps, limiter : Nat]]
    /\ \A r \in Callers :
          /\ caller[r].limiter <= Len(limiters)
          /\ caller[r].at \in {"touch", "spend"} => caller[r].limiter # 0

\* What the address can spend from now on if no time passes.
Spendable ==
    IF current # 0 /\ limiters[current].age < MaxAge THEN limiters[current].cells ELSE Burst

BurstBudget == granted + Spendable <= Burst + window + strays

\* A second began in a window that is longer than what has passed of the second.  A limiter
\* that granted a request which is no stray was seen so late that it is still in use when the
\* window closes.
GrantsStay ==
    granted > strays =>
        /\ current # 0
        /\ limiters[current].age + (IF window > beat THEN 0 ELSE 1) < MaxAge

ReloadInv == FileOK /\ LimitersOK /\ CallersOK /\ BurstBudget /\ GrantsStay

ReloadSpec == ReloadInit /\ [][ReloadNext]_reloadVars

-----------------------------------------------------------------------------
\* The types the steps below use, spelled out for the provers.
LEMMA ReloadBounds == /\ Burst \in Nat \ {0} /\ Rps \in Nat \ {0} /\ MaxAge \in Nat \ {0}
                /\ MaxEdits \in Nat
    BY ReloadAssumption

LEMMA LimiterTypes ==
    ASSUME ReloadInv
    PROVE  /\ Len(limiters) \in Nat /\ DOMAIN limiters = 1..Len(limiters)
           /\ current \in 0..Len(limiters)
           /\ granted \in Nat /\ strays \in Nat
           /\ beat \in 0..(Rps - 1) /\ window \in 0..Rps
           /\ \A l \in 1..Len(limiters) :
                 /\ limiters[l] \in LimiterRecord
                 /\ limiters[l].cells \in 0..Burst
                 /\ limiters[l].age \in 0..MaxAge
<1>1. \A l \in 1..Len(limiters) : limiters[l] \in LimiterRecord
    BY DEF ReloadInv, LimitersOK
<1> QED
    BY <1>1 DEF ReloadInv, LimitersOK, LimiterRecord

LEMMA LimiterEdits ==
    ASSUME NEW x \in LimiterRecord
    PROVE  /\ [x EXCEPT !.age = 0] \in LimiterRecord
           /\ x.cells # 0 => [x EXCEPT !.cells = @ - 1] \in LimiterRecord
    BY ReloadBounds DEF LimiterRecord

LEMMA SpendableType == ASSUME ReloadInv PROVE Spendable \in 0..Burst
<1>1. CASE current # 0 /\ limiters[current].age < MaxAge
  <2>1. current \in 1..Len(limiters)
    BY <1>1, LimiterTypes
  <2>2. limiters[current].cells \in 0..Burst
    BY <2>1, LimiterTypes
  <2> QED
    BY <1>1, <2>2 DEF Spendable
<1>2. CASE ~(current # 0 /\ limiters[current].age < MaxAge)
    BY <1>2, ReloadBounds DEF Spendable
<1> QED
    BY <1>1, <1>2

\* The arithmetic of the budget: a stray's cell, a tick, and a window of strays only.
LEMMA BudgetSums ==
    ASSUME NEW g \in Nat, NEW s \in Nat, NEW w \in Nat, NEW b \in Nat, NEW p \in Nat, NEW q \in Nat
    PROVE  /\ g + p <= b + w + s /\ q <= p => (g + 1) + q <= b + w + (s + 1)
           /\ g + p <= b + w + s /\ q <= p + 1 => g + q <= b + (w + 1) + s
           /\ g <= s /\ q <= b => g + q <= b + w + s
    OBVIOUS

\* The invariant gives the type invariant and the bound on what an address is admitted.
LEMMA ReloadInvSuffices == ReloadInv => ReloadTypeOK /\ BurstKept
<1> SUFFICES ASSUME ReloadInv PROVE ReloadTypeOK /\ BurstKept
    OBVIOUS
<1>1. ReloadTypeOK
  <2>1. /\ file.version \in 0..MaxEdits /\ serving \in 0..MaxEdits
        /\ watcher.at \in {"idle", "debounce", "load", "write"}
    BY DEF ReloadInv, FileOK
  <2>2. \A r \in Callers : caller[r].limiter \in 0..Len(limiters)
    BY LimiterTypes DEF ReloadInv, CallersOK
  <2> QED
    BY <2>1, <2>2, LimiterTypes DEF ReloadTypeOK
<1>2. BurstKept
    BY ReloadBounds, LimiterTypes, SpendableType DEF BurstKept, ReloadInv, BurstBudget
<1> QED
    BY <1>1, <1>2

LEMMA ReloadHoldsFirst == ReloadInit => ReloadInv
    BY ReloadAssumption
    DEF ReloadInit, ReloadInv, FileOK, LimitersOK, CallersOK, BurstBudget, GrantsStay, Spendable, CallerSteps

\* The watcher's steps touch the limits only in Swap, which starts them afresh.
LEMMA WatcherKeepsInv ==
    ASSUME ReloadInv, Edit \/ Wake \/ Drain \/ Load \/ Swap
    PROVE  ReloadInv'
<1> USE ReloadAssumption DEF ReloadInv
<1>1. CASE Edit \/ Wake \/ Drain \/ Load
  <2>1. UNCHANGED <<caller, limiters, current, beat, window, granted, strays>>
    BY <1>1 DEF Edit, Wake, Drain, Load, rateLimits, time
  <2>2. FileOK'
    BY <1>1 DEF Edit, Wake, Drain, Load, FileOK
  <2> QED
    BY <2>1, <2>2 DEF LimitersOK, CallersOK, BurstBudget, GrantsStay, Spendable
<1>2. CASE Swap
  <2>1. FileOK'
    BY <1>2 DEF Swap, FileOK
  <2>2. LimitersOK' /\ CallersOK'
    BY <1>2 DEF Swap, LimitersOK, CallersOK, time
  <2>3. BurstBudget' /\ GrantsStay'
    BY <1>2 DEF Swap, BurstBudget, GrantsStay, Spendable
  <2> QED
    BY <2>1, <2>2, <2>3
<1> QED
    BY <1>1, <1>2

\* Steps of a request that only move it.
LEMMA MovesKeepInv ==
    ASSUME ReloadInv, NEW r \in Callers, Enter(r) \/ GlobalLimit(r) \/ LookUp(r) \/ Finish(r)
    PROVE  ReloadInv'
<1> USE ReloadAssumption DEF ReloadInv
<1>1. UNCHANGED <<file, watcher, serving, limiters, current, beat, window, granted, strays>>
    BY DEF Enter, GlobalLimit, LookUp, Finish, rateLimits, time
<1>2. FileOK' /\ LimitersOK' /\ BurstBudget' /\ GrantsStay'
    BY <1>1 DEF FileOK, LimitersOK, BurstBudget, GrantsStay, Spendable
<1>3. CASE Enter(r) \/ GlobalLimit(r) \/ Finish(r)
  <2>1. PICK w \in CallerSteps \ {"touch", "spend"} : caller' = [caller EXCEPT ![r].at = w]
    BY <1>3 DEF Enter, GlobalLimit, Finish, CallerAt, CallerSteps
  <2>2. CallersOK'
    BY <1>1, <2>1 DEF CallersOK
  <2> QED
    BY <1>2, <2>2
<1>4. CASE LookUp(r)
  <2>1. CallersOK'
    BY <1>1, <1>4 DEF LookUp, CallersOK, LimitersOK, CallerSteps
  <2> QED
    BY <1>2, <2>1
<1> QED
    BY <1>3, <1>4

-----------------------------------------------------------------------------
\* A touched limiter is fresh: if it is the address's, the full burst that stood for
\* it is replaced by the cells it has.
LEMMA TouchKeepsInv ==
    ASSUME ReloadInv, NEW r \in Callers, Touch(r)
    PROVE  ReloadInv'
<1>0. FileOK /\ LimitersOK /\ CallersOK /\ BurstBudget /\ GrantsStay
    BY DEF ReloadInv
<1> DEFINE l == caller[r].limiter
<1>1. /\ l \in 1..Len(limiters)
      /\ limiters' = [limiters EXCEPT ![l].age = 0]
      /\ caller' = [caller EXCEPT ![r].at = "spend"]
      /\ UNCHANGED <<file, watcher, serving, current, beat, window, granted, strays>>
    BY <1>0 DEF Touch, time, CallerAt, CallersOK, LimitersOK
<1>2. limiters' \in Seq(LimiterRecord) /\ Len(limiters') = Len(limiters)
  <2>1. [limiters[l] EXCEPT !.age = 0] \in LimiterRecord
    BY <1>1, LimiterTypes, LimiterEdits
  <2>2. limiters' = [limiters EXCEPT ![l] = [limiters[l] EXCEPT !.age = 0]]
    BY <1>1
  <2> HIDE DEF l
  <2> QED
    BY <1>0, <1>1, <2>1, <2>2 DEF LimitersOK
<1>3. \A k \in 1..Len(limiters) :
         /\ limiters'[k].cells = limiters[k].cells
         /\ limiters'[k].age \in {0, limiters[k].age}
    BY <1>1, LimiterTypes DEF LimiterRecord
<1>4. Spendable' <= Spendable /\ Spendable' \in Nat
  <2>1. CASE current = 0
    BY <1>1, <2>1, ReloadBounds DEF Spendable
  <2>2. CASE current # 0
    <3>1. current \in 1..Len(limiters)
      BY <2>2, LimiterTypes
    <3>2. /\ limiters'[current].cells = limiters[current].cells
          /\ limiters'[current].age \in {0, limiters[current].age}
          /\ limiters[current].cells \in 0..Burst /\ limiters[current].age \in 0..MaxAge
      BY <3>1, <1>3, LimiterTypes
    <3> QED
      BY <1>1, <3>2, ReloadBounds DEF Spendable
  <2> QED
    BY <2>1, <2>2
<1>5. FileOK' /\ LimitersOK'
    BY <1>0, <1>1, <1>2 DEF FileOK, LimitersOK
<1>6. CallersOK'
  <2>1. caller' \in [Callers -> [at : CallerSteps, limiter : Nat]]
    BY <1>0, <1>1 DEF CallersOK, CallerSteps
  <2>2. \A q \in Callers : /\ caller'[q].limiter = caller[q].limiter
                           /\ q # r => caller'[q].at = caller[q].at
    BY <1>0, <1>1 DEF CallersOK
  <2> QED
    BY <1>0, <1>1, <1>2, <2>1, <2>2, LimiterTypes DEF CallersOK
<1>7. BurstBudget'
    BY <1>0, <1>1, <1>4, ReloadBounds, LimiterTypes, SpendableType DEF BurstBudget
<1>8. GrantsStay'
  <2> SUFFICES ASSUME granted > strays
               PROVE  /\ current # 0
                      /\ limiters'[current].age + (IF window > beat THEN 0 ELSE 1) < MaxAge
    BY <1>0, <1>1 DEF GrantsStay
  <2>1. current \in 1..Len(limiters)
        /\ limiters[current].age + (IF window > beat THEN 0 ELSE 1) < MaxAge
    BY <1>0, LimiterTypes DEF GrantsStay
  <2>2. limiters'[current].age \in {0, limiters[current].age} /\ limiters[current].age \in Nat
    BY <2>1, <1>3, LimiterTypes
  <2> QED
    BY <2>1, <2>2, ReloadBounds
<1> QED
    BY <1>5, <1>6, <1>7, <1>8 DEF ReloadInv

\* A new limiter brings a full burst, which the absent one stood for.
LEMMA CreateKeepsInv ==
    ASSUME ReloadInv, NEW r \in Callers, Create(r)
    PROVE  ReloadInv'
<1>0. FileOK /\ LimitersOK /\ CallersOK /\ BurstBudget /\ GrantsStay
    BY DEF ReloadInv
<1> DEFINE fresh == [cells |-> Burst, age |-> 0]
<1>1. UNCHANGED <<file, watcher, serving, beat, window, granted, strays>>
    BY DEF Create, time
<1>2. FileOK'
    BY <1>0, <1>1 DEF FileOK
<1>3. CASE current # 0
  <2>1. limiters' = limiters /\ current' = current
        /\ caller' = [caller EXCEPT ![r] = [at |-> "spend", limiter |-> current]]
    BY <1>3 DEF Create
  <2>2. LimitersOK' /\ BurstBudget' /\ GrantsStay'
    BY <1>0, <1>1, <2>1 DEF LimitersOK, BurstBudget, GrantsStay, Spendable
  <2>3. CallersOK'
    BY <1>0, <1>3, <2>1 DEF CallersOK, LimitersOK, CallerSteps
  <2> QED
    BY <1>2, <2>2, <2>3 DEF ReloadInv
<1>4. CASE current = 0
  <2>1. /\ limiters' = Append(limiters, fresh) /\ current' = Len(limiters')
        /\ caller' = [caller EXCEPT ![r] = [at |-> "spend", limiter |-> current']]
    BY <1>4 DEF Create
  <2>2. fresh \in LimiterRecord
    BY ReloadBounds DEF LimiterRecord
  <2>3. /\ limiters' \in Seq(LimiterRecord) /\ Len(limiters') = Len(limiters) + 1
        /\ limiters'[Len(limiters) + 1] = fresh
    BY <1>0, <2>1, <2>2 DEF LimitersOK
  <2>4. LimitersOK'
    BY <1>0, <1>1, <2>1, <2>3 DEF LimitersOK
  <2>5. CallersOK'
    BY <1>0, <2>1, <2>3 DEF CallersOK, LimitersOK, CallerSteps
  <2>6. BurstBudget' /\ GrantsStay'
    BY <1>0, <1>1, <1>4, <2>1, <2>3 DEF BurstBudget, GrantsStay, Spendable, LimitersOK
  <2> QED
    BY <1>2, <2>4, <2>5, <2>6 DEF ReloadInv
<1> QED
    BY <1>3, <1>4 DEF ReloadInv

\* A cell spent from the address's fresh limiter moves within the budget; any other
\* one is a stray's.
LEMMA SpendKeepsInv ==
    ASSUME ReloadInv, NEW r \in Callers, Spend(r)
    PROVE  ReloadInv'
<1>0. FileOK /\ LimitersOK /\ CallersOK /\ BurstBudget /\ GrantsStay
    BY DEF ReloadInv
<1> DEFINE l == caller[r].limiter
<1>1. l \in 1..Len(limiters) /\ limiters[l] \in LimiterRecord
    BY <1>0, LimiterTypes DEF Spend, CallersOK
<1>2. UNCHANGED <<file, watcher, serving, current, beat, window>>
    BY DEF Spend, rateLimits, time
<1>3. FileOK'
    BY <1>0, <1>2 DEF FileOK
<1>4. PICK w \in CallerSteps \ {"touch", "spend"} : caller' = [caller EXCEPT ![r].at = w]
    BY DEF Spend, CallerAt, CallerSteps
<1>5. CASE limiters[l].cells = 0
  <2>1. UNCHANGED <<limiters, granted, strays>>
    BY <1>5 DEF Spend, rateLimits
  <2>2. LimitersOK' /\ BurstBudget' /\ GrantsStay'
    BY <1>0, <1>2, <2>1 DEF LimitersOK, BurstBudget, GrantsStay, Spendable
  <2>3. CallersOK'
    BY <1>0, <1>4, <2>1 DEF CallersOK
  <2> QED
    BY <1>3, <2>2, <2>3 DEF ReloadInv
<1>6. CASE limiters[l].cells # 0
  <2>1. /\ limiters' = [limiters EXCEPT ![l].cells = @ - 1]
        /\ granted' = granted + 1
        /\ strays' = IF Fading(l) THEN strays + 1 ELSE strays
    BY <1>6 DEF Spend
  <2>2. limiters' \in Seq(LimiterRecord) /\ Len(limiters') = Len(limiters)
    <3>1. [limiters[l] EXCEPT !.cells = @ - 1] \in LimiterRecord
      BY <1>1, <1>6, LimiterEdits
    <3>2. limiters' = [limiters EXCEPT ![l] = [limiters[l] EXCEPT !.cells = @ - 1]]
      BY <2>1
    <3> HIDE DEF l
    <3> QED
      BY <1>0, <1>1, <3>1, <3>2 DEF LimitersOK
  <2>3. LimitersOK'
    BY <1>0, <1>2, <2>1, <2>2 DEF LimitersOK
  <2>4. CallersOK'
    BY <1>0, <1>4, <2>2 DEF CallersOK
  <2>5. CASE Fading(l)
    <3>1. CASE current = 0
      <4>1. BurstBudget' /\ GrantsStay'
        BY <1>0, <1>2, <2>1, <2>5, <3>1, ReloadBounds, LimiterTypes
        DEF BurstBudget, GrantsStay, Spendable
      <4> QED
        BY <1>3, <2>3, <2>4, <4>1 DEF ReloadInv
    <3>2. CASE current # 0
      <4>1. current \in 1..Len(limiters)
        BY <3>2, LimiterTypes
      <4>2. /\ limiters'[current].age = limiters[current].age
            /\ limiters'[current].cells <= limiters[current].cells
            /\ limiters'[current].cells \in Nat
        <5>1. CASE l = current
          <6>1. limiters'[l].cells = limiters[l].cells - 1 /\ limiters'[l].age = limiters[l].age
            BY <1>1, <2>1, LimiterTypes DEF LimiterRecord
          <6>2. limiters[l].cells \in Nat \ {0}
            BY <1>1, <1>6, LimiterTypes, ReloadBounds
          <6> QED
            BY <5>1, <6>1, <6>2
        <5>2. CASE l # current
          <6>1. limiters'[current] = limiters[current]
            BY <1>1, <2>1, <4>1, <5>2, LimiterTypes
          <6>2. limiters[current].cells \in Nat
            BY <4>1, LimiterTypes, ReloadBounds
          <6> QED
            BY <6>1, <6>2
        <5> QED
          BY <5>1, <5>2
      <4>3. Spendable' <= Spendable /\ Spendable' \in Nat
        BY <1>2, <4>1, <4>2, ReloadBounds, LimiterTypes DEF Spendable
      <4>4. BurstBudget'
        <5>1. granted' = granted + 1 /\ strays' = strays + 1 /\ window' = window
          BY <1>2, <2>1, <2>5
        <5>2. /\ granted \in Nat /\ strays \in Nat /\ window \in Nat /\ Burst \in Nat
              /\ Spendable \in Nat /\ granted + Spendable <= Burst + window + strays
          BY <1>0, ReloadBounds, LimiterTypes, SpendableType DEF BurstBudget
        <5>3. (granted + 1) + Spendable' <= Burst + window + (strays + 1)
          BY <4>3, <5>2, BudgetSums
        <5> QED
          BY <1>0, <5>1, <5>3 DEF BurstBudget
      <4>5. GrantsStay'
        BY <1>0, <1>2, <2>1, <2>5, <4>1, <4>2, LimiterTypes DEF GrantsStay
      <4> QED
        BY <1>3, <2>3, <2>4, <4>4, <4>5 DEF ReloadInv
    <3> QED
      BY <3>1, <3>2
  <2>6. CASE ~Fading(l)
    <3>1. /\ limiters'[l].cells = limiters[l].cells - 1
          /\ limiters'[l].age = limiters[l].age
      BY <1>1, <2>1, LimiterTypes DEF LimiterRecord
    <3>2. l = current /\ limiters[l].age + 1 < MaxAge
      BY <1>1, <2>6, ReloadBounds, LimiterTypes DEF Fading
    <3>3. Spendable' = limiters[l].cells - 1 /\ Spendable = limiters[l].cells
      BY <1>1, <1>2, <3>1, <3>2, ReloadBounds, LimiterTypes DEF Spendable
    <3>4. strays' = strays
      BY <2>1, <2>6
    <3>5. BurstBudget'
      <4>1. granted \in Nat /\ strays \in Nat /\ Burst \in Nat /\ window \in Nat
        BY ReloadBounds, LimiterTypes
      <4> DEFINE left == limiters[l].cells
      <4>2. /\ left \in Nat \ {0} /\ granted + left <= Burst + window + strays
            /\ Spendable' = left - 1 /\ strays' = strays /\ granted' = granted + 1
            /\ window' = window
        <5>1. left \in Nat \ {0}
          BY <1>1, <1>6, LimiterTypes, ReloadBounds
        <5>2. granted + left <= Burst + window + strays
          BY <1>0, <3>3 DEF BurstBudget
        <5> QED
          BY <1>2, <2>1, <3>3, <3>4, <5>1, <5>2
      <4> HIDE DEF left
      <4>3. granted' + Spendable' <= Burst + window' + strays'
        BY ONLY <4>1, <4>2
      <4> QED
        BY <1>0, <4>3 DEF BurstBudget
    <3>6. GrantsStay'
      <4>1. limiters'[current'].age + 1 < MaxAge /\ limiters'[current'].age \in Nat /\ current' # 0
        BY <1>1, <1>2, <3>1, <3>2, LimiterTypes
      <4> QED
        BY <1>0, <4>1, ReloadBounds DEF GrantsStay
    <3> QED
      BY <1>3, <2>3, <2>4, <3>5, <3>6 DEF ReloadInv
  <2> QED
    BY <2>5, <2>6
<1> QED
    BY <1>5, <1>6 DEF ReloadInv

\* A cleaned-up limiter counted with a full burst already, and granted only strays.
LEMMA CleanupKeepsInv == ASSUME ReloadInv, Cleanup PROVE ReloadInv'
<1>0. FileOK /\ LimitersOK /\ CallersOK /\ BurstBudget /\ GrantsStay
    BY DEF ReloadInv
<1>1. /\ current # 0 /\ limiters[current].age >= MaxAge /\ current' = 0
      /\ UNCHANGED <<file, watcher, serving, caller, limiters, beat, window, granted, strays>>
    BY DEF Cleanup, time
<1>2. limiters[current].age \in 0..MaxAge
    BY <1>1, LimiterTypes
<1>3. Spendable' = Burst /\ Spendable = Burst
    BY <1>1, <1>2, ReloadBounds DEF Spendable
<1>4. GrantsStay'
  <2>1. CASE granted > strays
    <3>1. limiters[current].age + (IF window > beat THEN 0 ELSE 1) < MaxAge
      BY <1>0, <2>1 DEF GrantsStay
    <3>2. limiters[current].age < MaxAge
      <4> DEFINE age == limiters[current].age
      <4>1. age \in Nat /\ MaxAge \in Nat
        BY <1>2, ReloadBounds
      <4>2. age + (IF window > beat THEN 0 ELSE 1) < MaxAge
        BY <3>1
      <4> HIDE DEF age
      <4>3. age < MaxAge
        BY ONLY <4>1, <4>2
      <4> QED
        BY <4>3 DEF age
    <3> QED
      BY <1>1, <1>2, <3>2, ReloadBounds
  <2>2. CASE ~(granted > strays)
    BY <1>0, <1>1, <2>2 DEF GrantsStay
  <2> QED
    BY <2>1, <2>2
<1>5. BurstBudget'
    BY <1>0, <1>1, <1>3 DEF BurstBudget
<1>6. FileOK' /\ LimitersOK' /\ CallersOK'
    BY <1>0, <1>1, LimiterTypes DEF FileOK, LimitersOK, CallersOK
<1> QED
    BY <1>4, <1>5, <1>6 DEF ReloadInv

\* With a tick the window takes in one cell more, which is what each bucket regains; a
\* limiter that cleanup may take from now on has granted nothing but strays in the window.
LEMMA TickKeepsInv == ASSUME ReloadInv, Tick PROVE ReloadInv'
<1>0. FileOK /\ LimitersOK /\ CallersOK /\ BurstBudget /\ GrantsStay
    BY DEF ReloadInv
<1>1. /\ beat' = IF beat + 1 = Rps THEN 0 ELSE beat + 1
      /\ limiters' = [l \in DOMAIN limiters |->
            [cells |-> IF limiters[l].cells < Burst THEN limiters[l].cells + 1 ELSE Burst,
             age |-> IF beat' = 0 /\ limiters[l].age < MaxAge THEN limiters[l].age + 1
                     ELSE limiters[l].age]]
      /\ \/ window < Rps /\ window' = window + 1 /\ granted' = granted /\ strays' = strays
         \/ window' = 0 /\ granted' = 0 /\ strays' = 0
      /\ UNCHANGED <<file, watcher, serving, caller, current>>
    BY DEF Tick
<1>2. \A l \in 1..Len(limiters) : limiters'[l] \in LimiterRecord
    BY <1>1, ReloadBounds, LimiterTypes, SMTT(30) DEF LimiterRecord
<1>3. DOMAIN limiters' = 1..Len(limiters)
    BY <1>1, LimiterTypes
<1>4. limiters' \in Seq(LimiterRecord) /\ Len(limiters') = Len(limiters)
    BY <1>1, <1>2, <1>3, LimiterTypes
<1>5. LimitersOK'
  <2>1. beat' \in 0..(Rps - 1) /\ window' \in 0..Rps /\ granted' \in Nat /\ strays' \in Nat
    BY <1>1, ReloadBounds, LimiterTypes
  <2> QED
    BY <1>0, <1>1, <1>4, <2>1, LimiterTypes DEF LimitersOK
<1>6. current # 0 =>
         /\ limiters'[current].cells <= limiters[current].cells + 1
         /\ limiters'[current].cells \in 0..Burst /\ limiters[current].cells \in 0..Burst
         /\ limiters'[current].age = IF beat' = 0 /\ limiters[current].age < MaxAge
                                     THEN limiters[current].age + 1 ELSE limiters[current].age
         /\ limiters[current].age \in 0..MaxAge
  <2> SUFFICES ASSUME current # 0
               PROVE  /\ limiters'[current].cells <= limiters[current].cells + 1
                      /\ limiters'[current].cells \in 0..Burst
                      /\ limiters[current].cells \in 0..Burst
                      /\ limiters'[current].age =
                            IF beat' = 0 /\ limiters[current].age < MaxAge
                            THEN limiters[current].age + 1 ELSE limiters[current].age
                      /\ limiters[current].age \in 0..MaxAge
    OBVIOUS
  <2>1. /\ current \in DOMAIN limiters
        /\ limiters[current].cells \in 0..Burst /\ limiters[current].age \in 0..MaxAge
    BY LimiterTypes
  <2>2. /\ limiters'[current].cells = IF limiters[current].cells < Burst
                                      THEN limiters[current].cells + 1 ELSE Burst
        /\ limiters'[current].age = IF beat' = 0 /\ limiters[current].age < MaxAge
                                    THEN limiters[current].age + 1 ELSE limiters[current].age
    BY <1>1, <2>1
  <2> QED
    BY <2>1, <2>2, ReloadBounds
<1>7. GrantsStay'
  <2> SUFFICES ASSUME granted' > strays'
               PROVE  /\ current # 0
                      /\ limiters'[current].age + (IF window' > beat' THEN 0 ELSE 1) < MaxAge
    BY <1>0, <1>1 DEF GrantsStay
  <2>1. window < Rps /\ window' = window + 1 /\ granted > strays
    BY <1>1
  <2>2. /\ current # 0
        /\ limiters[current].age + (IF window > beat THEN 0 ELSE 1) < MaxAge
    BY <1>0, <2>1 DEF GrantsStay
  <2> QED
    BY <1>1, <1>6, <2>1, <2>2, ReloadBounds, LimiterTypes
<1>8. BurstBudget'
  <2>1. Spendable' \in 0..Burst
    BY <1>1, <1>6, ReloadBounds DEF Spendable
  <2>2. granted' \in Nat /\ strays' \in Nat /\ window' \in Nat /\ Burst \in Nat
    BY <1>1, ReloadBounds, LimiterTypes
  <2>3. CASE granted' <= strays'
    <3>1. Spendable' \in Nat /\ Spendable' <= Burst
      BY <2>1, <2>2
    <3>2. granted' + Spendable' <= Burst + window' + strays'
      BY <2>2, <2>3, <3>1, BudgetSums
    <3> QED
      BY <1>0, <3>2 DEF BurstBudget
  <2>4. CASE granted' > strays'
    <3>1. window' = window + 1 /\ granted' = granted /\ strays' = strays
      BY <1>1, <2>4
    <3>2. current # 0 /\ limiters[current].age < MaxAge /\ limiters'[current].age < MaxAge
      BY <1>0, <1>1, <1>5, <1>6, <1>7, <2>4, <3>1, ReloadBounds DEF GrantsStay
    <3>3. Spendable' <= Spendable + 1
      BY <1>1, <1>6, <3>2 DEF Spendable
    <3> QED
      <4>1. /\ granted \in Nat /\ strays \in Nat /\ window \in Nat /\ Burst \in Nat
            /\ Spendable \in Nat /\ Spendable' \in Nat
        BY <2>1, SpendableType, ReloadBounds, LimiterTypes
      <4>2. granted + Spendable <= Burst + window + strays
        BY <1>0 DEF BurstBudget
      <4>3. granted + Spendable' <= Burst + (window + 1) + strays
        BY <3>3, <4>1, <4>2, BudgetSums
      <4> QED
        BY <3>1, <4>3 DEF BurstBudget
  <2> QED
    BY <2>2, <2>3, <2>4
<1> QED
    BY <1>0, <1>1, <1>4, <1>5, <1>7, <1>8 DEF FileOK, CallersOK, ReloadInv

-----------------------------------------------------------------------------
LEMMA StepKeepsReloadInv == ReloadInv /\ [ReloadNext]_reloadVars => ReloadInv'
<1> SUFFICES ASSUME ReloadInv, [ReloadNext]_reloadVars PROVE ReloadInv'
    OBVIOUS
<1>1. CASE Edit \/ Wake \/ Drain \/ Load \/ Swap
    BY <1>1, WatcherKeepsInv
<1>2. CASE Cleanup
    BY <1>2, CleanupKeepsInv
<1>3. CASE Tick
    BY <1>3, TickKeepsInv
<1>4. ASSUME NEW r \in Callers,
             Enter(r) \/ GlobalLimit(r) \/ LookUp(r) \/ Finish(r)
      PROVE  ReloadInv'
    BY <1>4, MovesKeepInv
<1>5. ASSUME NEW r \in Callers, Touch(r) PROVE ReloadInv'
    BY <1>5, TouchKeepsInv
<1>6. ASSUME NEW r \in Callers, Create(r) PROVE ReloadInv'
    BY <1>6, CreateKeepsInv
<1>7. ASSUME NEW r \in Callers, Spend(r) PROVE ReloadInv'
    BY <1>7, SpendKeepsInv
<1>8. CASE UNCHANGED reloadVars
    BY <1>8 DEF reloadVars, ReloadInv, FileOK, LimitersOK, CallersOK, BurstBudget, GrantsStay,
                   Spendable
<1> QED
    BY <1>1, <1>2, <1>3, <1>4, <1>5, <1>6, <1>7, <1>8 DEF ReloadNext, ReloadTasks

\* Every variable of the reload and the rate limits keeps its type, for any number of
\* requests, edits and ticks, any burst, rate and cleanup age.
THEOREM ReloadTypeCorrect == ReloadSpec => []ReloadTypeOK
<1>1. ReloadInv => ReloadTypeOK
    BY ReloadInvSuffices
<1> QED
    BY <1>1, ReloadHoldsFirst, StepKeepsReloadInv, PTL DEF ReloadSpec

\* In any time of at most a second, wherever it begins, an address is admitted no more than
\* its burst, one request for each cell its quota gives back meanwhile, and the requests that
\* held a limiter which cleanup took, or could take, under them (DdosProtection::check,
\* cleanup_stale_limiters).
THEOREM BurstIsKept == ReloadSpec => []BurstKept
<1>1. ReloadInv => BurstKept
    BY ReloadInvSuffices
<1> QED
    BY <1>1, ReloadHoldsFirst, StepKeepsReloadInv, PTL DEF ReloadSpec

-----------------------------------------------------------------------------
\* The safety half of ReloadsConverge: what a valid file says is in place, or something
\* that will put it there is under way.
UnderWay ==
    \/ changed \/ watcher.at \in {"debounce", "load"}
    \/ watcher.at = "write" /\ watcher.version = file.version

NoEditForgotten == file.valid /\ serving # file.version => UnderWay

\* An edit that came after the file was loaded has left its event in the channel.
LateEditTold == watcher.at = "write" /\ watcher.version # file.version => changed

VersionsInOrder ==
    /\ serving <= file.version
    /\ watcher.at = "write" => serving <= watcher.version /\ watcher.version <= file.version

EditsInv == NoEditForgotten /\ LateEditTold /\ VersionsInOrder

LEMMA EditsHoldFirst == ReloadInit => EditsInv
    BY DEF ReloadInit, EditsInv, NoEditForgotten, LateEditTold, VersionsInOrder

LEMMA WatcherTypes ==
    ASSUME ReloadInv
    PROVE  /\ file.version \in Nat /\ file.valid \in BOOLEAN
           /\ watcher.version \in Nat /\ serving \in Nat
           /\ watcher.at \in {"idle", "debounce", "load", "write"}
           /\ watcher = [at |-> watcher.at, version |-> watcher.version]
    BY ReloadAssumption DEF ReloadInv, FileOK

LEMMA StepKeepsEdits ==
    ReloadInv /\ EditsInv /\ [ReloadNext]_reloadVars => EditsInv' /\ serving <= serving'
<1> SUFFICES ASSUME ReloadInv, EditsInv, [ReloadNext]_reloadVars
             PROVE  EditsInv' /\ serving <= serving'
    OBVIOUS
<1> USE WatcherTypes DEF EditsInv, NoEditForgotten, UnderWay, LateEditTold, VersionsInOrder
<1>1. CASE Edit
  <2>1. /\ file'.version = file.version + 1 /\ changed'
        /\ UNCHANGED <<watcher, serving>>
    BY <1>1 DEF Edit
  <2> QED
    BY <2>1
<1>2. CASE Wake
  <2>1. changed /\ watcher'.at = "debounce" /\ UNCHANGED <<file, serving>>
    BY <1>2 DEF Wake
  <2> QED
    BY <2>1
<1>3. CASE Drain
  <2>1. watcher'.at = "load" /\ UNCHANGED <<file, serving>>
    BY <1>3 DEF Drain
  <2> QED
    BY <2>1
<1>4. CASE Load
  <2>1. /\ UNCHANGED <<file, changed, serving>>
        /\ file.valid => watcher' = [at |-> "write", version |-> file.version]
        /\ ~file.valid => watcher'.at = "idle"
    BY <1>4 DEF Load
  <2> QED
    BY <2>1
<1>5. CASE Swap
  <2>1. /\ watcher.at = "write" /\ serving' = watcher.version /\ watcher'.at = "idle"
        /\ UNCHANGED <<file, changed>>
    BY <1>5 DEF Swap
  <2> QED
    BY <2>1
<1>6. CASE UNCHANGED <<file, changed, watcher, serving>>
    BY <1>6
<1>7. ASSUME NEW r \in Callers,
             \/ Enter(r) \/ GlobalLimit(r) \/ LookUp(r) \/ Touch(r) \/ Create(r)
             \/ Spend(r) \/ Finish(r)
      PROVE  UNCHANGED <<file, changed, watcher, serving>>
    BY <1>7 DEF Enter, GlobalLimit, LookUp, Touch, Create, Spend, Finish
<1>8. CASE Cleanup \/ Tick \/ UNCHANGED reloadVars
    BY <1>6, <1>8 DEF Cleanup, Tick, reloadVars
<1> QED
    BY <1>1, <1>2, <1>3, <1>4, <1>5, <1>6, <1>7, <1>8 DEF ReloadNext, ReloadTasks

\* The safety half of ReloadsConverge: while the router serves anything else than what a
\* valid file says, an event waits in the watcher's channel, or the watcher is between the
\* event and the load, or it waits for the write lock with exactly that file; so an edit
\* that comes while the watcher debounces, loads or waits for the requests under way is
\* not lost (spawn_hot_reload_watcher).
THEOREM EditsAreRemembered == ReloadSpec => []NoEditForgotten
<1>1. EditsInv => NoEditForgotten
    BY DEF EditsInv
<1> QED
    BY <1>1, ReloadHoldsFirst, StepKeepsReloadInv, EditsHoldFirst, StepKeepsEdits, PTL
    DEF ReloadSpec

\* A reload never puts an older configuration in place of a newer one, although the file
\* may change between the load and the swap (reload_config).
THEOREM ServingNeverGoesBack == ReloadSpec => [][serving <= serving']_reloadVars
<1>1. ReloadInv /\ EditsInv /\ [ReloadNext]_reloadVars => [serving <= serving']_reloadVars
    BY StepKeepsEdits
<1> QED
    BY <1>1, ReloadHoldsFirst, StepKeepsReloadInv, EditsHoldFirst, StepKeepsEdits, PTL
    DEF ReloadSpec

-----------------------------------------------------------------------------
\* Only one removal runs at a time, and its id has no query.
OneRemoval ==
    /\ \A m, n \in Managers :
          manager[m].at \in {"unlink", "unhash"} /\ manager[n].at \in {"unlink", "unhash"} => m = n
    /\ \A m \in Managers :
          manager[m].at \in {"unlink", "unhash"} => query_by_id[manager[m].id] = NoQuery

Doing(step, q, i) ==
    \E m \in Managers : manager[m].at = step /\ manager[m].query = q /\ manager[m].id = i

Apart == \A q \in Documents \ unclean : Registering(q) = {} \/ Removing(q) = {}

LinksFollow ==
    \A q \in Documents \ unclean : \A i \in OperationIds :
        i \in ids_by_hash[q] \/ Doing("reverse", q, i)
            <=> query_by_id[i] = q \/ Doing("unlink", q, i)

Emptied ==
    \A m \in Managers :
        manager[m].at = "unhash" /\ manager[m].query \notin unclean
            => ids_by_hash[manager[m].query] = {}

WhitelistInv ==
    WhitelistTypeOK /\ OneRemoval /\ Apart /\ LinksFollow /\ Emptied /\ HashFollowsIds

WhitelistSpec == WhitelistInit /\ [][WhitelistNext]_whitelistVars

\* What the maps and the threads are, for the leaves below.
LEMMA WhitelistKinds ==
    ASSUME WhitelistTypeOK
    PROVE  /\ query_by_id \in [OperationIds -> Documents \cup {NoQuery}]
           /\ ids_by_hash \in [Documents -> SUBSET OperationIds]
           /\ DOMAIN manager = Managers
           /\ \A m \in Managers :
                 manager[m].at # "free" => manager[m].id \in OperationIds /\ manager[m].query \in Documents
BY DEF WhitelistTypeOK, Free

-----------------------------------------------------------------------------
LEMMA WhitelistHoldsFirst == WhitelistInit => WhitelistInv
<1> SUFFICES ASSUME WhitelistInit PROVE WhitelistInv
  OBVIOUS
<1>1. \A m \in Managers : manager[m].at = "free"
  BY DEF WhitelistInit, Free
<1>2. WhitelistTypeOK
  BY DEF WhitelistInit, WhitelistTypeOK
<1>3. OneRemoval /\ Apart /\ Emptied
  BY <1>1 DEF OneRemoval, Apart, Emptied, Registering, Removing
<1>4. LinksFollow
  BY <1>1 DEF LinksFollow, Doing, WhitelistInit
<1>5. HashFollowsIds
  BY <1>1, WhitelistAssumption
  DEF HashFollowsIds, AllowedByHash, AllowedById, Registering, Removing, WhitelistInit
<1>6. QED
  BY <1>2, <1>3, <1>4, <1>5 DEF WhitelistInv

LEMMA RegisterQueryKeepsInv ==
    ASSUME WhitelistInv, NEW m \in Managers, NEW i \in OperationIds, NEW q \in Documents,
           RegisterQuery(m, i, q)
    PROVE  WhitelistInv'
<1> USE DEF WhitelistInv
<1>1. /\ manager[m].at = "free" /\ manager' = [manager EXCEPT ![m] = [at |-> "id", id |-> i, query |-> q]]
      /\ UNCHANGED <<query_by_id, ids_by_hash>> /\ query_by_hash' = query_by_hash \cup {q}
      /\ unclean \subseteq unclean' /\ (Removing(q) # {} => q \in unclean')
  BY DEF RegisterQuery, Free
<1>2. DOMAIN manager = Managers
  BY WhitelistKinds
<1>3. WhitelistTypeOK'
  BY DEF WhitelistTypeOK, RegisterQuery
<1>4. OneRemoval' /\ Emptied'
  BY <1>1, <1>2 DEF OneRemoval, Emptied
<1>5. /\ \A p \in Documents : Removing(p)' = Removing(p)
      /\ \A p \in Documents : p # q => Registering(p)' = Registering(p)
      /\ m \in Registering(q)'
  BY <1>1, <1>2 DEF Removing, Registering
<1>6. Apart'
  BY <1>1, <1>5 DEF Apart
<1>7. \A p, j : (Doing("reverse", p, j)' <=> Doing("reverse", p, j))
                  /\ (Doing("unlink", p, j)' <=> Doing("unlink", p, j))
  BY <1>1, <1>2 DEF Doing
<1>8. LinksFollow'
  BY <1>1, <1>7 DEF LinksFollow
<1>9. HashFollowsIds'
  BY <1>1, <1>5 DEF HashFollowsIds, AllowedByHash, AllowedById
<1>10. QED
  BY <1>3, <1>4, <1>6, <1>8, <1>9

LEMMA RegisterIdKeepsInv ==
    ASSUME WhitelistInv, NEW m \in Managers, RegisterId(m)
    PROVE  WhitelistInv'
<1> DEFINE i == manager[m].id
           q == manager[m].query
<1> USE DEF WhitelistInv
<1>1. /\ manager[m].at = "id" /\ manager' = [manager EXCEPT ![m].at = "reverse"]
      /\ query_by_id' = [query_by_id EXCEPT ![i] = q]
      /\ UNCHANGED <<query_by_hash, ids_by_hash>>
      /\ unclean' = unclean \cup ({query_by_id[i]} \ {q, NoQuery})
      /\ \A n \in Managers : manager[n].at \notin {"unlink", "unhash"}
  BY DEF RegisterId, IdsLocked
<1>2. /\ DOMAIN manager = Managers /\ i \in OperationIds /\ q \in Documents
      /\ query_by_id \in [OperationIds -> Documents \cup {NoQuery}]
  BY <1>1, WhitelistKinds
<1>3. /\ manager'[m].at = "reverse" /\ manager'[m].id = i /\ manager'[m].query = q
      /\ \A n \in Managers : n # m => manager'[n] = manager[n]
  BY <1>1, <1>2 DEF WhitelistTypeOK, Free
<1>4. WhitelistTypeOK'
  BY <1>1, <1>2 DEF WhitelistTypeOK, Free
<1> HIDE DEF i, q
<1>5. OneRemoval' /\ Emptied'
  BY <1>1, <1>3 DEF OneRemoval, Emptied
<1>6. /\ \A p \in Documents : Removing(p)' = {}
      /\ \A p \in Documents : Registering(p)' = Registering(p)
      /\ m \in Registering(q)
  BY <1>1, <1>3 DEF Removing, Registering, i, q
<1>7. Apart'
  BY <1>6 DEF Apart
<1>8. LinksFollow'
  <2> SUFFICES ASSUME NEW p \in Documents \ unclean', NEW j \in OperationIds
               PROVE  j \in ids_by_hash'[p] \/ Doing("reverse", p, j)'
                        <=> query_by_id'[j] = p \/ Doing("unlink", p, j)'
    BY DEF LinksFollow
  <2>1. ~Doing("unlink", p, j) /\ ~Doing("unlink", p, j)'
    BY <1>1, <1>3 DEF Doing
  <2>2. j \in ids_by_hash[p] \/ Doing("reverse", p, j) <=> query_by_id[j] = p
    BY <1>1, <2>1 DEF LinksFollow
  <2>3. CASE p = q /\ j = i
    BY <1>1, <1>2, <1>3, <2>3 DEF Doing
  <2>4. CASE ~(p = q /\ j = i)
    <3>1. Doing("reverse", p, j)' <=> Doing("reverse", p, j)
      BY <1>1, <1>3, <2>4 DEF Doing
    <3>2. query_by_id'[j] = p <=> query_by_id[j] = p
      BY <1>1, <1>2, <2>4, WhitelistAssumption
    <3>3. QED
      BY <1>1, <2>1, <2>2, <3>1, <3>2
  <2>5. QED
    BY <2>3, <2>4
<1>9. HashFollowsIds'
  <2> SUFFICES ASSUME NEW p \in Documents \ unclean' PROVE
          p \in query_by_hash' <=>
            \/ \E j \in OperationIds : query_by_id'[j] # NoQuery /\ query_by_id'[j] = p
            \/ Registering(p)' # {} \/ Removing(p)' # {}
    BY DEF HashFollowsIds, AllowedByHash, AllowedById
  <2>1. p \in query_by_hash <=>
            \/ \E j \in OperationIds : query_by_id[j] # NoQuery /\ query_by_id[j] = p
            \/ Registering(p) # {} \/ Removing(p) # {}
    BY <1>1 DEF HashFollowsIds, AllowedByHash, AllowedById
  <2>2. Removing(p) = {}
    BY <1>1 DEF Removing
  <2>3. CASE p = q
    BY <1>1, <1>6, <2>1, <2>3
  <2>4. CASE p # q
    <3>1. \A j \in OperationIds : query_by_id'[j] = p <=> query_by_id[j] = p
      BY <1>1, <1>2, <2>4, WhitelistAssumption
    <3>2. QED
      BY <1>1, <1>6, <2>1, <2>2, <3>1, WhitelistAssumption
  <2>5. QED
    BY <2>3, <2>4
<1>10. QED
  BY <1>4, <1>5, <1>7, <1>8, <1>9

LEMMA RegisterReverseKeepsInv ==
    ASSUME WhitelistInv, NEW m \in Managers, RegisterReverse(m)
    PROVE  WhitelistInv'
<1> DEFINE i == manager[m].id
           q == manager[m].query
<1> USE DEF WhitelistInv
<1>1. /\ manager[m].at = "reverse" /\ manager' = [manager EXCEPT ![m] = Free]
      /\ ids_by_hash' = [ids_by_hash EXCEPT ![q] = @ \cup {i}]
      /\ UNCHANGED <<query_by_hash, query_by_id, unclean>>
      /\ \A n \in Managers : manager[n].at # "unhash"
  BY DEF RegisterReverse, ReverseLocked
<1>2. /\ DOMAIN manager = Managers /\ i \in OperationIds /\ q \in Documents
      /\ ids_by_hash \in [Documents -> SUBSET OperationIds]
  BY <1>1, WhitelistKinds
<1>3. /\ manager'[m].at = "free"
      /\ \A n \in Managers : n # m => manager'[n] = manager[n]
  BY <1>1, <1>2 DEF Free
<1>4. WhitelistTypeOK'
  BY <1>1, <1>2 DEF WhitelistTypeOK
<1>5. manager[m].id = i /\ manager[m].query = q
  OBVIOUS
<1> HIDE DEF i, q
<1>6. OneRemoval' /\ Emptied'
  BY <1>1, <1>3 DEF OneRemoval, Emptied
<1>7. /\ \A p \in Documents : Removing(p)' = Removing(p)
      /\ \A p \in Documents : Registering(p)' = Registering(p) \ {m}
      /\ \A p \in Documents : p # q => m \notin Registering(p)
      /\ m \in Registering(q)
  BY <1>1, <1>3, <1>5 DEF Removing, Registering
<1>8. Apart'
  BY <1>1, <1>7 DEF Apart
<1>9. LinksFollow'
  <2> SUFFICES ASSUME NEW p \in Documents \ unclean, NEW j \in OperationIds
               PROVE  j \in ids_by_hash'[p] \/ Doing("reverse", p, j)'
                        <=> query_by_id[j] = p \/ Doing("unlink", p, j)'
    BY <1>1 DEF LinksFollow
  <2>1. j \in ids_by_hash[p] \/ Doing("reverse", p, j)
          <=> query_by_id[j] = p \/ Doing("unlink", p, j)
    BY DEF LinksFollow
  <2>2. Doing("unlink", p, j)' <=> Doing("unlink", p, j)
    BY <1>1, <1>3 DEF Doing
  <2>3. CASE p = q /\ j = i
    BY <1>1, <1>2, <1>5, <2>1, <2>2, <2>3 DEF Doing
  <2>4. CASE ~(p = q /\ j = i)
    <3>1. Doing("reverse", p, j)' <=> Doing("reverse", p, j)
      BY <1>3, <1>5, <2>4, <1>1 DEF Doing
    <3>2. j \in ids_by_hash'[p] <=> j \in ids_by_hash[p]
      BY <1>1, <1>2, <2>4
    <3>3. QED
      BY <2>1, <2>2, <3>1, <3>2
  <2>5. QED
    BY <2>3, <2>4
<1>10. q \notin unclean => query_by_id[i] = q
  <2> SUFFICES ASSUME q \notin unclean PROVE query_by_id[i] = q
    OBVIOUS
  <2>1. Doing("reverse", q, i)
    BY <1>1, <1>5 DEF Doing
  <2>2. query_by_id[i] = q \/ Doing("unlink", q, i)
    BY <1>2, <2>1 DEF LinksFollow
  <2>3. Removing(q) = {}
    BY <1>2, <1>7 DEF Apart
  <2>4. QED
    BY <2>2, <2>3 DEF Doing, Removing
<1>11. HashFollowsIds'
  <2> SUFFICES ASSUME NEW p \in Documents \ unclean PROVE
          p \in query_by_hash <=>
            \/ \E j \in OperationIds : query_by_id[j] # NoQuery /\ query_by_id[j] = p
            \/ Registering(p)' # {} \/ Removing(p)' # {}
    BY <1>1 DEF HashFollowsIds, AllowedByHash, AllowedById
  <2>1. p \in query_by_hash <=>
            \/ \E j \in OperationIds : query_by_id[j] # NoQuery /\ query_by_id[j] = p
            \/ Registering(p) # {} \/ Removing(p) # {}
    BY DEF HashFollowsIds, AllowedByHash, AllowedById
  <2>2. CASE p = q
    BY <1>2, <1>7, <1>10, <2>1, <2>2, WhitelistAssumption
  <2>3. CASE p # q
    BY <1>7, <2>1, <2>3
  <2>4. QED
    BY <2>2, <2>3
<1>12. QED
  BY <1>4, <1>6, <1>8, <1>9, <1>11

LEMMA RemoveQueryIdKeepsInv ==
    ASSUME WhitelistInv, NEW m \in Managers, NEW i \in OperationIds, RemoveQueryId(m, i)
    PROVE  WhitelistInv'
<1> USE DEF WhitelistInv
<1>0. PICK q \in Documents : q = query_by_id[i]
  BY WhitelistKinds DEF RemoveQueryId
<1>1. /\ manager[m].at = "free" /\ q # NoQuery
      /\ manager' = [manager EXCEPT ![m] = [at |-> "unlink", id |-> i, query |-> q]]
      /\ query_by_id' = [query_by_id EXCEPT ![i] = NoQuery]
      /\ UNCHANGED <<query_by_hash, ids_by_hash>>
      /\ unclean' = IF Registering(q) # {} THEN unclean \cup {q} ELSE unclean
      /\ \A n \in Managers : manager[n].at \notin {"unlink", "unhash"}
  BY <1>0 DEF RemoveQueryId, IdsLocked, Free
<1>2. /\ DOMAIN manager = Managers /\ q \in Documents
      /\ query_by_id \in [OperationIds -> Documents \cup {NoQuery}]
  BY <1>1, WhitelistKinds
<1>3. /\ manager'[m].at = "unlink" /\ manager'[m].id = i /\ manager'[m].query = q
      /\ \A n \in Managers : n # m => manager'[n] = manager[n]
  BY <1>1, <1>2
<1>4. WhitelistTypeOK'
  BY <1>1, <1>2 DEF WhitelistTypeOK
<1>6. OneRemoval' /\ Emptied'
  BY <1>1, <1>2, <1>3 DEF OneRemoval, Emptied
<1>7. /\ \A p \in Documents : Registering(p)' = Registering(p)
      /\ \A p \in Documents : p # q => Removing(p)' = {}
      /\ m \in Removing(q)'
      /\ \A p \in Documents : Removing(p) = {}
  <2>1. ASSUME NEW p \in Documents, NEW n \in Managers
        PROVE  (n \in Registering(p))' <=> n \in Registering(p)
    BY <1>1, <1>3 DEF Registering
  <2>2. ASSUME NEW p \in Documents, NEW n \in Managers
        PROVE  (n \in Removing(p))' <=> n = m /\ p = q
    BY <1>1, <1>3 DEF Removing
  <2>3. \A p \in Documents : Registering(p)' = Registering(p)
    BY <2>1 DEF Registering
  <2>4. \A p \in Documents : p # q => Removing(p)' = {}
    BY <2>2 DEF Removing
  <2>5. m \in Removing(q)'
    BY <1>2, <2>2
  <2>6. \A p \in Documents : Removing(p) = {}
    BY <1>1 DEF Removing
  <2>7. QED
    BY <2>3, <2>4, <2>5, <2>6
<1>8. unclean \subseteq unclean' /\ (q \notin unclean' => Registering(q) = {})
  BY <1>1
<1>9. Apart'
  BY <1>7, <1>8 DEF Apart
<1>10. LinksFollow'
  <2> SUFFICES ASSUME NEW p \in Documents \ unclean', NEW j \in OperationIds
               PROVE  j \in ids_by_hash[p] \/ Doing("reverse", p, j)'
                        <=> query_by_id'[j] = p \/ Doing("unlink", p, j)'
    BY <1>1 DEF LinksFollow
  <2>1. j \in ids_by_hash[p] \/ Doing("reverse", p, j)
          <=> query_by_id[j] = p \/ Doing("unlink", p, j)
    BY <1>8 DEF LinksFollow
  <2>2. Doing("reverse", p, j)' <=> Doing("reverse", p, j)
    BY <1>1, <1>3 DEF Doing
  <2>3. ~Doing("unlink", p, j)
    BY <1>1 DEF Doing
  <2>4. CASE p = q /\ j = i
    BY <1>3, <1>0, <2>1, <2>2, <2>4 DEF Doing
  <2>5. CASE ~(p = q /\ j = i)
    <3>1. ~Doing("unlink", p, j)'
      BY <1>1, <1>3, <2>5 DEF Doing
    <3>2. query_by_id'[j] = p <=> query_by_id[j] = p
      BY <1>1, <1>2, <1>0, <2>5, WhitelistAssumption
    <3>3. QED
      BY <2>1, <2>2, <2>3, <3>1, <3>2
  <2>6. QED
    BY <2>4, <2>5
<1>11. HashFollowsIds'
  <2> SUFFICES ASSUME NEW p \in Documents \ unclean' PROVE
          p \in query_by_hash <=>
            \/ \E j \in OperationIds : query_by_id'[j] # NoQuery /\ query_by_id'[j] = p
            \/ Registering(p)' # {} \/ Removing(p)' # {}
    BY <1>1 DEF HashFollowsIds, AllowedByHash, AllowedById
  <2>1. p \in query_by_hash <=>
            \/ \E j \in OperationIds : query_by_id[j] # NoQuery /\ query_by_id[j] = p
            \/ Registering(p) # {} \/ Removing(p) # {}
    BY <1>8 DEF HashFollowsIds, AllowedByHash, AllowedById
  <2>2. CASE p = q
    <3>1. p \in query_by_hash
      BY <1>1, <1>0, <2>1, <2>2
    <3>2. Removing(q)' # {}
      BY <1>7
    <3>3. QED
      BY <2>2, <3>1, <3>2
  <2>3. CASE p # q
    <3>1. \A j \in OperationIds : query_by_id'[j] = p <=> query_by_id[j] = p
      BY <1>1, <1>2, <1>0, <2>3, WhitelistAssumption
    <3>2. QED
      BY <1>7, <2>1, <2>3, <3>1, WhitelistAssumption
  <2>4. QED
    BY <2>2, <2>3
<1>12. QED
  BY <1>4, <1>6, <1>9, <1>10, <1>11

LEMMA UnlinkKeepsInv ==
    ASSUME WhitelistInv, NEW m \in Managers, Unlink(m)
    PROVE  WhitelistInv'
<1> USE DEF WhitelistInv
<1>0. PICK i \in OperationIds, q \in Documents : manager[m].id = i /\ manager[m].query = q
  BY WhitelistKinds DEF Unlink
<1> DEFINE last == ids_by_hash[q] # {} /\ ids_by_hash'[q] = {}
<1>1. /\ manager[m].at = "unlink"
      /\ manager' = [manager EXCEPT ![m] = IF last THEN [@ EXCEPT !.at = "unhash"] ELSE Free]
      /\ ids_by_hash' = [ids_by_hash EXCEPT ![q] = @ \ {i}]
      /\ UNCHANGED <<query_by_hash, query_by_id, unclean>>
  BY <1>0 DEF Unlink
<1>2. /\ DOMAIN manager = Managers
      /\ ids_by_hash \in [Documents -> SUBSET OperationIds]
  BY <1>1, WhitelistKinds
<1>3. /\ manager'[m].at = IF last THEN "unhash" ELSE "free"
      /\ last => manager'[m].query = q /\ manager'[m].id = i
      /\ \A n \in Managers : n # m => manager'[n] = manager[n]
  <2>1. manager'[m] = IF last THEN [manager[m] EXCEPT !.at = "unhash"] ELSE Free
    BY <1>1, <1>2
  <2>2. manager[m] \in [at : {"id", "reverse", "unlink", "unhash"},
                        id : OperationIds, query : Documents]
    BY <1>1 DEF WhitelistTypeOK, Free
  <2>3. QED
    BY <1>0, <1>1, <2>1, <2>2 DEF Free
<1>4. WhitelistTypeOK'
  BY <1>1, <1>2 DEF WhitelistTypeOK, Free
<1>5. /\ manager[m].id = i /\ manager[m].query = q
      /\ last <=> ids_by_hash[q] # {} /\ ids_by_hash'[q] = {}
  BY <1>0
<1> HIDE DEF last
<1>6. \A n \in Managers : n # m => manager[n].at \notin {"unlink", "unhash"}
  BY <1>1 DEF OneRemoval
<1>7. query_by_id[i] = NoQuery
  BY <1>1, <1>5 DEF OneRemoval
<1>8. OneRemoval'
  BY <1>1, <1>3, <1>6, <1>7 DEF OneRemoval
<1>9. Emptied'
  BY <1>1, <1>3, <1>5, <1>6 DEF Emptied
<1>10. /\ \A p \in Documents : Registering(p)' = Registering(p)
       /\ \A p \in Documents : p # q => Removing(p)' = {} /\ Removing(p) = {}
       /\ Removing(q) # {} /\ (Removing(q)' # {} <=> last)
  <2>1. ASSUME NEW p \in Documents, NEW n \in Managers
        PROVE  (n \in Registering(p))' <=> n \in Registering(p)
    BY <1>1, <1>3 DEF Registering
  <2>2. ASSUME NEW p \in Documents, NEW n \in Managers
        PROVE  /\ n \in Removing(p) <=> n = m /\ p = q
               /\ (n \in Removing(p))' <=> n = m /\ p = q /\ last
    BY <1>1, <1>3, <1>5, <1>6 DEF Removing
  <2>3. \A p \in Documents : Registering(p)' = Registering(p)
    BY <2>1 DEF Registering
  <2>4. \A p \in Documents : p # q => Removing(p)' = {} /\ Removing(p) = {}
    BY <2>2 DEF Removing
  <2>5. m \in Removing(q) /\ (m \in Removing(q)' <=> last)
    BY <1>2, <2>2
  <2>6. Removing(q)' # {} => last
    BY <1>2, <2>2 DEF Removing
  <2>7. QED
    BY <2>3, <2>4, <2>5, <2>6
<1>11. Apart'
  BY <1>1, <1>10 DEF Apart
<1>12. \A p \in Documents, j \in OperationIds :
          /\ Doing("reverse", p, j)' <=> Doing("reverse", p, j)
          /\ ~Doing("unlink", p, j)'
          /\ Doing("unlink", p, j) <=> p = q /\ j = i
  BY <1>1, <1>3, <1>5, <1>6 DEF Doing
<1>13. q \notin unclean => \A j \in OperationIds : ~Doing("reverse", q, j)
  BY <1>2, <1>10 DEF Apart, Doing, Registering
<1>14. LinksFollow'
  <2> SUFFICES ASSUME NEW p \in Documents \ unclean, NEW j \in OperationIds
               PROVE  j \in ids_by_hash'[p] \/ Doing("reverse", p, j)'
                        <=> query_by_id[j] = p \/ Doing("unlink", p, j)'
    BY <1>1 DEF LinksFollow
  <2>1. j \in ids_by_hash[p] \/ Doing("reverse", p, j)
          <=> query_by_id[j] = p \/ Doing("unlink", p, j)
    BY DEF LinksFollow
  <2>2. CASE p = q /\ j = i
    BY <1>1, <1>2, <1>7, <1>12, <1>13, <2>2, WhitelistAssumption
  <2>3. CASE ~(p = q /\ j = i)
    <3>1. j \in ids_by_hash'[p] <=> j \in ids_by_hash[p]
      BY <1>1, <1>2, <2>3
    <3>2. QED
      BY <1>12, <2>1, <2>3, <3>1
  <2>4. QED
    BY <2>2, <2>3
<1>15. q \notin unclean /\ ~last => \E j \in OperationIds : query_by_id[j] = q
  <2> SUFFICES ASSUME q \notin unclean, ~last PROVE \E j \in OperationIds : query_by_id[j] = q
    OBVIOUS
  <2>1. i \in ids_by_hash[q]
    BY <1>2, <1>12, <1>13 DEF LinksFollow
  <2>2. PICK j \in OperationIds : j \in ids_by_hash'[q]
    BY <1>1, <1>2, <1>5, <2>1
  <2>3. j # i /\ j \in ids_by_hash[q]
    BY <1>1, <1>2, <2>2
  <2>4. query_by_id[j] = q \/ Doing("unlink", q, j)
    BY <1>2, <2>3 DEF LinksFollow
  <2>5. QED
    BY <1>2, <1>12, <2>3, <2>4
<1>16. HashFollowsIds'
  <2> SUFFICES ASSUME NEW p \in Documents \ unclean PROVE
          p \in query_by_hash <=>
            \/ \E j \in OperationIds : query_by_id[j] # NoQuery /\ query_by_id[j] = p
            \/ Registering(p)' # {} \/ Removing(p)' # {}
    BY <1>1 DEF HashFollowsIds, AllowedByHash, AllowedById
  <2>1. p \in query_by_hash <=>
            \/ \E j \in OperationIds : query_by_id[j] # NoQuery /\ query_by_id[j] = p
            \/ Registering(p) # {} \/ Removing(p) # {}
    BY DEF HashFollowsIds, AllowedByHash, AllowedById
  <2>2. CASE p = q
    <3>1. p \in query_by_hash
      BY <1>10, <2>1, <2>2
    <3>2. CASE last
      BY <1>10, <2>2, <3>1, <3>2
    <3>3. CASE ~last
      BY <1>2, <1>15, <2>2, <3>1, <3>3, WhitelistAssumption
    <3>4. QED
      BY <3>2, <3>3
  <2>3. CASE p # q
    BY <1>10, <2>1, <2>3
  <2>4. QED
    BY <2>2, <2>3
<1>17. QED
  BY <1>4, <1>8, <1>9, <1>11, <1>14, <1>16

LEMMA UnhashKeepsInv ==
    ASSUME WhitelistInv, NEW m \in Managers, Unhash(m)
    PROVE  WhitelistInv'
<1> DEFINE q == manager[m].query
<1> USE DEF WhitelistInv
<1>1. /\ manager[m].at = "unhash" /\ manager' = [manager EXCEPT ![m] = Free]
      /\ query_by_hash' = query_by_hash \ {q}
      /\ UNCHANGED <<query_by_id, ids_by_hash, unclean>>
  BY DEF Unhash
<1>2. DOMAIN manager = Managers /\ q \in Documents
  BY <1>1, WhitelistKinds
<1>3. /\ manager'[m].at = "free"
      /\ \A n \in Managers : n # m => manager'[n] = manager[n]
  BY <1>1, <1>2 DEF Free
<1>4. WhitelistTypeOK'
  BY <1>1, <1>2 DEF WhitelistTypeOK
<1>5. manager[m].query = q
  OBVIOUS
<1> HIDE DEF q
<1>6. \A n \in Managers : n # m => manager[n].at \notin {"unlink", "unhash"}
  BY <1>1 DEF OneRemoval
<1>7. OneRemoval' /\ Emptied'
  BY <1>1, <1>3, <1>6 DEF OneRemoval, Emptied
<1>8. /\ \A p \in Documents : Registering(p)' = Registering(p) /\ Removing(p)' = {}
      /\ \A p \in Documents : p # q => Removing(p) = {}
      /\ Removing(q) # {}
  BY <1>1, <1>3, <1>5, <1>6 DEF Removing, Registering
<1>9. Apart'
  BY <1>8 DEF Apart
<1>10. \A p \in Documents, j \in OperationIds :
          /\ Doing("reverse", p, j)' <=> Doing("reverse", p, j)
          /\ ~Doing("unlink", p, j)' /\ ~Doing("unlink", p, j)
  BY <1>1, <1>3, <1>6 DEF Doing
<1>11. LinksFollow'
  BY <1>1, <1>10 DEF LinksFollow
<1>12. q \notin unclean =>
          Registering(q) = {} /\ \A j \in OperationIds : query_by_id[j] # q
  <2> SUFFICES ASSUME q \notin unclean
               PROVE  Registering(q) = {} /\ \A j \in OperationIds : query_by_id[j] # q
    OBVIOUS
  <2>1. Registering(q) = {}
    BY <1>2, <1>8 DEF Apart
  <2>2. ids_by_hash[q] = {}
    BY <1>1, <1>5 DEF Emptied
  <2>3. \A j \in OperationIds : ~Doing("reverse", q, j)
    BY <2>1 DEF Doing, Registering
  <2>4. QED
    BY <1>2, <2>1, <2>2, <2>3 DEF LinksFollow
<1>13. HashFollowsIds'
  <2> SUFFICES ASSUME NEW p \in Documents \ unclean PROVE
          p \in query_by_hash' <=>
            \/ \E j \in OperationIds : query_by_id[j] # NoQuery /\ query_by_id[j] = p
            \/ Registering(p)' # {} \/ Removing(p)' # {}
    BY <1>1 DEF HashFollowsIds, AllowedByHash, AllowedById
  <2>1. p \in query_by_hash <=>
            \/ \E j \in OperationIds : query_by_id[j] # NoQuery /\ query_by_id[j] = p
            \/ Registering(p) # {} \/ Removing(p) # {}
    BY DEF HashFollowsIds, AllowedByHash, AllowedById
  <2>2. CASE p = q
    BY <1>1, <1>8, <1>12, <2>2
  <2>3. CASE p # q
    BY <1>1, <1>8, <2>1, <2>3
  <2>4. QED
    BY <2>2, <2>3
<1>14. QED
  BY <1>4, <1>7, <1>9, <1>11, <1>13

LEMMA StepKeepsWhitelistInv == WhitelistInv /\ [WhitelistNext]_whitelistVars => WhitelistInv'
<1> SUFFICES ASSUME WhitelistInv, [WhitelistNext]_whitelistVars PROVE WhitelistInv'
  OBVIOUS
<1>1. CASE WhitelistNext
  BY <1>1, RegisterQueryKeepsInv, RegisterIdKeepsInv, RegisterReverseKeepsInv,
     RemoveQueryIdKeepsInv, UnlinkKeepsInv, UnhashKeepsInv DEF WhitelistNext
<1>2. CASE UNCHANGED whitelistVars
  BY <1>2 DEF whitelistVars, WhitelistInv, WhitelistTypeOK, OneRemoval, Apart, LinksFollow,
              Emptied, HashFollowsIds, AllowedByHash, AllowedById, Doing, Registering, Removing
<1>3. QED
  BY <1>1, <1>2

-----------------------------------------------------------------------------
\* The maps of the whitelist and what its threads hold keep their types.
THEOREM WhitelistTypeCorrect == WhitelistSpec => []WhitelistTypeOK
<1>1. WhitelistInv => WhitelistTypeOK
  BY DEF WhitelistInv
<1>2. QED
  BY <1>1, WhitelistHoldsFirst, StepKeepsWhitelistInv, PTL DEF WhitelistSpec

\* However registrations and removals interleave, a query that was not renamed away from
\* an id, and had no registration overlapping a removal, is allowed by its text exactly
\* while an id stands for it or one of the two is under way.
THEOREM HashFollows == WhitelistSpec => []HashFollowsIds
<1>1. WhitelistInv => HashFollowsIds
  BY DEF WhitelistInv
<1>2. QED
  BY <1>1, WhitelistHoldsFirst, StepKeepsWhitelistInv, PTL DEF WhitelistSpec

-----------------------------------------------------------------------------
USE RestAssumption

RestCall == [at : {"start", "send", "waiting", "answered", "insert", "ended"},
         key : RestKeys \cup {NotCached}, attempts : Nat, shows : SUBSET Writes, early : BOOLEAN]

CallsOK == restCall \in [Calls -> RestCall]

\* A write that was answered, or returned Ok, was performed, and none is cached.
Performed ==
    /\ stored \subseteq Writes /\ underWay \subseteq Writes \X Nat
    /\ floor \subseteq told /\ told \subseteq stored
    /\ \A c \in Writes :
          restCall[c].at # "insert" /\ (restCall[c].at = "answered" => c \in stored)

\* A GET whose answer is not early has seen what had returned at the last clear.
Seen ==
    \A c \in Reads : restCall[c].at \in {"answered", "insert"}
                        => floor \subseteq restCall[c].shows \/ restCall[c].early

ForgetInv == CallsOK /\ Performed /\ Seen /\ ClearedReadsShowWrites

RestSpec == RestInit /\ [][RestNext]_restVars

-----------------------------------------------------------------------------
\* What a call is before it starts and after it ends.
LEMMA FreshCalls ==
    /\ Ended \in RestCall /\ Ended.at = "ended"
    /\ [Ended EXCEPT !.at = "start"] \in RestCall /\ [Ended EXCEPT !.at = "start"].at = "start"
  BY DEF Ended, RestCall

\* RestInit: nothing is answered, told or cached.
LEMMA RestHoldsFirst == RestInit => ForgetInv
<1> SUFFICES ASSUME RestInit PROVE ForgetInv
  OBVIOUS
<1>1. \A c \in Calls : restCall[c].at = "start"
  BY FreshCalls DEF RestInit
<1>2. CallsOK
  BY FreshCalls DEF RestInit, CallsOK
<1>3. Performed /\ Seen
  BY <1>1 DEF RestInit, Performed, Seen, Calls
<1>4. ClearedReadsShowWrites
  BY DEF RestInit, ClearedReadsShowWrites, CachedKeys
<1> QED
  BY <1>2, <1>3, <1>4 DEF ForgetInv

\* The steps that touch neither the cache nor the clears, for what they must show.
LEMMA CacheUntouched ==
    ASSUME ClearedReadsShowWrites, UNCHANGED cacheVars
    PROVE  ClearedReadsShowWrites'
  BY DEF ClearedReadsShowWrites, CachedKeys, cacheVars

\* A call that ends or goes back in the loop says nothing any more.
LEMMA CallMoves ==
    ASSUME ForgetInv, NEW c \in Calls,
           \/ Ends(c)
           \/ \E where \in {"send", "ended"} : MoveCall(c, where)
           \/ \E k \in RestKeys : restCall' = [restCall EXCEPT ![c].key = k, ![c].at = "send"],
           UNCHANGED <<stored, told, cacheVars>>, underWay' \subseteq Writes \X Nat
    PROVE  ForgetInv'
<1>1. \A d \in Calls \ {c} : restCall'[d] = restCall[d]
  BY DEF ForgetInv, CallsOK, Ends, MoveCall
<1>2. CallsOK' /\ restCall'[c].at \in {"send", "ended"}
  <2>1. CASE Ends(c)
    <3>1. restCall' \in [Calls -> RestCall]
      BY <2>1, FreshCalls DEF ForgetInv, CallsOK, Ends
    <3>2. restCall'[c] = Ended
      BY <2>1 DEF ForgetInv, CallsOK, Ends
    <3>3. restCall'[c].at = "ended"
      BY <3>2, FreshCalls, Zenon
    <3> QED
      BY <3>1, <3>3 DEF CallsOK
  <2>2. ASSUME NEW where \in {"send", "ended"}, MoveCall(c, where)
        PROVE  CallsOK' /\ restCall'[c].at \in {"send", "ended"}
    BY <2>2 DEF ForgetInv, CallsOK, RestCall, MoveCall
  <2>3. ASSUME NEW k \in RestKeys,
               restCall' = [restCall EXCEPT ![c].key = k, ![c].at = "send"]
        PROVE  CallsOK' /\ restCall'[c].at \in {"send", "ended"}
    <3> DEFINE sending == [restCall[c] EXCEPT !.key = k, !.at = "send"]
    <3>0. restCall[c] \in RestCall
      BY DEF ForgetInv, CallsOK
    <3>a. sending \in RestCall
      BY ONLY <3>0, k \in RestKeys DEF RestCall
    <3>b. sending.at = "send"
      BY ONLY <3>0 DEF RestCall
    <3>1. sending \in RestCall /\ sending.at = "send"
      BY <3>a, <3>b
    <3>2. restCall' = [restCall EXCEPT ![c] = sending]
      BY <2>3
    <3> HIDE DEF sending
    <3> QED
      BY <3>1, <3>2 DEF ForgetInv, CallsOK
  <2> QED
    BY <2>1, <2>2, <2>3
<1>3. Performed'
  BY <1>1, <1>2 DEF ForgetInv, Performed, cacheVars, Calls
<1>4. Seen'
  BY <1>1, <1>2 DEF ForgetInv, Seen, cacheVars, Calls
<1> QED
  BY <1>2, <1>3, <1>4, CacheUntouched DEF ForgetInv

\* Every step of the calls, the service and clear_cache keeps the invariant.
LEMMA StepKeepsForgetInv == ForgetInv /\ [RestNext]_restVars => ForgetInv'
<1> SUFFICES ASSUME ForgetInv, [RestNext]_restVars PROVE ForgetInv'
  OBVIOUS
<1> USE DEF ForgetInv
<1>1. ASSUME NEW c \in Calls, Lookup(c) PROVE ForgetInv'
  BY <1>1, CallMoves DEF Lookup, Performed
<1>2. ASSUME NEW c \in Calls, Send(c) PROVE ForgetInv'
  <2>1. \A d \in Calls \ {c} : restCall'[d] = restCall[d]
    BY <1>2 DEF Send, CallsOK, RestCall
  <2>2. CallsOK' /\ restCall'[c].at = "waiting"
    BY <1>2 DEF Send, CallsOK, RestCall
  <2>3. Performed'
    BY <1>2, <2>1, <2>2 DEF Send, Performed, cacheVars, Calls
  <2>4. Seen'
    BY <1>2, <2>1, <2>2 DEF Send, Seen, cacheVars, Calls
  <2> QED
    BY <1>2, <2>2, <2>3, <2>4, CacheUntouched DEF Send
<1>3. ASSUME NEW c \in Calls, Answer(c) PROVE ForgetInv'
  <2>1. \A d \in Calls \ {c} : restCall'[d] = restCall[d]
    BY <1>3 DEF Answer, CallsOK, RestCall
  <2>2. CallsOK' /\ restCall'[c].at = "answered" /\ restCall'[c].shows = stored /\ c \in Reads
    BY <1>3, ZenonT(30) DEF Answer, CallsOK, RestCall, Performed
  <2>3. Performed'
    BY <1>3, <2>1, <2>2 DEF Answer, Performed, cacheVars, Calls
  <2>4. Seen'
    BY <1>3, <2>1, <2>2 DEF Answer, Seen, Performed, cacheVars, Calls
  <2> QED
    BY <1>3, <2>2, <2>3, <2>4, CacheUntouched DEF Answer
<1>4. ASSUME NEW c \in Calls, NEW n \in 1..(MaxRetries + 1), Perform(c, n) PROVE ForgetInv'
  <2>1. c \in Writes /\ stored' = stored \cup {c}
    BY <1>4 DEF Perform, Performed
  <2>2. \A d \in Calls \ {c} : restCall'[d] = restCall[d]
    BY <1>4 DEF Perform, MoveCall, CallsOK, RestCall
  <2>3. CallsOK' /\ restCall'[c].at \in {restCall[c].at, "answered"}
    BY <1>4 DEF Perform, MoveCall, CallsOK, RestCall
  <2>4. Performed'
    BY <1>4, <2>1, <2>2, <2>3 DEF Perform, Performed, cacheVars, Calls
  <2>5. Seen'
    BY <1>4, <2>1, <2>2 DEF Perform, Seen, cacheVars, Calls
  <2> QED
    BY <1>4, <2>3, <2>4, <2>5, CacheUntouched DEF Perform
<1>5. ASSUME NEW c \in Calls, Reject(c) PROVE ForgetInv'
  BY <1>5, CallMoves DEF Reject, RetryOrFail, Performed
<1>6. ASSUME NEW c \in Calls, GiveUp(c) PROVE ForgetInv'
  BY <1>6, CallMoves DEF GiveUp, RetryOrFail, Performed
<1>7. ASSUME NEW c \in Calls, TakeAnswer(c) PROVE ForgetInv'
  <2>1. CASE Ends(c) /\ UNCHANGED told
    BY <1>7, <2>1, CallMoves DEF TakeAnswer, Performed
  <2>2. CASE c \in Reads /\ MoveCall(c, "insert") /\ UNCHANGED told
    <3>1. /\ \A d \in Calls \ {c} : restCall'[d] = restCall[d]
          /\ restCall'[c] = [restCall[c] EXCEPT !.at = "insert"]
      BY <2>2 DEF MoveCall, CallsOK, RestCall
    <3>2. CallsOK'
      BY <2>2 DEF MoveCall, CallsOK, RestCall
    <3>3. Performed'
      BY <1>7, <2>2, <3>1 DEF TakeAnswer, Performed, cacheVars, Calls
    <3>4. restCall[c].at = "answered" /\ restCall'[c].shows = restCall[c].shows
            /\ restCall'[c].early = restCall[c].early
      BY <1>7, <3>1 DEF TakeAnswer, CallsOK, RestCall
    <3>5. Seen'
      BY <1>7, <2>2, <3>1, <3>4 DEF TakeAnswer, Seen, cacheVars, Calls
    <3> QED
      BY <1>7, <3>2, <3>3, <3>5, CacheUntouched DEF TakeAnswer
  <2>3. CASE c \in Writes /\ Ends(c) /\ told' = told \cup {c}
    <3>1. \A d \in Calls \ {c} : restCall'[d] = restCall[d]
      BY <2>3 DEF Ends, CallsOK, RestCall
    <3>2. CallsOK' /\ restCall'[c].at = "ended"
      BY <2>3 DEF Ends, Ended, CallsOK, RestCall
    <3>3. c \in stored
      BY <1>7, <2>3 DEF TakeAnswer, Performed
    <3>4. Performed'
      BY <1>7, <2>3, <3>1, <3>2, <3>3 DEF TakeAnswer, Performed, cacheVars, Calls
    <3>5. Seen'
      BY <1>7, <3>1, <3>2 DEF TakeAnswer, Seen, cacheVars, Calls
    <3> QED
      BY <1>7, <3>2, <3>4, <3>5, CacheUntouched DEF TakeAnswer
  <2> QED
    BY <1>7, <2>1, <2>2, <2>3 DEF TakeAnswer
<1>8. ASSUME NEW c \in Calls, RestInsert(c) PROVE ForgetInv'
  <2>1. /\ Ends(c) /\ UNCHANGED <<underWay, stored, told, floor, clears>>
        /\ restCall[c].at = "insert"
    BY <1>8 DEF RestInsert
  <2>2. \A d \in Calls \ {c} : restCall'[d] = restCall[d]
    BY <2>1 DEF Ends, CallsOK, RestCall
  <2>3. CallsOK' /\ restCall'[c].at = "ended"
    BY <2>1 DEF Ends, Ended, CallsOK, RestCall
  <2>4. Performed' /\ Seen'
    BY <2>1, <2>2, <2>3 DEF Performed, Seen, Calls
  <2>5. floor \subseteq restCall[c].shows \/ restCall[c].early
    BY <2>1 DEF Performed, Seen, Calls
  <2>6. \A k \in RestKeys :
           \/ restCache'[k] \in {restCache[k], NotCached}
           \/ restCache'[k] = [shows |-> restCall[c].shows, early |-> restCall[c].early]
    BY <1>8 DEF RestInsert
  <2>7. ClearedReadsShowWrites'
    BY <2>1, <2>5, <2>6 DEF ClearedReadsShowWrites, CachedKeys
  <2> QED
    BY <2>3, <2>4, <2>7
<1>9. ASSUME NEW c \in Calls, Abandon(c) PROVE ForgetInv'
  BY <1>9, CallMoves DEF Abandon, Performed
<1>10. ASSUME ClearRest PROVE ForgetInv'
  <2>1. CallsOK'
    BY <1>10, ZenonT(30) DEF ClearRest, CallsOK, RestCall
  <2>2. \A c \in Calls : /\ restCall'[c].at = restCall[c].at
                         /\ restCall[c].at \in {"answered", "insert"} => restCall'[c].early
    BY <1>10 DEF ClearRest, CallsOK, RestCall
  <2>3. Performed' /\ Seen'
    BY <1>10, <2>2 DEF ClearRest, Performed, Seen, Calls
  <2>4. ClearedReadsShowWrites'
    BY <1>10 DEF ClearRest, ClearedReadsShowWrites, CachedKeys
  <2> QED
    BY <2>1, <2>3, <2>4
<1>11. CASE UNCHANGED restVars
  BY <1>11 DEF restVars, cacheVars, CallsOK, RestCall, Performed, Seen, ClearedReadsShowWrites, CachedKeys
<1> QED
  BY <1>1, <1>2, <1>3, <1>4, <1>5, <1>6, <1>7, <1>8, <1>9, <1>10, <1>11 DEF RestNext

\* No call is tried more often than max_retries + 1 times, and a GET knows its key.
Tries ==
    /\ \A c \in Calls :
         /\ restCall[c].attempts <= MaxRetries + 1
         /\ restCall[c].at \in {"start", "send"} => restCall[c].attempts <= MaxRetries
    /\ underWay \subseteq Writes \X (1..(MaxRetries + 1))
    /\ \A c \in Reads : restCall[c].at \in {"send", "waiting", "answered", "insert"}
                           => restCall[c].key \in RestKeys

\* The order of a FIFO cache: what is cached, each key once.
InOrderOnce ==
    /\ restOrder \in Seq(RestKeys)
    /\ IsInjective(restOrder) /\ ToSet(restOrder) = CachedKeys
    /\ Len(restOrder) <= IF RestCacheSize = 0 THEN 1 ELSE RestCacheSize

LEMMA Joined ==
    ASSUME NEW K, NEW a \in Seq(K), NEW b \in Seq(K)
    PROVE  a \o b \in Seq(K) /\ Len(a \o b) = Len(a) + Len(b)
  OBVIOUS

LEMMA RemovedOnce ==
    ASSUME NEW K, NEW s \in Seq(K), IsInjective(s), NEW i \in DOMAIN s
    PROVE  /\ RemoveAt(s, i) \in Seq(K) /\ IsInjective(RemoveAt(s, i))
           /\ ToSet(RemoveAt(s, i)) = ToSet(s) \ {s[i]}
           /\ Len(RemoveAt(s, i)) = Len(s) - 1
<1> DEFINE r == RemoveAt(s, i)
<1>1. Len(s) \in Nat /\ i \in 1..Len(s) /\ i \in Nat /\ DOMAIN s = 1..Len(s)
  OBVIOUS
<1>2. /\ r \in Seq(K) /\ Len(r) = Len(s) - 1
      /\ \A j \in 1..(Len(s) - 1) : r[j] = IF j < i THEN s[j] ELSE s[j + 1]
  <2> DEFINE a == SubSeq(s, 1, i - 1)
             b == SubSeq(s, i + 1, Len(s))
  <2>1. a \in Seq(K) /\ Len(a) = i - 1 /\ \A j \in 1..(i - 1) : a[j] = s[j]
    BY <1>1
  <2>2. b \in Seq(K) /\ Len(b) = Len(s) - i /\ \A j \in 1..(Len(s) - i) : b[j] = s[i + j]
    BY <1>1
  <2>3. r = a \o b
    BY DEF RemoveAt
  <2> HIDE DEF a, b, r
  <2>4. r \in Seq(K) /\ Len(r) = Len(s) - 1
    <3>1. a \o b \in Seq(K) /\ Len(a \o b) = Len(a) + Len(b)
      BY ONLY <2>1, <2>2, Joined
    <3>2. r \in Seq(K) /\ Len(r) = Len(a) + Len(b)
      BY <2>3, <3>1
    <3> QED
      BY ONLY <1>1, <2>1, <2>2, <3>2
  <2>5. ASSUME NEW j \in 1..(Len(s) - 1) PROVE r[j] = IF j < i THEN s[j] ELSE s[j + 1]
    <3>1. CASE j < i
      BY <1>1, <2>1, <2>2, <2>3, <3>1
    <3>2. CASE ~(j < i)
      <4>1. j - (i - 1) \in 1..(Len(s) - i) /\ i + (j - (i - 1)) = j + 1
        BY <1>1, <3>2
      <4>2. r[j] = b[j - (i - 1)]
        BY <1>1, <2>1, <2>2, <2>3, <3>2
      <4> QED
        BY <2>2, <3>2, <4>1, <4>2
    <3> QED
      BY <3>1, <3>2
  <2> QED
    BY <2>4, <2>5
<1> HIDE DEF r
<1>3. DOMAIN r = 1..(Len(s) - 1)
  BY <1>1, <1>2
<1>4. IsInjective(r)
  <2> SUFFICES ASSUME NEW j \in 1..(Len(s) - 1), NEW k \in 1..(Len(s) - 1), r[j] = r[k] PROVE j = k
    BY <1>3 DEF IsInjective
  <2>1. \A m, n \in 1..Len(s) : s[m] = s[n] => m = n
    BY <1>1 DEF IsInjective
  <2> QED
    BY <1>1, <1>2, <2>1
<1>5. ASSUME NEW j \in 1..(Len(s) - 1) PROVE r[j] \in ToSet(s) \ {s[i]}
  <2>1. PICK m \in 1..Len(s) : r[j] = s[m] /\ m # i
    BY <1>1, <1>2
  <2> QED
    BY <1>1, <2>1 DEF ToSet, IsInjective
<1>6. ASSUME NEW m \in 1..Len(s), m # i PROVE \E j \in 1..(Len(s) - 1) : r[j] = s[m]
  <2>1. CASE m < i
    BY <1>1, <1>2, <2>1
  <2>2. CASE m > i
    <3>1. m - 1 \in 1..(Len(s) - 1) /\ ~(m - 1 < i) /\ (m - 1) + 1 = m
      BY <1>1, <2>2
    <3>2. r[m - 1] = s[m]
      BY <1>2, <3>1
    <3> QED
      BY <3>1, <3>2
  <2> QED
    BY <1>1, <1>6, <2>1, <2>2
<1>7. ToSet(r) = ToSet(s) \ {s[i]}
  <2>1. \A x \in ToSet(r) : x \in ToSet(s) \ {s[i]}
    BY <1>3, <1>5 DEF ToSet
  <2>2. ASSUME NEW x \in ToSet(s), x # s[i] PROVE x \in ToSet(r)
    <3>1. PICK m \in 1..Len(s) : x = s[m]
      BY <1>1 DEF ToSet
    <3>2. PICK j \in 1..(Len(s) - 1) : r[j] = s[m]
      BY <1>6, <2>2, <3>1
    <3> QED
      BY <1>3, <3>1, <3>2 DEF ToSet
  <2> QED
    BY <2>1, <2>2
<1> QED
  BY <1>2, <1>4, <1>7 DEF r

LEMMA SuffixOnce ==
    ASSUME NEW K, NEW s \in Seq(K), IsInjective(s), NEW n \in Nat, n <= Len(s)
    PROVE  LET r == SubSeq(s, Len(s) - n + 1, Len(s))
           IN  r \in Seq(K) /\ IsInjective(r) /\ ToSet(r) \subseteq ToSet(s) /\ Len(r) = n
<1> DEFINE r == SubSeq(s, Len(s) - n + 1, Len(s))
<1>1. Len(s) \in Nat /\ DOMAIN s = 1..Len(s)
  OBVIOUS
<1>2. /\ r \in Seq(K) /\ Len(r) = n /\ DOMAIN r = 1..n
      /\ \A j \in 1..n : r[j] = s[Len(s) - n + j] /\ Len(s) - n + j \in 1..Len(s)
  <2>1. r \in Seq(K) /\ Len(r) = n
    BY <1>1
  <2>2. DOMAIN r = 1..n
    BY <2>1
  <2>3. ASSUME NEW j \in 1..n PROVE r[j] = s[Len(s) - n + j] /\ Len(s) - n + j \in 1..Len(s)
    <3>1. /\ Len(s) - n + 1 \in Int /\ Len(s) \in Int
          /\ j \in 1..(Len(s) - (Len(s) - n + 1) + 1)
          /\ (Len(s) - n + 1) + j - 1 = Len(s) - n + j
          /\ Len(s) - n + j \in 1..Len(s)
      BY <1>1
    <3> QED
      BY <1>1, <3>1
  <2> QED
    BY <2>1, <2>2, <2>3
<1> HIDE DEF r
<1>3. IsInjective(r)
  <2> SUFFICES ASSUME NEW j \in 1..n, NEW k \in 1..n, r[j] = r[k] PROVE j = k
    BY <1>2 DEF IsInjective
  <2>1. s[Len(s) - n + j] = s[Len(s) - n + k]
    BY <1>2
  <2>2. Len(s) - n + j \in DOMAIN s /\ Len(s) - n + k \in DOMAIN s
    BY <1>1, <1>2
  <2>3. Len(s) - n + j = Len(s) - n + k
    BY <2>1, <2>2 DEF IsInjective
  <2> QED
    BY <1>1, <2>3
<1>4. ToSet(r) \subseteq ToSet(s)
  BY <1>1, <1>2 DEF ToSet
<1> QED
  BY <1>2, <1>3, <1>4 DEF r

LEMMA AppendedOnce ==
    ASSUME NEW K, NEW s \in Seq(K), IsInjective(s), NEW k \in K, k \notin ToSet(s)
    PROVE  /\ Append(s, k) \in Seq(K) /\ IsInjective(Append(s, k))
           /\ ToSet(Append(s, k)) = ToSet(s) \cup {k} /\ Len(Append(s, k)) = Len(s) + 1
<1>1. /\ Append(s, k) \in Seq(K) /\ Len(Append(s, k)) = Len(s) + 1 /\ Len(s) \in Nat
      /\ DOMAIN s = 1..Len(s) /\ DOMAIN Append(s, k) = 1..(Len(s) + 1)
      /\ \A j \in 1..Len(s) : Append(s, k)[j] = s[j] /\ s[j] \in ToSet(s)
      /\ Append(s, k)[Len(s) + 1] = k
  BY DEF ToSet
<1>2. \A j \in 1..(Len(s) + 1) : j = Len(s) + 1 \/ j \in 1..Len(s)
  BY <1>1
<1>3. IsInjective(Append(s, k))
  BY <1>1, <1>2 DEF IsInjective
<1>4. ToSet(Append(s, k)) = ToSet(s) \cup {k}
  <2>1. Len(s) + 1 \in 1..(Len(s) + 1) /\ 1..Len(s) \subseteq 1..(Len(s) + 1)
    BY <1>1
  <2> QED
    BY <1>1, <1>2, <2>1 DEF ToSet
<1> QED
  BY <1>1, <1>3, <1>4

RestShape == CallsOK /\ Tries /\ InOrderOnce

LEMMA RestShapeFirst == RestInit => RestShape
<1> SUFFICES ASSUME RestInit PROVE RestShape
  OBVIOUS
<1>1. CallsOK /\ \A c \in Calls : restCall[c].at = "start" /\ restCall[c].attempts = 0
  <2>1. [Ended EXCEPT !.at = "start"].attempts = 0
    BY DEF Ended
  <2> QED
    BY <2>1, FreshCalls DEF RestInit, CallsOK
<1>2. Tries
  <2>1. 0 <= MaxRetries + 1 /\ 0 <= MaxRetries /\ underWay = {}
    BY DEF RestInit
  <2>2. \A c \in Reads : restCall[c].at \notin {"send", "waiting", "answered", "insert"}
    BY <1>1 DEF Calls
  <2>3. \A c \in Calls : restCall[c].attempts <= MaxRetries + 1 /\ restCall[c].attempts <= MaxRetries
    BY <1>1, <2>1
  <2> QED
    BY <2>1, <2>2, <2>3 DEF Tries
<1>3. InOrderOnce
  <2>1. restOrder = <<>> /\ CachedKeys = {}
    BY DEF RestInit, CachedKeys
  <2>2. restOrder \in Seq(RestKeys) /\ DOMAIN restOrder = {} /\ Len(restOrder) = 0
    BY <2>1
  <2> QED
    BY <2>1, <2>2 DEF InOrderOnce, IsInjective, ToSet
<1> QED
  BY <1>1, <1>2, <1>3 DEF RestShape

\* A step that moves one call and leaves the cache alone.
LEMMA TriesKept ==
    ASSUME RestShape, NEW c \in Calls, NEW after \in RestCall,
           restCall' = [restCall EXCEPT ![c] = after],
           after.attempts <= MaxRetries + 1,
           after.at \in {"start", "send"} => after.attempts <= MaxRetries,
           c \in Reads /\ after.at \in {"send", "waiting", "answered", "insert"} => after.key \in RestKeys,
           underWay' \subseteq Writes \X (1..(MaxRetries + 1))
    PROVE  CallsOK' /\ Tries'
<1>1. \A d \in Calls : restCall'[d] = IF d = c THEN after ELSE restCall[d]
  BY DEF RestShape, CallsOK
<1>2. CallsOK'
  BY DEF RestShape, CallsOK
<1>3. Tries'
  BY <1>1 DEF RestShape, Tries, Calls
<1> QED
  BY <1>2, <1>3

LEMMA SentRecord ==
    ASSUME NEW r \in RestCall, NEW n \in Nat
    PROVE  LET after == [r EXCEPT !.at = "waiting", !.attempts = n, !.shows = {}, !.early = FALSE]
           IN  /\ after \in RestCall /\ after.at = "waiting" /\ after.attempts = n
               /\ after.key = r.key
  BY DEF RestCall

LEMMA OrderKept == ASSUME InOrderOnce, UNCHANGED <<restCache, restOrder>> PROVE InOrderOnce'
  BY DEF InOrderOnce, CachedKeys

\* RestCache::insert keeps the order: the key goes to its end, once.
LEMMA InsertKeepsOrder ==
    ASSUME RestShape, NEW c \in Calls, RestInsert(c), restCall[c].key \in RestKeys
    PROVE  InOrderOnce'
<1> DEFINE k == restCall[c].key
           i == CHOOSE j \in DOMAIN restOrder : restOrder[j] = k
           kept == IF k \in CachedKeys THEN RemoveAt(restOrder, i)
                   ELSE IF Len(restOrder) < RestCacheSize THEN restOrder
                   ELSE SubSeq(restOrder, Len(restOrder) - RestCacheSize + 2, Len(restOrder))
           kind == [shows |-> restCall[c].shows, early |-> restCall[c].early]
<1>1. /\ restOrder \in Seq(RestKeys) /\ IsInjective(restOrder) /\ ToSet(restOrder) = CachedKeys
      /\ Len(restOrder) <= IF RestCacheSize = 0 THEN 1 ELSE RestCacheSize
      /\ Len(restOrder) \in Nat /\ RestCacheSize \in Nat
  BY DEF RestShape, InOrderOnce
<1>2. /\ kept \in Seq(RestKeys) /\ IsInjective(kept) /\ k \notin ToSet(kept)
      /\ ToSet(kept) \subseteq CachedKeys
      /\ Len(kept) + 1 <= IF RestCacheSize = 0 THEN 1 ELSE RestCacheSize
  <2>1. CASE k \in CachedKeys
    <3>1. i \in DOMAIN restOrder /\ restOrder[i] = k
      BY <1>1, <2>1 DEF ToSet
    <3>2. kept = RemoveAt(restOrder, i)
      BY <2>1
    <3> HIDE DEF i, k, kept
    <3>3. /\ kept \in Seq(RestKeys) /\ IsInjective(kept) /\ ToSet(kept) = CachedKeys \ {k}
          /\ Len(kept) = Len(restOrder) - 1
      BY <1>1, <3>1, <3>2, RemovedOnce
    <3> QED
      BY <1>1, <3>3
  <2>2. CASE k \notin CachedKeys /\ Len(restOrder) < RestCacheSize
    <3>1. kept = restOrder
      BY <2>2
    <3> HIDE DEF k, kept
    <3> QED
      BY <1>1, <2>2, <3>1
  <2>3. CASE k \notin CachedKeys /\ ~(Len(restOrder) < RestCacheSize)
    <3>1. kept = SubSeq(restOrder, Len(restOrder) - RestCacheSize + 2, Len(restOrder))
      BY <2>3
    <3> HIDE DEF k, kept
    <3>2. CASE RestCacheSize = 0
      <4>1. kept = <<>>
        BY <1>1, <3>1, <3>2
      <4>2. kept \in Seq(RestKeys) /\ DOMAIN kept = {} /\ Len(kept) = 0
        BY <4>1
      <4> QED
        BY <3>2, <4>2 DEF IsInjective, ToSet
    <3>3. CASE RestCacheSize # 0
      <4> DEFINE n == RestCacheSize - 1
      <4>1. n \in Nat /\ n <= Len(restOrder) /\ n + 1 = RestCacheSize
            /\ Len(restOrder) - RestCacheSize + 2 = Len(restOrder) - n + 1
        BY <1>1, <2>3, <3>3
      <4> HIDE DEF n
      <4>2. /\ kept \in Seq(RestKeys) /\ IsInjective(kept) /\ ToSet(kept) \subseteq ToSet(restOrder)
            /\ Len(kept) = n
        BY <1>1, <3>1, <4>1, SuffixOnce
      <4> QED
        BY <1>1, <2>3, <3>3, <4>1, <4>2
    <3> QED
      BY <3>2, <3>3
  <2> QED
    BY <2>1, <2>2, <2>3
<1>3. /\ restOrder' = Append(kept, k)
      /\ restCache' = [l \in RestKeys |-> IF l = k THEN kind
                                          ELSE IF l \in ToSet(kept) THEN restCache[l] ELSE NotCached]
  BY DEF RestInsert
<1>4. kind # NotCached
  BY RestAssumption DEF RestShape, CallsOK, RestCall
<1> HIDE DEF kept, k, kind
<1>5. CachedKeys' = ToSet(kept) \cup {k}
  <2>0. k \in RestKeys
    BY DEF k
  <2>1. \A l \in RestKeys : l \in CachedKeys' <=> (l = k \/ l \in ToSet(kept))
    BY <1>2, <1>3, <1>4 DEF CachedKeys
  <2>2. CachedKeys' \subseteq RestKeys /\ ToSet(kept) \subseteq RestKeys
    BY <1>2 DEF CachedKeys
  <2> QED
    BY <2>0, <2>1, <2>2
<1>6. k \in RestKeys
  BY DEF k
<1>7. /\ restOrder' \in Seq(RestKeys) /\ IsInjective(restOrder')
      /\ ToSet(restOrder') = ToSet(kept) \cup {k} /\ Len(restOrder') = Len(kept) + 1
  BY <1>2, <1>3, <1>6, AppendedOnce
<1> QED
  BY <1>2, <1>5, <1>7 DEF InOrderOnce

\* Every step of the calls, the service and clear_cache keeps the shape.
LEMMA StepKeepsRestShape == ForgetInv /\ RestShape /\ [RestNext]_restVars => RestShape'
<1> SUFFICES ASSUME ForgetInv, RestShape, [RestNext]_restVars PROVE RestShape'
  OBVIOUS
<1>0. /\ CallsOK /\ Tries /\ InOrderOnce
      /\ \A c \in Writes : restCall[c].at # "insert"
      /\ \A c \in Calls : restCall[c] \in RestCall
  BY DEF RestShape, ForgetInv, Performed, CallsOK
<1>1. ASSUME NEW c \in Calls,
             \/ Ends(c)
             \/ \E where \in {"send", "answered", "insert"} :
                   /\ MoveCall(c, where)
                   /\ where = "send" => restCall[c].attempts <= MaxRetries
                   /\ restCall[c].at \in {"send", "waiting", "answered", "insert"} \/ c \in Writes,
             underWay' \subseteq Writes \X (1..(MaxRetries + 1))
      PROVE  CallsOK' /\ Tries'
  <2>1. CASE Ends(c)
    <3>1. Ended \in RestCall /\ Ended.at = "ended" /\ Ended.attempts = 0
      BY FreshCalls DEF Ended
    <3>2. 0 <= MaxRetries + 1
      OBVIOUS
    <3> QED
      BY <1>1, <2>1, <3>1, <3>2, TriesKept DEF Ends
  <2>2. ASSUME NEW where \in {"send", "answered", "insert"}, MoveCall(c, where),
               where = "send" => restCall[c].attempts <= MaxRetries,
               restCall[c].at \in {"send", "waiting", "answered", "insert"} \/ c \in Writes
        PROVE  CallsOK' /\ Tries'
    <3> DEFINE after == [restCall[c] EXCEPT !.at = where]
    <3>1. /\ after \in RestCall /\ after.at = where /\ after.attempts = restCall[c].attempts
          /\ after.key = restCall[c].key
      BY <1>0 DEF RestCall
    <3>2. restCall' = [restCall EXCEPT ![c] = after]
      BY <2>2 DEF MoveCall
    <3>3. restCall[c].attempts <= MaxRetries + 1 /\ (c \in Reads => restCall[c].key \in RestKeys)
      BY <1>0, <2>2 DEF Tries, Calls
    <3> HIDE DEF after
    <3> QED
      BY <1>1, <2>2, <3>1, <3>2, <3>3, TriesKept
  <2> QED
    BY <1>1, <2>1, <2>2
<1>2. ASSUME NEW c \in Calls, Lookup(c) PROVE RestShape'
  <2>1. InOrderOnce' /\ underWay' \subseteq Writes \X (1..(MaxRetries + 1)) /\ restCall[c].at = "start"
    BY <1>0, <1>2, OrderKept DEF Lookup, cacheVars, Tries
  <2>2. CASE Ends(c) \/ (c \in Writes /\ MoveCall(c, "send"))
    <3>1. restCall[c].attempts <= MaxRetries
      BY <1>0, <2>1 DEF Tries
    <3> QED
      BY <1>1, <2>1, <2>2, <3>1 DEF RestShape
  <2>3. ASSUME NEW k \in RestKeys, restCall' = [restCall EXCEPT ![c].key = k, ![c].at = "send"]
        PROVE  RestShape'
    <3> DEFINE after == [restCall[c] EXCEPT !.key = k, !.at = "send"]
    <3>1. /\ after \in RestCall /\ after.at = "send" /\ after.attempts = restCall[c].attempts
          /\ after.key = k
      BY <1>0 DEF RestCall
    <3>2. restCall' = [restCall EXCEPT ![c] = after]
      BY <2>3
    <3>3. restCall[c].attempts <= MaxRetries + 1 /\ restCall[c].attempts <= MaxRetries
      BY <1>0, <2>1 DEF Tries
    <3> HIDE DEF after
    <3> QED
      BY <2>1, <3>1, <3>2, <3>3, TriesKept DEF RestShape
  <2> QED
    BY <1>2, <2>2, <2>3 DEF Lookup
<1>3. ASSUME NEW c \in Calls, Send(c) PROVE RestShape'
  <2> DEFINE n == restCall[c].attempts
             after == [restCall[c] EXCEPT !.at = "waiting", !.attempts = n + 1, !.shows = {}, !.early = FALSE]
  <2>1. restCall[c].at = "send" /\ InOrderOnce' /\ n \in Nat /\ n <= MaxRetries
    BY <1>0, <1>3, OrderKept DEF Send, cacheVars, Tries, RestCall
  <2>2. /\ after \in RestCall /\ after.at = "waiting" /\ after.attempts = n + 1
        /\ after.key = restCall[c].key
    <3>1. restCall[c] \in RestCall /\ n + 1 \in Nat
      BY <1>0, <2>1
    <3> HIDE DEF n
    <3> QED
      BY <3>1, SentRecord
  <2>3. restCall' = [restCall EXCEPT ![c] = after]
    BY <1>3 DEF Send
  <2>4. n + 1 \in 1..(MaxRetries + 1) /\ n + 1 <= MaxRetries + 1
    BY <2>1
  <2>5. underWay' \subseteq Writes \X (1..(MaxRetries + 1))
    <3>1. underWay' = underWay \cup ({<<c, n + 1>>} \cap (Writes \X Nat))
      BY <1>3 DEF Send
    <3> HIDE DEF n
    <3> QED
      BY <1>0, <2>4, <3>1 DEF Tries
  <2>6. c \in Reads => restCall[c].key \in RestKeys
    BY <1>0, <2>1 DEF Tries
  <2> HIDE DEF after, n
  <2> QED
    BY <2>1, <2>2, <2>3, <2>4, <2>5, <2>6, TriesKept DEF RestShape
<1>4. ASSUME NEW c \in Calls, Answer(c) PROVE RestShape'
  <2> DEFINE after == [restCall[c] EXCEPT !.at = "answered", !.shows = stored]
  <2>1. InOrderOnce' /\ restCall[c].at = "waiting" /\ stored \subseteq Writes /\ c \in Reads
    BY <1>0, <1>4, OrderKept DEF Answer, cacheVars, ForgetInv, Performed
  <2>2. /\ after \in RestCall /\ after.at = "answered" /\ after.attempts = restCall[c].attempts
        /\ after.key = restCall[c].key
    BY <1>0, <2>1 DEF RestCall
  <2>3. restCall' = [restCall EXCEPT ![c] = after]
    BY <1>4 DEF Answer
  <2>4. /\ restCall[c].attempts <= MaxRetries + 1 /\ restCall[c].key \in RestKeys
        /\ underWay' \subseteq Writes \X (1..(MaxRetries + 1))
    BY <1>0, <1>4, <2>1 DEF Tries, Answer
  <2> HIDE DEF after
  <2> QED
    BY <2>1, <2>2, <2>3, <2>4, TriesKept DEF RestShape
<1>5. ASSUME NEW c \in Calls, NEW n \in 1..(MaxRetries + 1), Perform(c, n) PROVE RestShape'
  <2>1. InOrderOnce' /\ underWay' \subseteq Writes \X (1..(MaxRetries + 1))
    BY <1>0, <1>5, OrderKept DEF Perform, cacheVars, Tries
  <2>2. CASE Awaited(c, n) /\ MoveCall(c, "answered")
    BY <1>1, <2>1, <2>2 DEF Awaited, RestShape
  <2>3. CASE UNCHANGED restCall
    BY <1>0, <2>1, <2>3 DEF RestShape, CallsOK, Tries
  <2> QED
    BY <1>5, <2>2, <2>3 DEF Perform
<1>6. ASSUME NEW c \in Calls, Reject(c) \/ GiveUp(c) PROVE RestShape'
  <2>1. /\ InOrderOnce' /\ underWay' \subseteq Writes \X (1..(MaxRetries + 1))
        /\ restCall[c].at \in {"waiting", "answered"}
    BY <1>0, <1>6, OrderKept DEF Reject, GiveUp, cacheVars, Tries
  <2>2. Ends(c) \/ (MoveCall(c, "send") /\ restCall[c].attempts <= MaxRetries)
    BY <1>6 DEF Reject, GiveUp, RetryOrFail
  <2> QED
    BY <1>1, <2>1, <2>2 DEF RestShape
<1>7. ASSUME NEW c \in Calls, TakeAnswer(c) PROVE RestShape'
  <2>1. /\ InOrderOnce' /\ underWay' \subseteq Writes \X (1..(MaxRetries + 1))
        /\ restCall[c].at = "answered"
    BY <1>0, <1>7, OrderKept DEF TakeAnswer, cacheVars, Tries
  <2>2. Ends(c) \/ MoveCall(c, "insert")
    BY <1>7 DEF TakeAnswer
  <2> QED
    BY <1>1, <2>1, <2>2 DEF RestShape
<1>8. ASSUME NEW c \in Calls, RestInsert(c) PROVE RestShape'
  <2>1. /\ underWay' \subseteq Writes \X (1..(MaxRetries + 1)) /\ Ends(c)
        /\ restCall[c].at = "insert"
    BY <1>0, <1>8 DEF RestInsert, Tries
  <2>2. restCall[c].key \in RestKeys
    BY <1>0, <2>1 DEF Tries, Calls
  <2> QED
    BY <1>1, <1>8, <2>1, <2>2, InsertKeepsOrder DEF RestShape
<1>9. ASSUME NEW c \in Calls, Abandon(c) PROVE RestShape'
  <2>1. InOrderOnce' /\ underWay' \subseteq Writes \X (1..(MaxRetries + 1)) /\ Ends(c)
    BY <1>0, <1>9, OrderKept DEF Abandon, cacheVars, Tries
  <2> QED
    BY <1>1, <2>1 DEF RestShape
<1>10. CASE ClearRest
  <2>1. CallsOK'
    BY <1>0, <1>10, ZenonT(30) DEF ClearRest, CallsOK, RestCall
  <2>2. \A c \in Calls : /\ restCall'[c].at = restCall[c].at
                         /\ restCall'[c].attempts = restCall[c].attempts
                         /\ restCall'[c].key = restCall[c].key
    BY <1>0, <1>10 DEF ClearRest, RestCall
  <2>3. Tries'
    BY <1>0, <1>10, <2>2 DEF ClearRest, Tries, Calls
  <2>4. InOrderOnce'
    <3>1. restOrder' = <<>> /\ CachedKeys' = {}
      BY <1>10 DEF ClearRest, CachedKeys
    <3>2. restOrder' \in Seq(RestKeys) /\ DOMAIN restOrder' = {} /\ Len(restOrder') = 0
      BY <3>1
    <3> QED
      BY <3>1, <3>2 DEF InOrderOnce, IsInjective, ToSet
  <2> QED
    BY <2>1, <2>3, <2>4 DEF RestShape
<1>11. CASE UNCHANGED restVars
  BY <1>0, <1>11, OrderKept DEF restVars, RestShape, CallsOK, Tries
<1> QED
  BY <1>2, <1>3, <1>4, <1>5, <1>6, <1>7, <1>8, <1>9, <1>10, <1>11 DEF RestNext

\* A call is tried no more often than max_retries + 1 times, and the FIFO order holds just
\* the cached keys, each once, and no more of them than the cache's size, or one
\* (execute_with_retry; RestCache::insert and clear between any two steps of the calls).
THEOREM RestIsTyped == RestSpec => []RestTypeOK
<1>1. ForgetInv /\ RestShape => RestTypeOK
  <2> SUFFICES ASSUME ForgetInv, RestShape PROVE RestTypeOK
    OBVIOUS
  <2>1. \A c \in Calls : restCall[c].at \in {"start", "send", "waiting", "answered", "insert", "ended"}
    BY DEF ForgetInv, CallsOK, RestCall
  <2>2. told \subseteq Writes /\ floor \subseteq Writes /\ stored \subseteq Writes
    BY DEF ForgetInv, Performed
  <2> QED
    BY <2>1, <2>2 DEF RestShape, Tries, InOrderOnce, RestTypeOK
<1> QED
  BY <1>1, RestHoldsFirst, RestShapeFirst, StepKeepsForgetInv, StepKeepsRestShape, PTL DEF RestSpec

\* Lost and late answers, retries, refusals, evictions and clears in any order: what a
\* cleared cache holds shows the writes that had returned, unless it was on its way back.
THEOREM ClearedForgets == RestSpec => []ClearedReadsShowWrites
<1>1. ForgetInv => ClearedReadsShowWrites
  BY DEF ForgetInv
<1> QED
  BY <1>1, RestHoldsFirst, StepKeepsForgetInv, PTL DEF RestSpec

HIDE RestAssumption

-----------------------------------------------------------------------------
CostSpec == CostInit /\ [][CostNext]_costVars

End == MaxClock + 1

CostShape ==
    /\ load \in {2, 3, HighLoad}
    /\ clock \in 0..MaxClock
    /\ IsFiniteSet(DOMAIN budgets)
    /\ DOMAIN budgets \subseteq Users /\ Cardinality(DOMAIN budgets) <= MaxUserBudgets
    /\ budgets \in [DOMAIN budgets -> [spent : 0..Budget, start : 0..clock]]
    /\ query_costs \in Seq(Nat) /\ Len(query_costs) <= MaxCostHistory
    /\ quoted \in [Users -> Nat]
    /\ charged \in [Users -> [Times -> Nat]]

\* What was charged before a time grows with the time, up to the clock.
Cumulative ==
    \A u \in Users : /\ \A t, e \in Times : t <= e => charged[u][t] <= charged[u][e]
                     /\ \A t \in Times : t > clock => charged[u][t] = charged[u][End]

\* The last window of a user, from s on: it holds what was charged since, the windows before
\* it left at most one budget within its reach, and a user whose entry is gone is past it.
WindowOf(u, s) ==
    LET c == charged[u] IN
    /\ c[End] <= c[s] + (IF u \in DOMAIN budgets THEN budgets[u].spent ELSE Budget)
    /\ \A t \in Times : t > s + Window => c[t] = c[End]
    /\ \A t \in 0..s : s <= t + Window => c[s] <= c[t] + Budget
    /\ IF u \in DOMAIN budgets THEN s = budgets[u].start ELSE s + Window < clock \/ c[End] = 0

WindowsKept == \A u \in Users : \E s \in 0..clock : WindowOf(u, s)

CostInv == CostShape /\ Cumulative /\ WindowsKept /\ SpendingBounded

LEMMA CostConstants ==
  /\ MaxCost \in Nat /\ Budget \in Nat /\ MaxClock \in Nat /\ BaseCosts \subseteq Nat
  /\ Window \in Nat /\ Window > 0 /\ MaxUserBudgets \in Nat /\ MaxUserBudgets > 0
  /\ MaxCostHistory \in Nat /\ MaxCostHistory > 0 /\ HighLoad \in Nat
  /\ End \in Nat /\ End = MaxClock + 1 /\ End \in Times /\ Times = 0..End
<1>1. /\ {MaxCost, Budget, MaxClock} \subseteq Nat /\ BaseCosts \subseteq Nat \ {0}
      /\ {Window, MaxUserBudgets, MaxCostHistory} \subseteq Nat \ {0}
      /\ HighLoad \in Nat
  BY CostAssumption, Zenon DEF CostAssumption
<1> QED
  BY <1>1 DEF End, Times

LEMMA CostInvHoldsFirst == CostInit => CostInv
<1> SUFFICES ASSUME CostInit PROVE CostInv
  OBVIOUS
<1> USE CostConstants
<1>1. DOMAIN budgets = {} /\ budgets = [u \in {} |-> 0]
  BY DEF CostInit
<1>2. IsFiniteSet(DOMAIN budgets) /\ Cardinality(DOMAIN budgets) = 0
  BY <1>1, FS_EmptySet
<1>3. \A u \in Users, t \in Times : charged[u][t] = 0
  BY DEF CostInit
<1>4. CostShape
  <2>1. charged \in [Users -> [Times -> Nat]] /\ quoted \in [Users -> Nat]
    BY DEF CostInit
  <2>2. budgets \in [DOMAIN budgets -> [spent : 0..Budget, start : 0..clock]]
    BY <1>1
  <2>3. query_costs \in Seq(Nat) /\ Len(query_costs) <= MaxCostHistory
    BY DEF CostInit
  <2> QED
    BY <1>1, <1>2, <2>1, <2>2, <2>3 DEF CostInit, CostShape
<1>5. Cumulative /\ SpendingBounded
  BY <1>3 DEF Cumulative, SpendingBounded
<1>6. WindowsKept
  <2> SUFFICES ASSUME NEW u \in Users PROVE WindowOf(u, 0) /\ 0 \in 0..clock
    BY DEF WindowsKept
  <2>1. clock = 0
    BY DEF CostInit
  <2>2. \A t \in Times : charged[u][t] = 0
    BY <1>3
  <2>3. 0 \in Times /\ \A t \in 0..0 : t \in Times
    OBVIOUS
  <2> QED
    BY <1>1, <2>1, <2>2, <2>3 DEF WindowOf
<1> QED
  BY <1>4, <1>5, <1>6 DEF CostInv

\* A user who is not charged, and keeps the entry or loses it when its window is over.
LEMMA SameWindow ==
  ASSUME CostShape, NEW u \in Users, NEW s \in 0..clock, WindowOf(u, s),
         charged'[u] = charged[u], clock' \in 0..MaxClock, clock <= clock',
         u \in DOMAIN budgets' => u \in DOMAIN budgets /\ budgets'[u] = budgets[u],
         u \in DOMAIN budgets \ DOMAIN budgets' => budgets[u].start + Window < clock
  PROVE  WindowOf(u, s)' /\ s \in 0..clock'
<1>1. clock \in 0..MaxClock /\ s \in Times /\ s \in Nat
  BY CostConstants, SMTT(30) DEF CostShape
<1>2. u \in DOMAIN budgets => budgets[u].spent \in 0..Budget /\ budgets[u].start \in 0..clock
  BY DEF CostShape
<1>3. charged[u][End] \in Nat /\ charged[u][s] \in Nat
  BY <1>1, CostConstants, SMTT(30) DEF CostShape
<1>4. s \in 0..clock'
  BY <1>1
<1>5. CASE u \in DOMAIN budgets'
  BY <1>4, <1>5 DEF WindowOf
<1>6. CASE u \notin DOMAIN budgets'
  <2>1. charged[u][End] <= charged[u][s] + Budget
    <3>1. CASE u \in DOMAIN budgets
      <4>1. charged[u][End] <= charged[u][s] + budgets[u].spent
        BY <3>1 DEF WindowOf
      <4>2. budgets[u].spent \in 0..Budget
        BY <1>2, <3>1
      <4> QED
        BY <1>3, <4>1, <4>2, CostConstants
    <3>2. CASE u \notin DOMAIN budgets
      BY <3>2 DEF WindowOf
    <3> QED
      BY <3>1, <3>2
  <2>2. s + Window < clock' \/ charged[u][End] = 0
    <3>1. s + Window < clock \/ charged[u][End] = 0
      BY <1>6 DEF WindowOf
    <3> QED
      BY <1>1, <3>1, CostConstants
  <2> QED
    BY <1>4, <1>6, <2>1, <2>2 DEF WindowOf
<1> QED
  BY <1>5, <1>6

\* The window a query is charged to: the last one, or a new one that starts now.
OpenWindow(u, s, spent) ==
    LET c == charged[u] IN
    /\ s \in 0..clock /\ clock <= s + Window /\ spent \in 0..Budget
    /\ c[End] <= c[s] + spent
    /\ \A t \in 0..s : s <= t + Window => c[s] <= c[t] + Budget

LEMMA WindowStartsAnew ==
  ASSUME CostShape, Cumulative, NEW u \in Users, NEW s \in 0..clock, WindowOf(u, s),
         s + Window < clock \/ charged[u][End] = 0
  PROVE  OpenWindow(u, clock, 0)
<1> DEFINE c == charged[u]
<1>1. clock \in 0..MaxClock /\ s \in Times /\ clock \in Times /\ c \in [Times -> Nat]
  BY CostConstants, SMTT(30) DEF CostShape
<1>2. /\ \A t, e \in Times : t <= e => c[t] <= c[e]
      /\ \A t \in Times : t > s + Window => c[t] = c[End]
  BY DEF Cumulative, WindowOf
<1>3. c[End] <= c[s] + Budget
  <2>1. u \in DOMAIN budgets => budgets[u].spent \in 0..Budget
    BY DEF CostShape
  <2> QED
    BY <1>1, <2>1, CostConstants DEF WindowOf
<1>4. c[clock] = c[End]
  BY <1>1, <1>2, CostConstants
<1>5. ASSUME NEW t \in 0..clock, clock <= t + Window PROVE c[clock] <= c[t] + Budget
  <2>1. t \in Times /\ c[t] \in Nat /\ c[s] \in Nat /\ c[clock] \in Nat
    BY <1>1, CostConstants
  <2>2. CASE s <= t
    BY <1>2, <1>3, <1>1, <1>4, <2>1, <2>2, CostConstants, SMTT(30)
  <2>3. CASE t < s
    BY <1>1, <1>2, <1>4, <1>5, <2>1, <2>3, CostConstants
  <2>4. s <= t \/ t < s
    BY <1>1, CostConstants
  <2> QED
    BY <2>2, <2>3, <2>4
<1>6. clock \in 0..clock /\ clock <= clock + Window /\ 0 \in 0..Budget
  BY <1>1, CostConstants
<1>7. c[End] <= c[clock] + 0
  <2>1. c[clock] \in Nat
    BY <1>1
  <2> HIDE DEF c
  <2> QED
    BY ONLY <1>4, <2>1
<1> QED
  BY <1>5, <1>6, <1>7 DEF OpenWindow

\* The query is charged to that window.
LEMMA ChargedInWindow ==
  ASSUME CostShape, Cumulative, SpendingBounded, NEW u \in Users, NEW s, NEW spent, OpenWindow(u, s, spent),
         spent + quoted[u] <= Budget, charged' = Charge(u), UNCHANGED clock,
         u \in DOMAIN budgets', budgets'[u] = [spent |-> spent + quoted[u], start |-> s]
  PROVE  /\ charged' \in [Users -> [Times -> Nat]] /\ Cumulative' /\ SpendingBounded'
         /\ WindowOf(u, s)' /\ s \in 0..clock
<1> DEFINE c == charged[u]
           q == quoted[u]
<1>0. s \in 0..clock /\ clock <= s + Window /\ spent \in 0..Budget
  BY DEF OpenWindow
<1>1. /\ clock \in 0..MaxClock /\ s \in 0..clock /\ s \in Times /\ c \in [Times -> Nat] /\ q \in Nat
      /\ spent \in 0..Budget /\ spent \in Nat /\ s \in Nat /\ clock \in Nat
  <2>1. clock \in 0..MaxClock /\ c \in [Times -> Nat] /\ q \in Nat
    BY DEF CostShape
  <2> QED
    BY <1>0, <2>1, CostConstants
<1>2. /\ \A v \in Users \ {u} : charged'[v] = charged[v]
      /\ charged' \in [Users -> [Times -> Nat]]
      /\ \A t \in Times : charged'[u][t] = IF t > clock THEN c[t] + q ELSE c[t]
  <2>1. [t \in Times |-> IF t > clock THEN c[t] + q ELSE c[t]] \in [Times -> Nat]
    BY <1>1
  <2> QED
    BY <2>1 DEF Charge, CostShape
<1>3. /\ \A t, e \in Times : t <= e => c[t] <= c[e]
      /\ \A t \in Times : t > clock => c[t] = c[End]
  BY DEF Cumulative
<1>4. /\ c[End] <= c[s] + spent
      /\ \A t \in 0..s : s <= t + Window => c[s] <= c[t] + Budget
      /\ clock <= s + Window
  BY DEF OpenWindow
<1>5. \A t \in Times : c[t] \in Nat /\ t \in Nat
  BY <1>1, CostConstants
<1>6. Cumulative'
  <2>1. \A t, e \in Times : t <= e => charged'[u][t] <= charged'[u][e]
    BY <1>1, <1>2, <1>3, <1>5
  <2>2. \A t \in Times : t > clock => charged'[u][t] = charged'[u][End]
    BY <1>1, <1>2, <1>3, <1>5, CostConstants
  <2> QED
    BY <1>2, <2>1, <2>2 DEF Cumulative
<1>7. ASSUME NEW t \in Times, NEW e \in Times, t <= e, e <= t + Window + 1
      PROVE  charged'[u][e] <= charged'[u][t] + 2 * Budget
  <2>0. t \in Nat /\ e \in Nat /\ c[t] \in Nat /\ c[e] \in Nat /\ c[s] \in Nat /\ c[End] \in Nat
    BY <1>1, <1>5, CostConstants
  <2>1. c[e] <= c[t] + 2 * Budget
    BY <1>7 DEF SpendingBounded
  <2>2. CASE e > clock /\ t <= clock
    <3>1. charged'[u][e] = c[End] + q /\ charged'[u][t] = c[t]
      <4>1. charged'[u][e] = c[e] + q /\ c[e] = c[End]
        BY <1>2, <1>3, <2>2
      <4>2. charged'[u][t] = c[t]
        BY <1>1, <1>2, <2>0, <2>2
      <4> QED
        BY <4>1, <4>2
    <3>2. c[End] + q <= c[s] + Budget
      <4>1. c[End] <= c[s] + spent /\ spent + q <= Budget
        BY <1>4
      <4> HIDE DEF c, q
      <4> QED
        BY ONLY <4>1, <1>1, <2>0, CostConstants
    <3>3. c[s] <= c[t] + Budget
      <4>1. CASE s <= t
        <5>1. c[s] <= c[t]
          BY <1>1, <1>3, <4>1
        <5> QED
          BY <2>0, <5>1, CostConstants
      <4>2. CASE t < s
        <5>1. t \in 0..s /\ s <= t + Window
          BY <1>1, <1>7, <2>0, <2>2, <4>2, CostConstants
        <5> QED
          BY <1>4, <5>1
      <4> QED
        BY <1>1, <2>0, <4>1, <4>2
    <3> HIDE DEF c, q
    <3>4. ASSUME NEW x \in Nat, NEW y \in Nat, NEW z \in Nat, NEW w \in Nat, z + w <= y + Budget, y <= x + Budget
          PROVE  z + w <= x + 2 * Budget
      BY ONLY <3>4, CostConstants
    <3> QED
      BY <1>1, <2>0, <3>1, <3>2, <3>3, <3>4
  <2>3. CASE e <= clock
    <3>1. charged'[u][e] = c[e] /\ charged'[u][t] = c[t]
      BY <1>1, <1>2, <1>7, <2>0, <2>3
    <3> QED
      BY <2>1, <3>1
  <2>4. CASE t > clock
    <3>1. charged'[u][e] = c[e] + q /\ charged'[u][t] = c[t] + q
      BY <1>1, <1>2, <1>7, <2>0, <2>4
    <3> HIDE DEF c, q
    <3> QED
      BY <1>1, <2>0, <2>1, <3>1, CostConstants
  <2> QED
    BY <1>1, <2>0, <2>2, <2>3, <2>4
<1>8. SpendingBounded'
  BY <1>2, <1>7 DEF SpendingBounded
<1>9. WindowOf(u, s)'
  <2>1. charged'[u][End] <= charged'[u][s] + (spent + q)
    BY <1>1, <1>2, <1>4, <1>5, CostConstants, SMTT(30)
  <2>2. ASSUME NEW t \in Times, t > s + Window PROVE charged'[u][t] = charged'[u][End]
    <3>1. t > clock /\ End > clock
      <4>1. /\ t \in Nat /\ s \in Nat /\ clock \in Nat /\ Window \in Nat
            /\ clock <= MaxClock /\ MaxClock \in Nat /\ End = MaxClock + 1
            /\ clock <= s + Window /\ t > s + Window
        BY <1>1, <1>4, <1>5, <2>2, CostConstants
      <4> QED
        BY ONLY <4>1
    <3>2. c[t] = c[End] /\ End \in Times
      BY <1>3, <3>1, CostConstants
    <3> QED
      BY <1>2, <3>1, <3>2
  <2>3. \A t \in 0..s : s <= t + Window => charged'[u][s] <= charged'[u][t] + Budget
    <3>1. \A t \in 0..s : t \in Times /\ charged'[u][t] = c[t]
      BY <1>1, <1>2, CostConstants
    <3>2. charged'[u][s] = c[s]
      BY <1>1, <1>2
    <3> QED
      BY <1>4, <3>1, <3>2
  <2> QED
    BY <2>1, <2>2, <2>3 DEF WindowOf
<1> QED
  BY <1>1, <1>2, <1>6, <1>8, <1>9

\* A user whom the step does not charge keeps a window.
UserUntouched(u) ==
    /\ charged'[u] = charged[u]
    /\ u \in DOMAIN budgets' => u \in DOMAIN budgets /\ budgets'[u] = budgets[u]
    /\ u \in DOMAIN budgets \ DOMAIN budgets' => budgets[u].start + Window < clock

LEMMA UntouchedKeep ==
  ASSUME CostInv, clock' \in 0..MaxClock, clock <= clock', NEW u \in Users, UserUntouched(u)
  PROVE  \E s \in 0..clock' : WindowOf(u, s)'
<1>1. PICK s \in 0..clock : WindowOf(u, s)
  BY DEF CostInv, WindowsKept
<1>2. WindowOf(u, s)' /\ s \in 0..clock'
  BY <1>1, SameWindow DEF CostInv, UserUntouched
<1> QED
  BY <1>2

\* The windows a shrunken map keeps are as they were, the ones it drops are over.
LEMMA YoungerKeeps ==
  ASSUME CostShape, NEW age \in Nat
  PROVE  /\ DOMAIN Younger(age) \subseteq DOMAIN budgets
         /\ \A u \in DOMAIN Younger(age) : Younger(age)[u] = budgets[u]
         /\ \A u \in DOMAIN budgets \ DOMAIN Younger(age) : budgets[u].start + age < clock
<1>1. DOMAIN Younger(age) = {v \in DOMAIN budgets : clock - budgets[v].start <= age}
  BY DEF Younger, Age
<1>2. \A u \in DOMAIN Younger(age) : Younger(age)[u] = budgets[u]
  BY <1>1 DEF Younger, Age
<1>3. ASSUME NEW u \in DOMAIN budgets, ~(clock - budgets[u].start <= age)
      PROVE  budgets[u].start + age < clock
  <2>1. budgets[u].start \in 0..clock /\ clock \in 0..MaxClock
    BY DEF CostShape
  <2>2. ASSUME NEW x \in 0..clock, clock \in 0..MaxClock, ~(clock - x <= age)
        PROVE  x + age < clock
    BY ONLY <2>2, CostConstants, age \in Nat
  <2> QED
    BY <1>3, <2>1, <2>2
<1> QED
  BY <1>1, <1>2, <1>3

\* What is kept of a map within its limits is within them.
LEMMA PartOfTheMap ==
  ASSUME CostShape, NEW kept, DOMAIN kept \subseteq DOMAIN budgets,
         \A u \in DOMAIN kept : kept[u] = budgets[u], kept = [u \in DOMAIN kept |-> kept[u]]
  PROVE  /\ IsFiniteSet(DOMAIN kept) /\ DOMAIN kept \subseteq Users
         /\ Cardinality(DOMAIN kept) <= MaxUserBudgets /\ Cardinality(DOMAIN kept) \in Nat
         /\ kept \in [DOMAIN kept -> [spent : 0..Budget, start : 0..clock]]
<1>1. IsFiniteSet(DOMAIN kept) /\ Cardinality(DOMAIN kept) <= Cardinality(DOMAIN budgets)
  BY FS_Subset DEF CostShape
<1>2. Cardinality(DOMAIN kept) \in Nat /\ Cardinality(DOMAIN budgets) \in Nat
  BY <1>1, FS_CardinalityType DEF CostShape
<1>3. Cardinality(DOMAIN kept) <= MaxUserBudgets
  BY <1>1, <1>2, CostConstants DEF CostShape
<1>4. \A u \in DOMAIN kept : kept[u] \in [spent : 0..Budget, start : 0..clock]
  BY DEF CostShape
<1> QED
  BY <1>1, <1>2, <1>3, <1>4 DEF CostShape

\* A refused query leaves that window in place.
LEMMA RefusedInWindow ==
  ASSUME CostShape, Cumulative, NEW u \in Users, NEW s, NEW spent, OpenWindow(u, s, spent),
         charged'[u] = charged[u], UNCHANGED clock,
         u \in DOMAIN budgets', budgets'[u] = [spent |-> spent, start |-> s]
  PROVE  WindowOf(u, s)' /\ s \in 0..clock
<1>1. s \in 0..clock /\ clock <= s + Window /\ clock \in 0..MaxClock
  BY DEF OpenWindow, CostShape
<1>2. ASSUME NEW t \in Times, t > s + Window PROVE charged[u][t] = charged[u][End]
  <2>1. t > clock
    BY <1>1, <1>2, CostConstants
  <2> QED
    BY <2>1 DEF Cumulative
<1>3. charged[u][End] <= charged[u][s] + spent
  BY DEF OpenWindow
<1> QED
  BY <1>1, <1>2, <1>3 DEF WindowOf, OpenWindow

\* What is kept before a query is charged.
LEMMA RoomKeeps ==
  ASSUME CostShape, NEW u \in Users
  PROVE  /\ DOMAIN Room(u) \subseteq DOMAIN budgets
         /\ \A v \in DOMAIN Room(u) : Room(u)[v] = budgets[v]
         /\ \A v \in DOMAIN budgets \ DOMAIN Room(u) : budgets[v].start + Window < clock
         /\ u \in DOMAIN budgets => u \in DOMAIN Room(u)
         /\ Room(u) = [v \in DOMAIN Room(u) |-> Room(u)[v]]
<1>1. CASE Cardinality(DOMAIN budgets) >= MaxUserBudgets /\ u \notin DOMAIN budgets
  <2>1. Room(u) = Younger(Window)
    BY <1>1 DEF Room
  <2>2. Younger(Window) = [v \in DOMAIN Younger(Window) |-> Younger(Window)[v]]
    BY DEF Younger
  <2>3. Window \in Nat
    BY CostConstants
  <2> QED
    BY <1>1, <2>1, <2>2, <2>3, YoungerKeeps
<1>2. CASE ~(Cardinality(DOMAIN budgets) >= MaxUserBudgets /\ u \notin DOMAIN budgets)
  <2>1. Room(u) = budgets
    BY <1>2 DEF Room
  <2> QED
    BY <2>1 DEF CostShape
<1> QED
  BY <1>1, <1>2

Open(u, kept) ==
    IF u \in DOMAIN kept /\ clock - kept[u].start <= Window THEN kept[u]
    ELSE [spent |-> 0, start |-> clock]

LEMMA OpenIsOpen ==
  ASSUME CostInv, NEW u \in Users, NEW kept, DOMAIN kept \subseteq DOMAIN budgets,
         \A v \in DOMAIN kept : kept[v] = budgets[v],
         u \in DOMAIN budgets => u \in DOMAIN kept
  PROVE  /\ OpenWindow(u, Open(u, kept).start, Open(u, kept).spent)
         /\ Open(u, kept) = [spent |-> Open(u, kept).spent, start |-> Open(u, kept).start]
<1>0. CostShape /\ Cumulative /\ WindowsKept
  BY DEF CostInv
<1>1. PICK s \in 0..clock : WindowOf(u, s)
  BY <1>0 DEF WindowsKept
<1>2. clock \in 0..MaxClock
  BY <1>0 DEF CostShape
<1>3. u \in DOMAIN budgets =>
        /\ budgets[u] \in [spent : 0..Budget, start : 0..clock]
        /\ s = budgets[u].start
  BY <1>0, <1>1 DEF CostShape, WindowOf
<1>4. CASE u \in DOMAIN kept /\ clock - kept[u].start <= Window
  <2>1. Open(u, kept) = budgets[u] /\ u \in DOMAIN budgets /\ clock - s <= Window
    BY <1>3, <1>4 DEF Open
  <2>2. clock <= s + Window
    BY <1>2, <2>1, CostConstants
  <2>3. /\ charged[u][End] <= charged[u][s] + budgets[u].spent
        /\ \A t \in 0..s : s <= t + Window => charged[u][s] <= charged[u][t] + Budget
    BY <1>1, <2>1 DEF WindowOf
  <2> QED
    BY <1>3, <2>1, <2>2, <2>3 DEF OpenWindow
<1>5. CASE ~(u \in DOMAIN kept /\ clock - kept[u].start <= Window)
  <2>1. Open(u, kept) = [spent |-> 0, start |-> clock]
    BY <1>5 DEF Open
  <2>2. s + Window < clock \/ charged[u][End] = 0
    <3>1. CASE u \in DOMAIN budgets
      <4>1. ~(clock - s <= Window)
        BY <1>3, <1>5, <3>1
      <4> QED
        BY <1>2, <4>1, CostConstants
    <3>2. CASE u \notin DOMAIN budgets
      BY <1>1, <3>2 DEF WindowOf
    <3> QED
      BY <3>1, <3>2
  <2>3. OpenWindow(u, clock, 0)
    BY <1>0, <1>1, <2>2, WindowStartsAnew
  <2> QED
    BY <2>1, <2>3
<1> QED
  BY <1>4, <1>5

LEMMA CheckBudgetKeeps ==
  ASSUME CostInv, NEW u \in Users, CheckBudget(u)
  PROVE  CostInv'
<1> DEFINE kept == Room(u)
           now == Open(u, kept)
           fits == now.spent + quoted[u] <= Budget
           entry == IF fits THEN [now EXCEPT !.spent = @ + quoted[u]] ELSE now
           full == u \notin DOMAIN kept /\ Cardinality(DOMAIN kept) >= MaxUserBudgets
<1>0. CostShape /\ Cumulative /\ WindowsKept /\ SpendingBounded
  BY DEF CostInv
<1>1. /\ DOMAIN kept \subseteq DOMAIN budgets
      /\ \A v \in DOMAIN kept : kept[v] = budgets[v]
      /\ \A v \in DOMAIN budgets \ DOMAIN kept : budgets[v].start + Window < clock
      /\ u \in DOMAIN budgets => u \in DOMAIN kept
      /\ kept = [v \in DOMAIN kept |-> kept[v]]
  BY <1>0, RoomKeeps
<1>2. /\ UNCHANGED <<load, query_costs, clock>> /\ quoted' = [quoted EXCEPT ![u] = 0]
      /\ IF full THEN budgets' = kept /\ UNCHANGED charged
         ELSE /\ budgets' = [v \in DOMAIN kept \cup {u} |-> IF v = u THEN entry ELSE kept[v]]
              /\ charged' = IF fits THEN Charge(u) ELSE charged
  BY Zenon DEF CheckBudget, Open
<1>3. quoted' \in [Users -> Nat] /\ load' \in {2, 3, HighLoad} /\ clock' \in 0..MaxClock
  BY <1>0, <1>2 DEF CostShape
<1>4. query_costs' \in Seq(Nat) /\ Len(query_costs') <= MaxCostHistory
  BY <1>0, <1>2 DEF CostShape
<1>5. clock' = clock /\ clock \in 0..MaxClock /\ clock <= clock
  BY <1>0, <1>2 DEF CostShape
<1> HIDE DEF kept
<1>6. /\ IsFiniteSet(DOMAIN kept) /\ DOMAIN kept \subseteq Users
      /\ Cardinality(DOMAIN kept) <= MaxUserBudgets /\ Cardinality(DOMAIN kept) \in Nat
      /\ kept \in [DOMAIN kept -> [spent : 0..Budget, start : 0..clock]]
  BY <1>0, <1>1, PartOfTheMap
<1>7. CASE full
  <2>1. budgets' = kept /\ charged' = charged
    BY <1>2, <1>7
  <2>2. CostShape'
    BY <1>0, <1>3, <1>4, <1>5, <1>6, <2>1 DEF CostShape
  <2>3. Cumulative' /\ SpendingBounded'
    BY <1>0, <1>5, <2>1 DEF Cumulative, SpendingBounded
  <2>4. ASSUME NEW v \in Users PROVE UserUntouched(v)
    BY <1>1, <2>1 DEF UserUntouched
  <2>5. WindowsKept'
    BY <1>3, <1>5, <2>4, UntouchedKeep DEF WindowsKept
  <2> QED
    BY <2>2, <2>3, <2>5 DEF CostInv
<1>8. CASE ~full
  <2>1. /\ budgets' = [v \in DOMAIN kept \cup {u} |-> IF v = u THEN entry ELSE kept[v]]
        /\ charged' = IF fits THEN Charge(u) ELSE charged
    BY <1>2, <1>8
  <2>2. /\ OpenWindow(u, now.start, now.spent)
        /\ now = [spent |-> now.spent, start |-> now.start]
    BY <1>1, OpenIsOpen
  <2>3. now.start \in 0..clock /\ now.spent \in 0..Budget /\ quoted[u] \in Nat
    BY <1>0, <2>2 DEF OpenWindow, CostShape
  <2> HIDE DEF now
  <2>4. /\ fits => entry = [spent |-> now.spent + quoted[u], start |-> now.start]
        /\ ~fits => entry = [spent |-> now.spent, start |-> now.start]
    BY <2>2
  <2>5. entry \in [spent : 0..Budget, start : 0..clock]
    <3>1. fits => now.spent + quoted[u] \in 0..Budget
      BY <2>3, CostConstants
    <3> QED
      BY <2>3, <2>4, <3>1
  <2> HIDE DEF entry
  <2>6. /\ DOMAIN budgets' = DOMAIN kept \cup {u} /\ budgets'[u] = entry
        /\ \A v \in DOMAIN kept \ {u} : budgets'[v] = kept[v]
    BY <2>1
  <2>7. budgets' \in [DOMAIN budgets' -> [spent : 0..Budget, start : 0..clock']]
    BY <1>5, <1>6, <2>1, <2>5
  <2>8. IsFiniteSet(DOMAIN budgets') /\ Cardinality(DOMAIN budgets') <= MaxUserBudgets
    <3>1. IsFiniteSet(DOMAIN budgets') /\ Cardinality(DOMAIN budgets') =
            IF u \in DOMAIN kept THEN Cardinality(DOMAIN kept) ELSE Cardinality(DOMAIN kept) + 1
      BY <1>6, <2>6, FS_AddElement
    <3>2. u \notin DOMAIN kept => ~(Cardinality(DOMAIN kept) >= MaxUserBudgets)
      BY <1>8
    <3> QED
      BY <1>6, <3>1, <3>2, CostConstants
  <2>9. ASSUME NEW v \in Users \ {u}, charged'[v] = charged[v]
        PROVE  \E s \in 0..clock' : WindowOf(v, s)'
    <3>1. UserUntouched(v)
      BY <1>1, <2>6, <2>9 DEF UserUntouched
    <3> QED
      BY <1>3, <1>5, <3>1, UntouchedKeep
  <2>10. CASE fits
    <3>1. charged' = Charge(u)
      BY <2>1, <2>10
    <3>2. budgets'[u] = [spent |-> now.spent + quoted[u], start |-> now.start] /\ u \in DOMAIN budgets'
      BY <2>4, <2>6, <2>10
    <3>3. /\ charged' \in [Users -> [Times -> Nat]] /\ Cumulative' /\ SpendingBounded'
          /\ \E s \in 0..clock' : WindowOf(u, s)'
      <4>1. PICK s, spent : s = now.start /\ spent = now.spent
        OBVIOUS
      <4>2. /\ OpenWindow(u, s, spent) /\ spent + quoted[u] <= Budget
            /\ budgets'[u] = [spent |-> spent + quoted[u], start |-> s]
        BY <2>2, <2>10, <3>2, <4>1
      <4>3. /\ charged' \in [Users -> [Times -> Nat]] /\ Cumulative' /\ SpendingBounded'
            /\ WindowOf(u, s)' /\ s \in 0..clock
        BY <1>0, <1>5, <3>1, <3>2, <4>2, ChargedInWindow
      <4> QED
        BY <1>5, <4>3
    <3>4. CostShape'
      BY <1>3, <1>4, <1>6, <2>6, <2>7, <2>8, <3>3 DEF CostShape
    <3>5. \A v \in Users \ {u} : charged'[v] = charged[v]
      BY <1>0, <3>1 DEF Charge, CostShape
    <3>6. WindowsKept'
      BY <2>9, <3>3, <3>5, Zenon DEF WindowsKept
    <3> QED
      BY <3>3, <3>4, <3>6 DEF CostInv
  <2>11. CASE ~fits
    <3>1. charged' = charged
      BY <2>1, <2>11
    <3>2. budgets'[u] = [spent |-> now.spent, start |-> now.start] /\ u \in DOMAIN budgets'
      BY <2>4, <2>6, <2>11
    <3>3. \E s \in 0..clock' : WindowOf(u, s)'
      <4>1. PICK s, spent : s = now.start /\ spent = now.spent
        OBVIOUS
      <4>2. OpenWindow(u, s, spent) /\ budgets'[u] = [spent |-> spent, start |-> s]
        BY <2>2, <3>2, <4>1
      <4>3. WindowOf(u, s)' /\ s \in 0..clock
        BY <1>0, <1>5, <3>1, <3>2, <4>2, RefusedInWindow
      <4> QED
        BY <1>5, <4>3
    <3>4. CostShape'
      BY <1>0, <1>3, <1>4, <1>6, <2>6, <2>7, <2>8, <3>1 DEF CostShape
    <3>5. Cumulative' /\ SpendingBounded'
      BY <1>0, <1>5, <3>1 DEF Cumulative, SpendingBounded
    <3>6. WindowsKept'
      BY <2>9, <3>1, <3>3, Zenon DEF WindowsKept
    <3> QED
      BY <3>4, <3>5, <3>6 DEF CostInv
  <2> QED
    BY <2>10, <2>11
<1> QED
  BY <1>7, <1>8

LEMMA OtherStepsKeep ==
  ASSUME CostInv, clock' \in 0..MaxClock, clock <= clock', CostShape', charged' = charged,
         \A v \in Users : UserUntouched(v)
  PROVE  CostInv'
<1>1. CostShape /\ Cumulative /\ SpendingBounded
  BY DEF CostInv
<1>2. clock \in 0..MaxClock
  BY <1>1 DEF CostShape
<1>3. Cumulative' /\ SpendingBounded'
  <2>1. \A t \in Times : t > clock' => t > clock
    BY <1>2, CostConstants
  <2> QED
    BY <1>1, <2>1 DEF Cumulative, SpendingBounded
<1>4. WindowsKept'
  BY UntouchedKeep DEF WindowsKept
<1> QED
  BY <1>3, <1>4 DEF CostInv

LEMMA CostInvStays == CostInv /\ [CostNext]_costVars => CostInv'
<1> SUFFICES ASSUME CostInv, [CostNext]_costVars PROVE CostInv'
  OBVIOUS
<1>0. CostShape
  BY DEF CostInv
<1>1. clock \in 0..MaxClock /\ clock \in Nat /\ clock <= clock
  BY <1>0, CostConstants DEF CostShape
<1>2. ASSUME NEW u \in Users, CalculateCost(u) PROVE CostInv'
  <2>1. PICK base \in BaseCosts :
          LET total == (base * load) \div 2 IN
          /\ quoted' = [quoted EXCEPT ![u] = total]
          /\ query_costs' = Append(IF Len(query_costs) >= MaxCostHistory THEN Tail(query_costs)
                                   ELSE query_costs, total)
    BY <1>2 DEF CalculateCost
  <2>2. UNCHANGED <<load, budgets, clock, charged>>
    BY <1>2 DEF CalculateCost
  <2>3. (base * load) \div 2 \in Nat
    <3>1. base \in Nat /\ load \in Nat
      BY <1>0, CostConstants, SMTT(30) DEF CostShape
    <3>2. base * load \in Nat
      BY <3>1
    <3> QED
      BY <3>2
  <2>4. quoted' \in [Users -> Nat]
    BY <1>0, <2>1, <2>3 DEF CostShape
  <2>5. query_costs' \in Seq(Nat) /\ Len(query_costs') <= MaxCostHistory
    <3>1. query_costs \in Seq(Nat) /\ Len(query_costs) <= MaxCostHistory /\ Len(query_costs) \in Nat
      BY <1>0 DEF CostShape
    <3>2. CASE Len(query_costs) >= MaxCostHistory
      <4>1. query_costs # <<>>
        BY <3>1, <3>2, CostConstants
      <4>2. Tail(query_costs) \in Seq(Nat) /\ Len(Tail(query_costs)) = Len(query_costs) - 1
        BY <3>1, <4>1
      <4> QED
        BY <2>1, <2>3, <3>1, <3>2, <4>2, CostConstants
    <3>3. CASE ~(Len(query_costs) >= MaxCostHistory)
      BY <2>1, <2>3, <3>1, <3>3, CostConstants
    <3> QED
      BY <3>2, <3>3
  <2>6. CostShape'
    BY <1>0, <2>2, <2>4, <2>5 DEF CostShape
  <2>7. \A v \in Users : UserUntouched(v)
    BY <2>2 DEF UserUntouched
  <2> QED
    BY <1>1, <2>2, <2>6, <2>7, OtherStepsKeep
<1>3. ASSUME NEW u \in Users, CheckBudget(u) PROVE CostInv'
  BY <1>3, CheckBudgetKeeps
<1>4. CASE UpdateLoadFactor
  <2>1. load' \in {2, 3, HighLoad} /\ UNCHANGED <<budgets, query_costs, quoted, clock, charged>>
    BY <1>4 DEF UpdateLoadFactor
  <2>2. CostShape'
    BY <1>0, <2>1 DEF CostShape
  <2>3. \A v \in Users : UserUntouched(v)
    BY <2>1 DEF UserUntouched
  <2> QED
    BY <1>1, <2>1, <2>2, <2>3, OtherStepsKeep
<1>5. CASE CleanupExpiredBudgets
  <2> DEFINE kept == Younger(2 * Window)
  <2>1. budgets' = kept /\ UNCHANGED <<load, query_costs, quoted, clock, charged>>
    BY <1>5 DEF CleanupExpiredBudgets
  <2>2. 2 * Window \in Nat
    BY CostConstants
  <2>3. /\ DOMAIN kept \subseteq DOMAIN budgets
        /\ \A v \in DOMAIN kept : kept[v] = budgets[v]
        /\ \A v \in DOMAIN budgets \ DOMAIN kept : budgets[v].start + 2 * Window < clock
    BY <1>0, <2>2, YoungerKeeps
  <2>4. kept = [v \in DOMAIN kept |-> kept[v]]
    BY DEF Younger
  <2> HIDE DEF kept
  <2>5. /\ IsFiniteSet(DOMAIN kept) /\ DOMAIN kept \subseteq Users
        /\ Cardinality(DOMAIN kept) <= MaxUserBudgets
        /\ kept \in [DOMAIN kept -> [spent : 0..Budget, start : 0..clock]]
    BY <1>0, <2>3, <2>4, PartOfTheMap
  <2>6. CostShape'
    BY <1>0, <2>1, <2>5 DEF CostShape
  <2>7. ASSUME NEW v \in DOMAIN budgets \ DOMAIN kept PROVE budgets[v].start + Window < clock
    <3>1. budgets[v].start \in 0..clock
      BY <1>0 DEF CostShape
    <3>2. budgets[v].start + 2 * Window < clock
      BY <2>3
    <3> QED
      BY <1>1, <3>1, <3>2, CostConstants
  <2>8. \A v \in Users : UserUntouched(v)
    BY <2>1, <2>3, <2>7 DEF UserUntouched
  <2> QED
    BY <1>1, <2>1, <2>6, <2>8, OtherStepsKeep
<1>6. CASE AdvanceClock
  <2>1. clock' = clock + 1 /\ clock < MaxClock /\ UNCHANGED <<load, budgets, query_costs, quoted, charged>>
    BY <1>6 DEF AdvanceClock
  <2>2. clock' \in 0..MaxClock /\ clock <= clock'
    BY <1>1, <2>1, CostConstants
  <2>3. \A v \in DOMAIN budgets : budgets[v] \in [spent : 0..Budget, start : 0..clock']
    BY <1>0, <1>1, <2>1 DEF CostShape
  <2>4. budgets = [v \in DOMAIN budgets |-> budgets[v]]
    BY <1>0 DEF CostShape
  <2>5. budgets \in [DOMAIN budgets -> [spent : 0..Budget, start : 0..clock']]
    BY <2>3, <2>4
  <2>6. CostShape'
    BY <1>0, <2>1, <2>2, <2>5 DEF CostShape
  <2>7. \A v \in Users : UserUntouched(v)
    BY <2>1 DEF UserUntouched
  <2> QED
    BY <2>1, <2>2, <2>6, <2>7, OtherStepsKeep
<1>7. CASE UNCHANGED costVars
  <2>1. UNCHANGED <<load, budgets, query_costs, quoted, clock, charged>>
    BY <1>7 DEF costVars
  <2>2. CostShape'
    BY <1>0, <2>1 DEF CostShape
  <2>3. \A v \in Users : UserUntouched(v)
    BY <2>1 DEF UserUntouched
  <2> QED
    BY <1>1, <2>1, <2>2, <2>3, OtherStepsKeep
<1> QED
  BY <1>2, <1>3, <1>4, <1>5, <1>6, <1>7 DEF CostNext

\* The tracked users stay within the map's limit and no user's window holds more than the
\* budget, whatever is refused, dropped or cleaned up (check_user_budget).
THEOREM CostIsTyped == CostSpec => []CostTypeOK
<1>1. CostInv => CostTypeOK
  <2>1. ASSUME CostShape, NEW u \in DOMAIN budgets
        PROVE  budgets[u].spent \in 0..Budget /\ budgets[u].start \in 0..clock
    BY <2>1 DEF CostShape
  <2> QED
    BY <2>1 DEF CostInv, CostShape, CostTypeOK
<1> QED
  BY <1>1, CostInvHoldsFirst, CostInvStays, PTL DEF CostSpec

\* No interval as long as a window charges a user more than two budgets: the window of an
\* entry that is dropped is over, and the next one starts no earlier (check_user_budget,
\* cleanup_expired_budgets).
THEOREM SpendingIsBounded == CostSpec => []SpendingBounded
<1>1. CostInv => SpendingBounded
  BY DEF CostInv
<1> QED
  BY <1>1, CostInvHoldsFirst, CostInvStays, PTL DEF CostSpec

-----------------------------------------------------------------------------
DeferSpec == DeferInit /\ [][DeferNext]_deferVars

PartRecord == [fields : SUBSET RootFields, has_next : BOOLEAN]

DeferShape ==
    /\ fragments \in Seq(SUBSET RootFields) /\ disabled \in Nat
    /\ data \subseteq response /\ response \subseteq RootFields
    /\ splitter \in [at : {"none", "split", "patch", "timeout", "done"},
                     patches : Seq(SUBSET RootFields)]
    /\ parts \in Seq(PartRecord) /\ delivered \in Seq(PartRecord)
    /\ Len(parts) <= ChannelCapacity
    /\ stream \in {"none", "plain", "refused", "open", "ended", "dropped"}
    /\ late \in BOOLEAN

\* What was sent, whether or not the client has it yet.
Sent == delivered \o parts

\* Each of the fields is in one of the parts sent or of the patches to send, and in one only.
Once(fields, sent, patches) ==
    /\ \A f \in fields : \/ \E n \in DOMAIN sent : f \in sent[n].fields
                         \/ \E i \in DOMAIN patches : f \in patches[i]
    /\ \A n, k \in DOMAIN sent : n # k => sent[n].fields \cap sent[k].fields = {}
    /\ \A i, j \in DOMAIN patches : i # j => patches[i] \cap patches[j] = {}
    /\ \A n \in DOMAIN sent, i \in DOMAIN patches : sent[n].fields \cap patches[i] = {}

MoreToCome(sent) == sent # <<>> /\ \A n \in DOMAIN sent : sent[n].has_next

LastSaysSo(sent) == \A n \in DOMAIN sent : sent[n].has_next <=> n < Len(sent)

\* What the channel and the client hold at each step of the splitter.
SplitSays ==
    /\ splitter.at # "none"
    /\ splitter.at = "split" => Sent = <<>> /\ data = response
    /\ splitter.at = "patch" =>
           /\ MoreToCome(Sent) /\ splitter.patches # <<>>
           /\ Once(response, Sent, splitter.patches)
    /\ splitter.at = "timeout" => late /\ MoreToCome(Sent)
    /\ splitter.at = "done" =>
           /\ Sent # <<>> /\ LastSaysSo(Sent)
           /\ late \/ Once(response, Sent, <<>>)

DeferInv ==
    /\ DeferShape
    /\ stream \in {"none", "plain", "refused"} =>
           splitter.at = "none" /\ parts = <<>> /\ delivered = <<>>
    /\ stream = "open" => SplitSays
    /\ DeferredIsWhole

LEMMA LeastInOrder ==
  ASSUME NEW R, IsWellFoundedOn(R, Nat), \A x, y \in Nat : x < y => <<x, y>> \in R,
         NEW S \in SUBSET Nat, S # {}
  PROVE  \E m \in S : \A k \in S : m <= k
<1>0. S \subseteq Nat
  OBVIOUS
<1>1. \E m \in S : \A k \in S : ~(<<k, m>> \in R)
  BY ONLY <1>0, IsWellFoundedOn(R, Nat), S # {}, WFMin, Zenon
<1>2. PICK m \in S : \A k \in S : ~(<<k, m>> \in R)
  BY <1>1
<1>3. \A k \in S : ~(k < m)
  BY <1>0, <1>2
<1> QED
  BY <1>0, <1>3

LEMMA LeastNatural ==
  ASSUME NEW S \in SUBSET Nat, S # {}
  PROVE  \E m \in S : \A k \in S : m <= k
<1>1. \A x, y \in Nat : x < y => <<x, y>> \in OpToRel(<, Nat)
  BY Zenon DEF OpToRel
<1> QED
  BY <1>1, NatLessThanWellFounded, LeastInOrder, Zenon

LEMMA Queued ==
  ASSUME NEW S, NEW d \in Seq(S), NEW q \in Seq(S), NEW p \in S
  PROVE  d \o Append(q, p) = Append(d \o q, p)
<1>1. d \o q \in Seq(S) /\ d \o Append(q, p) \in Seq(S)
  OBVIOUS
<1>2. /\ Len(d \o Append(q, p)) = Len(Append(d \o q, p))
      /\ \A n \in 1..Len(d \o Append(q, p)) : (d \o Append(q, p))[n] = Append(d \o q, p)[n]
  BY SMTT(30)
<1> QED
  BY <1>1, <1>2, SMTT(30)

LEMMA Delivered ==
  ASSUME NEW S, NEW d \in Seq(S), NEW q \in Seq(S), q # <<>>
  PROVE  Append(d, Head(q)) \o Tail(q) = d \o q
<1>1. d \o q \in Seq(S) /\ Append(d, Head(q)) \o Tail(q) \in Seq(S)
  OBVIOUS
<1>2. /\ Len(Append(d, Head(q)) \o Tail(q)) = Len(d \o q)
      /\ \A n \in 1..Len(d \o q) : (Append(d, Head(q)) \o Tail(q))[n] = (d \o q)[n]
  BY SMTT(30)
<1> QED
  BY <1>1, <1>2, SMTT(30)

LEMMA LastOne ==
  ASSUME NEW S, NEW q \in Seq(S), q # <<>>, NEW n \in Nat, n + 1 = n + Len(q)
  PROVE  Tail(q) = <<>>
<1>1. Len(q) \in Nat /\ Len(q) = 1
  <2> DEFINE l == Len(q)
  <2>1. l \in Nat /\ n + 1 = n + l
    OBVIOUS
  <2> HIDE DEF l
  <2>2. l = 1
    BY <2>1
  <2> QED
    BY <2>1, <2>2 DEF l
<1>2. Tail(q) \in Seq(S) /\ Len(Tail(q)) = 0
  BY <1>1
<1> DEFINE t == Tail(q)
<1>3. t \in Seq(S) /\ Len(t) = 0
  BY <1>2
<1> HIDE DEF t
<1>4. t = <<>>
  BY ONLY <1>3
<1> QED
  BY <1>4 DEF t

\* The initial part and the patches hold each field of the response once.
LEMMA SplitOnce ==
  ASSUME DeferShape
  PROVE  /\ Patches \in Seq(SUBSET RootFields) /\ Len(Patches) = Len(fragments)
         /\ Initial \in PartRecord /\ Initial.fields \subseteq data
         /\ Initial.has_next <=> fragments # <<>>
         /\ Once(data, <<Initial>>, Patches)
<1>1. /\ DOMAIN fragments = 1..Len(fragments) /\ Len(fragments) \in Nat
      /\ fragments \in [DOMAIN fragments -> SUBSET RootFields]
      /\ data \subseteq RootFields
  BY DEF DeferShape
<1>2. Patches \in [1..Len(fragments) -> SUBSET RootFields]
  BY <1>1 DEF Patches
<1>3. Patches \in Seq(SUBSET RootFields) /\ Len(Patches) = Len(fragments)
  BY <1>1, <1>2
<1>4. Initial = [fields |-> data \ UNION {fragments[i] : i \in DOMAIN fragments},
                 has_next |-> fragments # <<>>]
  BY DEF Initial, Part
<1>5. Initial \in PartRecord /\ Initial.fields \subseteq data
      /\ (Initial.has_next <=> fragments # <<>>)
  BY <1>1, <1>4 DEF PartRecord
<1>6. ASSUME NEW f \in data, f \notin Initial.fields
      PROVE  \E i \in DOMAIN Patches : f \in Patches[i]
  <2> DEFINE S == {i \in DOMAIN fragments : f \in fragments[i]}
  <2>1. S \in SUBSET Nat /\ S # {}
    BY <1>1, <1>4, <1>6
  <2>2. PICK m \in S : \A k \in S : m <= k
    BY <2>1, LeastNatural
  <2>3. f \in Patches[m]
    <3>1. m \in DOMAIN fragments /\ f \in fragments[m]
      BY <2>2
    <3>2. ASSUME NEW j \in 1..(m - 1) PROVE f \notin fragments[j]
      BY <1>1, <2>2, <3>1, <3>2
    <3> QED
      BY <3>1, <3>2, <1>6 DEF Patches
  <2> QED
    BY <1>1, <1>2, <2>2, <2>3
<1>7. ASSUME NEW i \in DOMAIN Patches, NEW j \in DOMAIN Patches, i < j
      PROVE  Patches[i] \cap Patches[j] = {}
  <2>1. i \in 1..(j - 1) /\ j \in DOMAIN fragments /\ i \in DOMAIN fragments
    BY <1>1, <1>2, <1>7
  <2>2. Patches[i] \subseteq fragments[i] /\ Patches[j] \cap fragments[i] = {}
    BY <2>1 DEF Patches
  <2> QED
    BY <2>2
<1>8. \A i, j \in DOMAIN Patches : i # j => Patches[i] \cap Patches[j] = {}
  <2>1. DOMAIN Patches \subseteq Int
    BY <1>1, <1>2
  <2>2. ASSUME NEW i \in DOMAIN Patches, NEW j \in DOMAIN Patches, i # j
        PROVE  Patches[i] \cap Patches[j] = {}
    <3>1. i < j \/ j < i
      BY <2>1, <2>2
    <3> QED
      BY <3>1, <1>7
  <2> QED
    BY <2>2
<1>9. \A i \in DOMAIN Patches : Initial.fields \cap Patches[i] = {}
  BY <1>4 DEF Patches
<1>10. DOMAIN <<Initial>> = {1} /\ <<Initial>>[1] = Initial
  OBVIOUS
<1> HIDE DEF Initial, Patches
<1> QED
  BY <1>3, <1>5, <1>6, <1>8, <1>9, <1>10 DEF Once

\* A patch that is sent is in the parts instead.
LEMMA PatchOnce ==
  ASSUME NEW fields, NEW sent \in Seq(PartRecord), NEW patches \in Seq(SUBSET RootFields),
         patches # <<>>, NEW p \in PartRecord, p.fields = Head(patches),
         Once(fields, sent, patches)
  PROVE  Once(fields, Append(sent, p), Tail(patches))
<1> DEFINE s2 == Append(sent, p)
           q2 == Tail(patches)
<1>1. /\ DOMAIN s2 = DOMAIN sent \cup {Len(sent) + 1} /\ Len(sent) + 1 \notin DOMAIN sent
      /\ s2[Len(sent) + 1] = p /\ \A n \in DOMAIN sent : s2[n] = sent[n]
  OBVIOUS
<1>2. /\ 1 \in DOMAIN patches /\ p.fields = patches[1]
      /\ \A i \in DOMAIN q2 : i + 1 \in DOMAIN patches /\ i + 1 # 1 /\ q2[i] = patches[i + 1]
      /\ \A i \in DOMAIN patches \ {1} : i - 1 \in DOMAIN q2 /\ q2[i - 1] = patches[i]
      /\ \A i, j \in DOMAIN q2 : i # j => i + 1 # j + 1
  OBVIOUS
<1> HIDE DEF s2, q2
<1>3. \A f \in fields : \/ \E n \in DOMAIN s2 : f \in s2[n].fields
                        \/ \E i \in DOMAIN q2 : f \in q2[i]
  <2> SUFFICES ASSUME NEW f \in fields
               PROVE  \/ \E n \in DOMAIN s2 : f \in s2[n].fields
                      \/ \E i \in DOMAIN q2 : f \in q2[i]
    OBVIOUS
  <2>1. CASE \E n \in DOMAIN sent : f \in sent[n].fields
    BY <1>1, <2>1
  <2>2. CASE f \in patches[1]
    BY <1>1, <1>2, <2>2
  <2>3. CASE \E i \in DOMAIN patches \ {1} : f \in patches[i]
    BY <1>2, <2>3
  <2> QED
    BY <2>1, <2>2, <2>3 DEF Once
<1>4. \A n, k \in DOMAIN s2 : n # k => s2[n].fields \cap s2[k].fields = {}
  BY <1>1, <1>2 DEF Once
<1>5. \A i, j \in DOMAIN q2 : i # j => q2[i] \cap q2[j] = {}
  BY <1>2 DEF Once
<1>6. \A n \in DOMAIN s2, i \in DOMAIN q2 : s2[n].fields \cap q2[i] = {}
  BY <1>1, <1>2 DEF Once
<1> QED
  BY <1>3, <1>4, <1>5, <1>6 DEF Once, s2, q2

LEMMA DeferHoldsFirst == DeferInit => DeferInv
<1> SUFFICES ASSUME DeferInit PROVE DeferInv
  OBVIOUS
<1>1. PICK n \in 0..MaxAsked : fragments \in [1..n -> SUBSET RootFields]
  BY DEF DeferInit, Queries
<1>2. fragments \in Seq(SUBSET RootFields) /\ disabled \in Nat
  BY <1>1 DEF DeferInit
<1>3. ChannelCapacity \in Nat
  BY <1>2 DEF ChannelCapacity, Found
<1>4. parts \in Seq(PartRecord) /\ delivered \in Seq(PartRecord) /\ Len(parts) = 0
  BY DEF DeferInit
<1>5. splitter \in [at : {"none", "split", "patch", "timeout", "done"},
                   patches : Seq(SUBSET RootFields)]
      /\ splitter.at = "none"
  <2>1. <<>> \in Seq(SUBSET RootFields)
    OBVIOUS
  <2> QED
    BY <2>1 DEF DeferInit
<1>6. DeferShape
  <2>1. data \subseteq response /\ response \subseteq RootFields
        /\ stream \in {"none", "plain", "refused", "open", "ended", "dropped"}
        /\ late \in BOOLEAN
    BY DEF DeferInit
  <2>2. Len(parts) <= ChannelCapacity
    BY <1>3, <1>4
  <2> QED
    BY <1>2, <1>4, <1>5, <2>1, <2>2 DEF DeferShape
<1> QED
  BY <1>5, <1>6 DEF DeferInit, DeferInv, DeferredIsWhole

\* A part that is sent is appended to what was sent.
LEMMA SendAppends ==
  ASSUME DeferInv, CanSend, NEW p \in PartRecord, parts' = Append(parts, p),
         UNCHANGED <<fragments, disabled, stream, delivered>>
  PROVE  /\ Sent \in Seq(PartRecord) /\ Sent' = Append(Sent, p)
         /\ parts' \in Seq(PartRecord) /\ Len(parts') <= ChannelCapacity'
         /\ SplitSays /\ stream = "open" /\ stream' = "open"
<1>1. Sent' = Append(Sent, p)
  BY Queued DEF Sent, DeferInv, DeferShape
<1>2. Sent \in Seq(PartRecord) /\ parts' \in Seq(PartRecord)
  BY DEF Sent, DeferInv, DeferShape
<1>3. Len(parts') <= ChannelCapacity'
  BY DEF CanSend, ChannelCapacity, Found, DeferInv, DeferShape
<1> QED
  BY <1>1, <1>2, <1>3 DEF CanSend, DeferInv

LEMMA InitialKeeps == ASSUME DeferInv, SendInitialPart PROVE DeferInv'
<1>1. /\ CanSend /\ splitter.at = "split" /\ parts' = Append(parts, Initial)
      /\ data' = Initial.fields
      /\ splitter' = [at |-> IF fragments = <<>> THEN "done" ELSE "patch", patches |-> Patches]
      /\ UNCHANGED <<fragments, disabled, response, stream, delivered, late>>
  BY DEF SendInitialPart
<1>2. /\ Patches \in Seq(SUBSET RootFields) /\ Len(Patches) = Len(fragments)
      /\ Initial \in PartRecord /\ Initial.fields \subseteq data
      /\ Initial.has_next <=> fragments # <<>>
      /\ Once(data, <<Initial>>, Patches)
  BY SplitOnce DEF DeferInv
<1> DEFINE first == Initial
           rest == Patches
<1>3. /\ Sent \in Seq(PartRecord) /\ Sent' = Append(Sent, first)
      /\ parts' \in Seq(PartRecord) /\ Len(parts') <= ChannelCapacity'
      /\ SplitSays /\ stream = "open" /\ stream' = "open"
  BY <1>1, <1>2, SendAppends
<1>4. Sent = <<>> /\ data = response
  BY <1>1, <1>3 DEF SplitSays
<1>5. Sent' = <<first>>
  BY <1>3, <1>4
<1> HIDE DEF first, rest
<1>6. SplitSays'
  <2>1. CASE fragments = <<>>
    <3>1. rest = <<>>
      BY <1>2, <2>1 DEF rest
    <3>2. splitter'.at = "done" /\ ~first.has_next
      BY <1>1, <1>2, <2>1 DEF first
    <3>3. LastSaysSo(Sent')
      BY <1>5, <3>2 DEF LastSaysSo
    <3>4. Once(response', Sent', <<>>)
      BY <1>1, <1>2, <1>4, <1>5, <3>1 DEF first, rest
    <3> QED
      BY <1>5, <3>2, <3>3, <3>4 DEF SplitSays
  <2>2. CASE fragments # <<>>
    <3>1. rest # <<>>
      BY <1>2, <2>2 DEF rest, DeferInv, DeferShape
    <3>2. splitter'.at = "patch" /\ splitter'.patches = rest /\ first.has_next
      BY <1>1, <1>2, <2>2 DEF first, rest
    <3>3. MoreToCome(Sent')
      BY <1>5, <3>2 DEF MoreToCome
    <3>4. Once(response', Sent', splitter'.patches)
      BY <1>1, <1>2, <1>4, <1>5, <3>2 DEF first, rest
    <3> QED
      BY <3>1, <3>2, <3>3, <3>4 DEF SplitSays
  <2> QED
    BY <2>1, <2>2
<1>7. DeferShape'
  <2>1. splitter' \in [at : {"none", "split", "patch", "timeout", "done"},
                       patches : Seq(SUBSET RootFields)]
    BY <1>1, <1>2
  <2>2. data' \subseteq response'
    BY <1>1, <1>2 DEF DeferInv, DeferShape
  <2> QED
    BY <1>1, <1>3, <2>1, <2>2 DEF DeferInv, DeferShape
<1> QED
  BY <1>3, <1>6, <1>7 DEF DeferInv, DeferredIsWhole

LEMMA PatchKeeps == ASSUME DeferInv, SendPatch PROVE DeferInv'
<1> DEFINE q == splitter.patches
           p == Part(Head(q), Len(q) > 1)
<1>1. /\ CanSend /\ splitter.at = "patch" /\ parts' = Append(parts, p)
      /\ splitter' = [at |-> IF Len(q) = 1 THEN "done" ELSE "patch", patches |-> Tail(q)]
      /\ UNCHANGED <<fragments, disabled, data, response, stream, delivered, late>>
  BY DEF SendPatch
<1>2. SplitSays /\ q \in Seq(SUBSET RootFields)
  BY <1>1 DEF CanSend, DeferInv, DeferShape
<1>3. MoreToCome(Sent) /\ q # <<>> /\ Once(response, Sent, q)
  BY <1>1, <1>2 DEF SplitSays
<1>4. Head(q) \in SUBSET RootFields /\ Len(q) \in Nat \ {0} /\ Tail(q) \in Seq(SUBSET RootFields)
      /\ Len(Tail(q)) = Len(q) - 1
  BY <1>2, <1>3
<1>5. p \in PartRecord /\ p.fields = Head(q) /\ (p.has_next <=> Len(q) > 1)
  <2> DEFINE more == Len(q) > 1
  <2>1. p = [fields |-> Head(q), has_next |-> more]
    BY DEF Part
  <2>2. more \in BOOLEAN
    OBVIOUS
  <2> HIDE DEF more, p, q
  <2>3. p \in PartRecord /\ p.fields = Head(q) /\ (p.has_next <=> more)
    BY <1>4, <2>1, <2>2 DEF PartRecord
  <2> QED
    BY <2>3 DEF more
<1>6. q' = Tail(q)
  BY <1>1
<1> HIDE DEF p, q
<1>7. /\ Sent \in Seq(PartRecord) /\ Sent' = Append(Sent, p)
      /\ parts' \in Seq(PartRecord) /\ Len(parts') <= ChannelCapacity'
      /\ SplitSays /\ stream = "open" /\ stream' = "open"
  BY <1>1, <1>5, SendAppends
<1>8. Once(response', Sent', Tail(q))
  BY <1>1, <1>2, <1>3, <1>5, <1>7, PatchOnce
<1>9. /\ Sent' # <<>> /\ Len(Sent') = Len(Sent) + 1 /\ DOMAIN Sent' = 1..(Len(Sent) + 1)
      /\ Len(Sent) \in Nat /\ Sent'[Len(Sent) + 1] = p
      /\ \A n \in 1..Len(Sent) : Sent'[n].has_next
  BY <1>3, <1>7 DEF MoreToCome
<1>10. SplitSays'
  <2>1. CASE Len(q) = 1
    <3>1. splitter'.at = "done" /\ ~p.has_next /\ Tail(q) = <<>>
      BY <1>1, <1>4, <1>5, <2>1
    <3>2. LastSaysSo(Sent')
      BY <1>9, <3>1 DEF LastSaysSo
    <3> QED
      BY <1>8, <1>9, <3>1, <3>2 DEF SplitSays
  <2>2. CASE Len(q) # 1
    <3>1. splitter'.at = "patch" /\ p.has_next /\ Tail(q) # <<>>
      BY <1>1, <1>4, <1>5, <2>2
    <3>2. MoreToCome(Sent')
      BY <1>9, <3>1 DEF MoreToCome
    <3> QED
      BY <1>8, <1>1, <3>1, <3>2 DEF SplitSays
  <2> QED
    BY <2>1, <2>2
<1>11. DeferShape'
  <2>1. splitter' \in [at : {"none", "split", "patch", "timeout", "done"},
                       patches : Seq(SUBSET RootFields)]
    BY <1>1, <1>4
  <2> QED
    BY <1>1, <1>7, <2>1 DEF DeferInv, DeferShape
<1> QED
  BY <1>7, <1>10, <1>11 DEF DeferInv, DeferredIsWhole

LEMMA FinalKeeps == ASSUME DeferInv, SendFinal PROVE DeferInv'
<1> DEFINE p == Part({}, FALSE)
<1>1. /\ CanSend /\ splitter.at = "timeout" /\ parts' = Append(parts, p)
      /\ splitter' = [splitter EXCEPT !.at = "done"]
      /\ UNCHANGED <<fragments, disabled, data, response, stream, delivered, late>>
  BY DEF SendFinal
<1>2. SplitSays
  BY <1>1 DEF CanSend, DeferInv
<1>3. MoreToCome(Sent) /\ late
  BY <1>1, <1>2 DEF SplitSays
<1>5. p \in PartRecord /\ ~p.has_next
  BY DEF Part, PartRecord
<1> HIDE DEF p
<1>7. /\ Sent \in Seq(PartRecord) /\ Sent' = Append(Sent, p)
      /\ parts' \in Seq(PartRecord) /\ Len(parts') <= ChannelCapacity'
      /\ SplitSays /\ stream = "open" /\ stream' = "open"
  BY <1>1, <1>5, SendAppends
<1>9. /\ Sent' # <<>> /\ Len(Sent') = Len(Sent) + 1 /\ DOMAIN Sent' = 1..(Len(Sent) + 1)
      /\ Len(Sent) \in Nat /\ Sent'[Len(Sent) + 1] = p
      /\ \A n \in 1..Len(Sent) : Sent'[n].has_next
  BY <1>3, <1>7 DEF MoreToCome
<1>10. SplitSays'
  <2>1. splitter'.at = "done"
    BY <1>1 DEF DeferInv, DeferShape
  <2>2. LastSaysSo(Sent')
    BY <1>5, <1>9 DEF LastSaysSo
  <2> QED
    BY <1>1, <1>3, <1>9, <2>1, <2>2 DEF SplitSays
<1>11. DeferShape'
  BY <1>1, <1>7 DEF DeferInv, DeferShape
<1> QED
  BY <1>7, <1>10, <1>11 DEF DeferInv, DeferredIsWhole

\* What was sent is whole, and the client has all of it.
LEMMA WholeAtTheEnd ==
  ASSUME LastSaysSo(Sent), late \/ Once(response, Sent, <<>>),
         delivered' = Sent, response' = response, late' = late
  PROVE  DeferredIsWhole'
<1>1. \A n \in DOMAIN delivered' : delivered'[n].has_next <=> n < Len(delivered')
  BY DEF LastSaysSo
<1>2. ASSUME ~late', NEW f \in response'
      PROVE  \E n \in DOMAIN delivered' :
                 f \in delivered'[n].fields
                   /\ \A k \in DOMAIN delivered' \ {n} : f \notin delivered'[k].fields
  <2>1. Once(response, Sent, <<>>) /\ f \in response
    BY <1>2
  <2>2. PICK n \in DOMAIN Sent : f \in Sent[n].fields
    BY <2>1 DEF Once
  <2>3. \A k \in DOMAIN Sent \ {n} : f \notin Sent[k].fields
    BY <2>1, <2>2 DEF Once
  <2> QED
    BY <2>2, <2>3
<1> QED
  BY <1>1, <1>2 DEF DeferredIsWhole

LEMMA ReceiveKeeps == ASSUME DeferInv, Receive PROVE DeferInv'
<1>1. /\ stream = "open" /\ parts # <<>>
      /\ delivered' = Append(delivered, Head(parts)) /\ parts' = Tail(parts)
      /\ stream' = IF delivered # <<>> /\ ~Head(parts).has_next THEN "ended" ELSE "open"
      /\ UNCHANGED <<fragments, disabled, data, response, splitter, late>>
  BY DEF Receive
<1>2. parts \in Seq(PartRecord) /\ delivered \in Seq(PartRecord) /\ SplitSays
  BY <1>1 DEF DeferInv, DeferShape
<1>3. Sent' = Sent
  BY <1>1, <1>2, Delivered DEF Sent
<1>4. SplitSays'
  BY <1>1, <1>2, <1>3 DEF SplitSays
<1>5. DeferShape'
  <2>1. parts' \in Seq(PartRecord) /\ delivered' \in Seq(PartRecord) /\ Len(parts') < Len(parts)
    BY <1>1, <1>2
  <2>2. Len(parts') <= ChannelCapacity'
    BY <1>1, <2>1 DEF DeferInv, DeferShape, ChannelCapacity, Found
  <2>3. stream' \in {"open", "ended"}
    BY <1>1
  <2> QED
    BY <1>1, <2>1, <2>2, <2>3 DEF DeferInv, DeferShape
<1>6. ASSUME stream' = "ended" PROVE DeferredIsWhole'
  <2> DEFINE n == Len(delivered) + 1
  <2>1. ~Head(parts).has_next
    BY <1>1, <1>6
  <2>2. n \in DOMAIN Sent /\ Sent[n] = Head(parts)
    BY <1>1, <1>2 DEF Sent
  <2>3. splitter.at = "done"
    BY <1>2, <2>1, <2>2 DEF SplitSays, MoreToCome, DeferInv, DeferShape
  <2>4. LastSaysSo(Sent) /\ (late \/ Once(response, Sent, <<>>))
    BY <1>2, <2>3 DEF SplitSays
  <2>5. n = Len(Sent)
    <3>1. ~(n < Len(Sent)) /\ n \in 1..Len(Sent)
      BY <1>2, <2>1, <2>2, <2>4 DEF LastSaysSo, Sent
    <3> QED
      BY <3>1
  <2>6. Len(Sent) = Len(delivered) + Len(parts) /\ Len(delivered) \in Nat /\ Len(parts) \in Nat
    BY <1>2 DEF Sent
  <2>7. Tail(parts) = <<>>
    BY <1>1, <1>2, <2>5, <2>6, LastOne
  <2>8. delivered' = Sent
    <3>1. delivered' \in Seq(PartRecord) /\ Sent' = delivered' \o <<>>
      BY <1>1, <1>2, <2>7 DEF Sent
    <3> QED
      BY <1>3, <3>1
  <2>9. delivered' = Sent /\ response' = response /\ late' = late
    BY <1>1, <2>8
  <2> QED
    BY ONLY <2>4, <2>9, WholeAtTheEnd
<1> QED
  BY <1>1, <1>4, <1>5, <1>6 DEF DeferInv, DeferredIsWhole

LEMMA CloseKeeps == ASSUME DeferInv, CloseStream PROVE DeferInv'
<1>1. /\ stream = "open" /\ parts = <<>> /\ splitter.at = "done" /\ stream' = "ended"
      /\ UNCHANGED <<fragments, disabled, data, response, splitter, parts, delivered, late>>
  BY DEF CloseStream
<1>2. delivered \in Seq(PartRecord) /\ SplitSays
  BY <1>1 DEF DeferInv, DeferShape
<1>3. delivered' = Sent
  BY <1>1, <1>2 DEF Sent
<1>4. LastSaysSo(Sent) /\ (late \/ Once(response, Sent, <<>>))
  BY <1>1, <1>2 DEF SplitSays
<1>5. DeferredIsWhole'
  <2>1. delivered' = Sent /\ response' = response /\ late' = late
    BY <1>1, <1>3
  <2> QED
    BY ONLY <1>4, <2>1, WholeAtTheEnd
<1>6. DeferShape'
  BY <1>1 DEF DeferInv, DeferShape, ChannelCapacity, Found
<1> QED
  BY <1>1, <1>5, <1>6 DEF DeferInv

LEMMA DeferInvStays == DeferInv /\ [DeferNext]_deferVars => DeferInv'
<1> SUFFICES ASSUME DeferInv, [DeferNext]_deferVars PROVE DeferInv'
  OBVIOUS
<1>1. CASE TooMany
  BY <1>1 DEF TooMany, DeferInv, DeferShape, DeferredIsWhole, ChannelCapacity, Found
<1>2. CASE Respond
  <2>1. /\ stream = "none" /\ stream' = "open" /\ splitter' = [splitter EXCEPT !.at = "split"]
        /\ response' \in SUBSET RootFields /\ data' = response'
        /\ UNCHANGED <<fragments, disabled, parts, delivered, late>>
    BY <1>2 DEF Respond
  <2>2. DeferShape'
    BY <2>1 DEF DeferInv, DeferShape, ChannelCapacity, Found
  <2>3. splitter'.at = "split" /\ Sent' = <<>>
    BY <2>1 DEF DeferInv, DeferShape, Sent
  <2> QED
    BY <2>1, <2>2, <2>3 DEF DeferInv, SplitSays, DeferredIsWhole
<1>3. CASE SendFails
  <2>1. /\ splitter.at \in {"split", "patch", "timeout"} /\ stream # "open"
        /\ splitter' = [at |-> "done", patches |-> <<>>]
        /\ UNCHANGED <<fragments, disabled, data, response, parts, stream, delivered, late>>
    BY <1>3 DEF SendFails
  <2>2. DeferShape'
    BY <2>1 DEF DeferInv, DeferShape, ChannelCapacity, Found
  <2> QED
    BY <2>1, <2>2 DEF DeferInv, DeferredIsWhole
<1>4. CASE TimeOut
  <2>1. /\ splitter.at = "patch" /\ splitter' = [at |-> "timeout", patches |-> <<>>] /\ late'
        /\ late' \in BOOLEAN
        /\ UNCHANGED <<fragments, disabled, data, response, parts, stream, delivered>>
    BY <1>4 DEF TimeOut
  <2>2. DeferShape'
    BY <2>1 DEF DeferInv, DeferShape, ChannelCapacity, Found
  <2>3. DeferredIsWhole'
    BY <2>1 DEF DeferInv, DeferredIsWhole
  <2>4. stream' = "open" => SplitSays'
    BY <2>1 DEF DeferInv, SplitSays, Sent
  <2> QED
    BY <2>1, <2>2, <2>3, <2>4 DEF DeferInv
<1>5. CASE ClientLeaves
  <2>1. /\ stream' = "dropped" /\ parts' = <<>>
        /\ UNCHANGED <<fragments, disabled, data, response, splitter, delivered, late>>
    BY <1>5 DEF ClientLeaves
  <2>2. DeferShape'
    BY <2>1 DEF DeferInv, DeferShape, ChannelCapacity, Found
  <2> QED
    BY <2>1, <2>2 DEF DeferInv, DeferredIsWhole
<1>6. CASE UNCHANGED deferVars
  BY <1>6 DEF deferVars, DeferInv, DeferShape, DeferredIsWhole, SplitSays, Sent, ChannelCapacity,
              Found
<1> QED
  BY <1>1, <1>2, <1>3, <1>4, <1>5, <1>6, InitialKeeps, PatchKeeps, FinalKeeps, ReceiveKeeps,
     CloseKeeps DEF DeferNext

\* A deferred answer keeps its types; the channel never holds more than it was made for.
THEOREM DeferIsTyped == DeferSpec => []DeferTypeOK
<1>1. DeferInv => DeferTypeOK
  BY DEF DeferInv, DeferShape, DeferTypeOK
<1> QED
  BY <1>1, DeferHoldsFirst, DeferInvStays, PTL DEF DeferSpec

\* When a deferred answer has ended, every field of the response was in one part and one
\* only, and the last part, but no other, said that nothing follows, unless the total
\* timeout was exceeded (DeferredExecution::execute, the multipart stream).
THEOREM DeferredComesWhole == DeferSpec => []DeferredIsWhole
<1>1. DeferInv => DeferredIsWhole
  BY DEF DeferInv
<1> QED
  BY <1>1, DeferHoldsFirst, DeferInvStays, PTL DEF DeferSpec

-----------------------------------------------------------------------------
ShutdownSpec == ShutdownInit /\ [][ShutdownNext]_shutdownVars

NotYetCalled == {"spawned", "waiting", "initiate"}
ShuttingDown == {"announce", "notify", "poll", "force", "delay", "returned"}

StopperSteps == NotYetCalled \cup ShuttingDown
                    \cup {"starting", "serving", "listening", "closing", "killed"}

\* Only the task of the signal handlers ever runs the shutdown: the server's own call comes
\* after its receiver got the message, hence finds the shutdown initiated.
OneShutsDown ==
    /\ initiated <=> stopper["signal"] \in ShuttingDown
    /\ notice = "message" \/ stopper["main"] \in {"closing", "initiate"} => initiated

\* The phase others read is the one that task has come to.
PhaseIsItsOwn ==
    phase = CASE stopper["signal"] \in NotYetCalled \cup {"announce"} -> "Running"
              [] stopper["signal"] \in {"notify", "poll", "force", "delay"} -> "Draining"
              [] stopper["signal"] = "returned" -> "Shutdown"

ShutdownInv ==
    /\ stopper \in [Stoppers -> StopperSteps] /\ ShutdownTypeOK
    /\ OneShutsDown /\ PhaseIsItsOwn

LEMMA ShutdownHoldsFirst == ShutdownInit => ShutdownInv
<1> SUFFICES ASSUME ShutdownInit PROVE ShutdownInv
  OBVIOUS
<1>1. stopper \in [Stoppers -> StopperSteps] /\ stopper["signal"] = "spawned" /\ stopper["main"] = "starting"
  BY DEF ShutdownInit, Stoppers, StopperSteps, NotYetCalled
<1>2. initiated = FALSE /\ phase = "Running" /\ notice = "none" /\ signals = 0
  BY DEF ShutdownInit
<1> QED
  BY <1>1, <1>2, ShutdownAssumption
  DEF ShutdownInv, ShutdownTypeOK, OneShutsDown, PhaseIsItsOwn, NotYetCalled, ShuttingDown

\* One task moves, the other stays.
LEMMA StopperMoves ==
    ASSUME stopper \in [Stoppers -> StopperSteps], NEW where \in StopperSteps
    PROVE  /\ Goes("signal", where) => /\ stopper' \in [Stoppers -> StopperSteps]
                                       /\ stopper'["signal"] = where /\ stopper'["main"] = stopper["main"]
           /\ Goes("main", where) => /\ stopper' \in [Stoppers -> StopperSteps]
                                     /\ stopper'["main"] = where /\ stopper'["signal"] = stopper["signal"]
  BY DEF Goes, Stoppers

\* A step of the two tasks moves one of them; the steps of clients and clock move none.
LEMMA StepKeepsShutdownInv == ShutdownInv /\ [ShutdownNext]_shutdownVars => ShutdownInv'
<1> SUFFICES ASSUME ShutdownInv, [ShutdownNext]_shutdownVars PROVE ShutdownInv'
  OBVIOUS
<1>a. /\ {"spawned", "waiting", "initiate", "announce", "notify", "poll", "force", "delay",
            "returned", "starting", "serving", "listening", "closing", "killed"} \subseteq StopperSteps
  BY DEF StopperSteps, NotYetCalled, ShuttingDown
<1> USE <1>a
<1> DEFINE sig == stopper["signal"]
           mn == stopper["main"]
<1>0. stopper \in [Stoppers -> StopperSteps] /\ ShutdownTypeOK /\ OneShutsDown /\ PhaseIsItsOwn
  BY DEF ShutdownInv
<1>1. ASSUME stopper' \in [Stoppers -> StopperSteps], sig' = sig, mn' = mn,
             UNCHANGED <<initiated, phase, notice>>, signals' \in 0..MaxSignals
      PROVE  ShutdownInv'
  BY <1>0, <1>1 DEF ShutdownInv, ShutdownTypeOK, OneShutsDown, PhaseIsItsOwn
<1>2. CASE Install
  <2>1. /\ sig = "spawned" /\ stopper' \in [Stoppers -> StopperSteps] /\ sig' = "waiting" /\ mn' = mn
        /\ UNCHANGED <<initiated, phase, notice, signals>>
    BY <1>0, <1>2, StopperMoves DEF Install, At
  <2> QED
    BY <1>0, <2>1 DEF ShutdownInv, ShutdownTypeOK, OneShutsDown, PhaseIsItsOwn, NotYetCalled, ShuttingDown
<1>3. CASE Signal
  <2>1. signals' \in 0..MaxSignals /\ UNCHANGED <<initiated, phase, notice>>
    BY <1>0, <1>3, ShutdownAssumption DEF Signal, ShutdownTypeOK
  <2>2. CASE sig = "spawned"
    <3>1. stopper' \in [Stoppers -> StopperSteps] /\ sig' = sig /\ mn' = "killed"
      BY <1>0, <1>3, <2>2, StopperMoves DEF Signal, Goes
    <3> QED
      BY <1>0, <2>1, <2>2, <3>1
      DEF ShutdownInv, ShutdownTypeOK, OneShutsDown, PhaseIsItsOwn, NotYetCalled, ShuttingDown
  <2>3. CASE sig = "waiting"
    <3>1. stopper' \in [Stoppers -> StopperSteps] /\ sig' = "initiate" /\ mn' = mn
      BY <1>0, <1>3, <2>3, StopperMoves DEF Signal, Goes
    <3> QED
      BY <1>0, <2>1, <2>3, <3>1
      DEF ShutdownInv, ShutdownTypeOK, OneShutsDown, PhaseIsItsOwn, NotYetCalled, ShuttingDown
  <2>4. CASE sig \notin {"spawned", "waiting"}
    <3>1. stopper' = stopper
      BY <1>3, <2>4 DEF Signal
    <3> QED
      BY <1>0, <1>1, <2>1, <3>1
  <2> QED
    BY <2>2, <2>3, <2>4
<1>4. CASE Serve
  <2>1. /\ mn = "starting" /\ stopper' \in [Stoppers -> StopperSteps] /\ sig' = sig /\ mn' = "serving"
        /\ notice' = "empty" /\ UNCHANGED <<initiated, phase, signals>>
    BY <1>0, <1>4, StopperMoves DEF Serve, At
  <2> QED
    BY <1>0, <2>1 DEF ShutdownInv, ShutdownTypeOK, OneShutsDown, PhaseIsItsOwn
<1>5. CASE Listen \/ Hear \/ Drained
  <2>1. /\ stopper' \in [Stoppers -> StopperSteps] /\ sig' = sig
        /\ mn' = "listening" \/ (mn' \in {"closing", "initiate"} /\ (notice = "message" \/ mn = "closing"))
        /\ UNCHANGED <<initiated, phase, notice, signals>>
    <3>1. CASE Listen
      BY <1>0, <3>1, StopperMoves DEF Listen
    <3>2. CASE Hear
      BY <1>0, <3>2, StopperMoves DEF Hear
    <3>3. CASE Drained
      BY <1>0, <3>3, StopperMoves DEF Drained, At
    <3> QED
      BY <1>5, <3>1, <3>2, <3>3
  <2> QED
    BY <1>0, <2>1 DEF ShutdownInv, ShutdownTypeOK, OneShutsDown, PhaseIsItsOwn
<1>6. ASSUME NEW p \in Stoppers, Initiate(p) PROVE ShutdownInv'
  <2>0. UNCHANGED <<phase, notice, signals>> /\ initiated' = TRUE /\ stopper[p] = "initiate"
    BY <1>6 DEF Initiate, At
  <2>1. CASE p = "signal"
    <3>1. /\ sig = "initiate" /\ ~initiated
      BY <1>0, <2>0, <2>1 DEF OneShutsDown, ShuttingDown
    <3>2. stopper' \in [Stoppers -> StopperSteps] /\ sig' = "announce" /\ mn' = mn
      BY <1>0, <1>6, <2>1, <3>1, StopperMoves DEF Initiate
    <3> QED
      BY <1>0, <2>0, <3>1, <3>2
      DEF ShutdownInv, ShutdownTypeOK, OneShutsDown, PhaseIsItsOwn, NotYetCalled, ShuttingDown
  <2>2. CASE p = "main"
    <3>1. mn = "initiate" /\ initiated
      BY <1>0, <2>0, <2>2 DEF OneShutsDown
    <3>2. stopper' \in [Stoppers -> StopperSteps] /\ sig' = sig /\ mn' = "returned"
      BY <1>0, <1>6, <2>2, <3>1, StopperMoves DEF Initiate
    <3> QED
      BY <1>0, <2>0, <3>1, <3>2 DEF ShutdownInv, ShutdownTypeOK, OneShutsDown, PhaseIsItsOwn
  <2> QED
    BY <2>1, <2>2 DEF Stoppers
<1>7. ASSUME NEW p \in Stoppers, Announce(p) \/ Notify(p) \/ Poll(p) \/ ForceStop(p)
      PROVE  p = "signal"
  BY <1>0, <1>7 DEF Announce, Notify, Poll, ForceStop, At, Stoppers, ShutdownTypeOK
<1>8. CASE Announce("signal")
  <2>1. /\ sig = "announce" /\ stopper' \in [Stoppers -> StopperSteps] /\ sig' = "notify" /\ mn' = mn
        /\ phase' = "Draining" /\ UNCHANGED <<initiated, notice, signals>>
    BY <1>0, <1>8, StopperMoves DEF Announce, At
  <2> QED
    BY <1>0, <2>1 DEF ShutdownInv, ShutdownTypeOK, OneShutsDown, PhaseIsItsOwn, NotYetCalled, ShuttingDown
<1>9. CASE Notify("signal") \/ Poll("signal")
  <2>1. \E where \in {"poll", "force"} :
           /\ sig \in {"notify", "poll"} /\ stopper' \in [Stoppers -> StopperSteps] /\ sig' = where /\ mn' = mn
           /\ notice' \in {notice, "message"} /\ UNCHANGED <<initiated, phase, signals>>
    BY <1>0, <1>9, StopperMoves DEF Notify, Poll, At
  <2> QED
    BY <1>0, <2>1 DEF ShutdownInv, ShutdownTypeOK, OneShutsDown, PhaseIsItsOwn, NotYetCalled, ShuttingDown
<1>10. CASE ForceStop("signal")
  <2>1. /\ sig \in {"force", "delay"} /\ stopper' \in [Stoppers -> StopperSteps] /\ mn' = mn
        /\ \/ sig' = "delay" /\ phase' = phase
           \/ sig' = "returned" /\ phase' = "Shutdown"
        /\ UNCHANGED <<initiated, notice, signals>>
    BY <1>0, <1>10, StopperMoves DEF ForceStop, At
  <2> QED
    BY <1>0, <2>1 DEF ShutdownInv, ShutdownTypeOK, OneShutsDown, PhaseIsItsOwn, NotYetCalled, ShuttingDown
<1>11. CASE Deadline \/ (\E c \in Connections : Accept(c) \/ Close(c)) \/ UNCHANGED shutdownVars
  BY <1>0, <1>1, <1>11 DEF Deadline, Accept, Close, shutdownVars, ShutdownTypeOK
<1> QED
  BY <1>2, <1>3, <1>4, <1>5, <1>6, <1>7, <1>8, <1>9, <1>10, <1>11 DEF ShutdownNext, ShutdownTasks

\* Both tasks stay where their code can be; in particular the second caller of shutdown()
\* never begins to drain.
THEOREM ShutdownIsTyped == ShutdownSpec => []ShutdownTypeOK
<1>1. ShutdownInv => ShutdownTypeOK
  BY DEF ShutdownInv
<1> QED
  BY <1>1, ShutdownHoldsFirst, StepKeepsShutdownInv, PTL DEF ShutdownSpec

\* Signals, the server's own end and its second call of shutdown() in any order: one task
\* runs the shutdown, and the phase others read is that of this one task.
THEOREM OneTaskShutsDown == ShutdownSpec => [](OneShutsDown /\ PhaseIsItsOwn)
<1>1. ShutdownInv => OneShutsDown /\ PhaseIsItsOwn
  BY DEF ShutdownInv
<1> QED
  BY <1>1, ShutdownHoldsFirst, StepKeepsShutdownInv, PTL DEF ShutdownSpec

\* The server's part of the shutdown is done, or the message that stops it is in its receiver
\* or will be put there.
ToldToStop ==
    \/ stopper["main"] \in {"closing", "initiate", "returned"}
    \/ /\ stopper["main"] \in {"serving", "listening"}
       /\ \/ notice = "message"
          \/ notice # "none" /\ stopper["signal"] \in {"initiate", "announce", "notify"}

Subscribed == stopper["main"] \in {"serving", "listening"} => notice # "none"

\* Only Serve makes the server serving, and it subscribes; a message is never taken back.
LEMMA StepKeepsTold ==
    ShutdownInv /\ [ShutdownNext]_shutdownVars
      => (Subscribed => Subscribed') /\ (ToldToStop => ToldToStop')
<1> SUFFICES ASSUME ShutdownInv, [ShutdownNext]_shutdownVars
             PROVE  (Subscribed => Subscribed') /\ (ToldToStop => ToldToStop')
  OBVIOUS
<1> DEFINE sig == stopper["signal"]
           mn == stopper["main"]
<1>0. stopper \in [Stoppers -> StopperSteps] /\ ShutdownTypeOK /\ OneShutsDown
  BY DEF ShutdownInv
<1>a. \A where \in {"waiting", "initiate", "announce", "poll", "force", "delay", "notify",
                    "returned", "serving", "listening", "closing", "killed"} :
         where \in StopperSteps
  BY DEF StopperSteps, NotYetCalled, ShuttingDown
<1>1. CASE sig' = sig /\ mn' = mn /\ notice' = notice
  BY <1>1 DEF Subscribed, ToldToStop
<1>2. CASE Install
  <2>1. sig = "spawned" /\ sig' = "waiting" /\ mn' = mn /\ notice' = notice
    BY <1>0, <1>a, <1>2, StopperMoves DEF Install, At
  <2> QED
    BY <2>1 DEF Subscribed, ToldToStop
<1>3. CASE Signal
  <2>0. Alive /\ notice' = notice
    BY <1>3 DEF Signal
  <2>1. CASE sig = "spawned"
    <3>1. mn' = "killed"
      BY <1>0, <1>a, <1>3, <2>1, StopperMoves DEF Signal, Goes
    <3>2. ~initiated
      BY <1>0, <2>1 DEF OneShutsDown, ShuttingDown
    <3>3. ~ToldToStop
      BY <1>0, <2>0, <2>1, <3>2 DEF ToldToStop, OneShutsDown, Alive
    <3> QED
      BY <3>1, <3>3 DEF Subscribed
  <2>2. CASE sig = "waiting"
    <3>1. sig' = "initiate" /\ mn' = mn
      BY <1>0, <1>a, <1>3, <2>2, StopperMoves DEF Signal, Goes
    <3> QED
      BY <2>0, <2>2, <3>1 DEF Subscribed, ToldToStop
  <2>3. CASE sig \notin {"spawned", "waiting"}
    <3>1. stopper' = stopper
      BY <1>3, <2>3 DEF Signal
    <3> QED
      BY <1>1, <2>0, <3>1
  <2> QED
    BY <2>1, <2>2, <2>3
<1>4. CASE Serve
  <2>1. mn = "starting" /\ notice' = "empty"
    BY <1>4 DEF Serve, At
  <2> QED
    BY <2>1 DEF Subscribed, ToldToStop
<1>5. CASE Listen
  <2>1. mn = "serving" /\ mn' = "listening" /\ sig' = sig /\ notice' = notice
    BY <1>0, <1>a, <1>5, StopperMoves DEF Listen, At
  <2> QED
    BY <2>1 DEF Subscribed, ToldToStop
<1>6. CASE Hear \/ Drained
  <2>1. mn' \in {"closing", "initiate"}
    BY <1>0, <1>a, <1>6, StopperMoves DEF Hear, Drained
  <2> QED
    BY <2>1 DEF Subscribed, ToldToStop
<1>7. ASSUME NEW p \in Stoppers, Initiate(p)
      PROVE  (Subscribed => Subscribed') /\ (ToldToStop => ToldToStop')
  <2>0. notice' = notice /\ stopper[p] = "initiate"
    BY <1>7 DEF Initiate, At
  <2>1. CASE p = "signal"
    <3>1. ~initiated
      BY <1>0, <2>0, <2>1 DEF OneShutsDown, ShuttingDown
    <3>2. sig = "initiate" /\ sig' = "announce" /\ mn' = mn
      BY <1>0, <1>a, <1>7, <2>0, <2>1, <3>1, StopperMoves DEF Initiate
    <3> QED
      BY <2>0, <3>2 DEF Subscribed, ToldToStop
  <2>2. CASE p = "main"
    <3>1. initiated
      BY <1>0, <2>0, <2>2 DEF OneShutsDown
    <3>2. mn' = "returned"
      BY <1>0, <1>a, <1>7, <2>2, <3>1, StopperMoves DEF Initiate
    <3> QED
      BY <3>2 DEF Subscribed, ToldToStop
  <2> QED
    BY <2>1, <2>2 DEF Stoppers
<1>8. ASSUME NEW p \in Stoppers, Announce(p) \/ Notify(p) \/ Poll(p) \/ ForceStop(p)
      PROVE  p = "signal"
  BY <1>0, <1>8 DEF Announce, Notify, Poll, ForceStop, At, Stoppers, ShutdownTypeOK
<1>9. CASE Announce("signal")
  <2>1. sig = "announce" /\ sig' = "notify" /\ mn' = mn /\ notice' = notice
    BY <1>0, <1>a, <1>9, StopperMoves DEF Announce, At
  <2> QED
    BY <2>1 DEF Subscribed, ToldToStop
<1>10. CASE Notify("signal")
  <2>1. mn' = mn /\ notice' = IF notice = "none" THEN "none" ELSE "message"
    BY <1>0, <1>a, <1>10, StopperMoves DEF Notify
  <2> QED
    BY <2>1 DEF Subscribed, ToldToStop
<1>11. CASE Poll("signal") \/ ForceStop("signal")
  <2>1. /\ sig \in {"poll", "force", "delay"} /\ mn' = mn /\ notice' = notice
    BY <1>0, <1>a, <1>11, StopperMoves DEF Poll, ForceStop, At
  <2> QED
    BY <2>1 DEF Subscribed, ToldToStop
<1>12. CASE Deadline \/ (\E c \in Connections : Accept(c) \/ Close(c)) \/ UNCHANGED shutdownVars
  BY <1>1, <1>12 DEF Deadline, Accept, Close, shutdownVars
<1> QED
  BY <1>2, <1>3, <1>4, <1>5, <1>6, <1>7, <1>8, <1>9, <1>10, <1>11, <1>12
  DEF ShutdownNext, ShutdownTasks

\* The safety half of ServerStops: once a signal has found the server serving, it is from then
\* on stopping, or its receiver has the message, or the signal task is still to send it to
\* that receiver; that the server is not polling the receiver yet makes no difference, and no
\* later signal kills the process.
THEOREM SignalIsNotLost ==
    ShutdownSpec => [](stopper["signal"] = "initiate" /\ stopper["main"] \in {"serving", "listening"}
                         => []ToldToStop)
<1>1. ShutdownInit => Subscribed
  BY DEF ShutdownInit, Subscribed, Stoppers
<1>2. Subscribed /\ stopper["signal"] = "initiate" /\ stopper["main"] \in {"serving", "listening"}
        => ToldToStop
  BY DEF Subscribed, ToldToStop
<1> QED
  BY <1>1, <1>2, ShutdownHoldsFirst, StepKeepsShutdownInv, StepKeepsTold, PTL DEF ShutdownSpec

-----------------------------------------------------------------------------
\* A step of the composition is a step of one service and leaves the variables of the
\* others as they were.
LEMMA StepOfOneService ==
    ASSUME [ServicesNext]_serviceVars
    PROVE  /\ [SocketNext]_socketState /\ [LiveNext]_liveVars /\ [ReloadNext]_reloadVars
           /\ [ShutdownNext]_shutdownVars /\ [CostNext]_costVars /\ [WhitelistNext]_whitelistVars
           /\ [DeferNext]_deferVars /\ [RestNext]_restVars
  BY Zenon DEF ServicesNext, serviceVars, SocketStep, LiveStep, ReloadStep, ShutdownStep, CostStep,
               WhitelistStep, DeferStep, RestStep

\* A behaviour of the composition is one of each service, so that what is proved of the
\* service by itself holds in it.
LEMMA ServicesRunApart ==
    ServicesSpec => /\ SocketSpec /\ LiveSpec /\ ReloadSpec /\ ShutdownSpec /\ CostSpec
                    /\ WhitelistSpec /\ DeferSpec /\ RestSpec
<1>1. ServicesInit => /\ SocketInit /\ LiveInit /\ ReloadInit /\ ShutdownInit /\ CostInit
                      /\ WhitelistInit /\ DeferInit /\ RestInit
  BY DEF ServicesInit
<1> QED
  BY <1>1, StepOfOneService, PTL
  DEF ServicesSpec, SocketSpec, LiveSpec, ReloadSpec, ShutdownSpec, CostSpec, WhitelistSpec,
      DeferSpec, RestSpec

\* The services side by side keep every variable's type.
THEOREM ServicesAreTyped == ServicesSpec => []TypeOK
<1>1. /\ SocketTypeOK /\ LiveTypeOK /\ ReloadTypeOK /\ ShutdownTypeOK /\ CostTypeOK
      /\ WhitelistTypeOK /\ DeferTypeOK /\ RestTypeOK
      => TypeOK
  BY DEF TypeOK
<1> QED
  BY <1>1, ServicesRunApart, SocketIsTyped, LiveIsTyped, ReloadTypeCorrect, ShutdownIsTyped,
     CostIsTyped, WhitelistTypeCorrect, DeferIsTyped, RestIsTyped, PTL

=============================================================================
