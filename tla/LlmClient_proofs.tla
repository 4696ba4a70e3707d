-------------------------- MODULE LlmClient_proofs --------------------------
(***************************************************************************)
(* Proofs about LlmClient, for every set of calls and all of its limits.   *)
(***************************************************************************)
EXTENDS LlmClient, FiniteSetTheorems, TLAPS

-----------------------------------------------------------------------------
(* The semaphore and the lock *)

LEMMA HoldersFinite ==
    /\ IsFiniteSet(Holders)
    /\ Cardinality(Holders) \in Nat
<1>1. Holders \subseteq Calls
  BY DEF Holders
<1>2. IsFiniteSet(Holders)
  BY <1>1, Parameters, FS_Subset
<1>3. QED
  BY <1>2, FS_CardinalityType

\* A call that moves outside both blocks, or inside the slot it has, changes
\* nobody's slot.
LEMMA MoveKeepsSlots ==
    ASSUME IInv, NEW c \in Calls, NEW point \in Points, Goto(c, point),
           pc[c] \in InSlot <=> point \in InSlot, UNCHANGED slots
    PROVE  SlotsBalance'
<1>1. Holders' = Holders
  BY DEF IInv, TypeOK, Goto, Holders
<1>2. QED
  BY <1>1 DEF IInv, SlotsBalance

\* The semaphore's value is below its capacity while somebody is inside.
LEMMA LeaveKeepsSlots ==
    ASSUME IInv, NEW c \in Calls, NEW point \in {"answered", "failed"},
           Leave(c, point)
    PROVE  slots' \in 0 .. Concurrency /\ SlotsBalance'
<1>1. pc' = [pc EXCEPT ![c] = point] /\ point \notin InSlot
  BY DEF Leave, Goto, InSlot
<1>2. /\ slots \in 0 .. Concurrency
      /\ slots + Cardinality(Holders) = Concurrency
      /\ Concurrency \in Nat
  BY Parameters DEF IInv, TypeOK, SlotsBalance
<1>3. Holders' = Holders \ {c}
  BY <1>1 DEF IInv, TypeOK, Holders
<1>4. CASE HasSlot(c)
  <2>1. c \in Holders
    BY <1>4 DEF HasSlot, Holders
  <2>2. Cardinality(Holders') = Cardinality(Holders) - 1
    BY <1>3, <2>1, HoldersFinite, FS_RemoveElement
  <2>3. Cardinality(Holders) - 1 \in Nat
    <3>1. IsFiniteSet(Holders')
      BY <1>3, HoldersFinite, FS_Subset
    <3>2. QED
      BY <3>1, <2>2, FS_CardinalityType
  <2>4. slots' = slots + 1
    BY <1>4 DEF Leave
  <2>5. QED
    BY <1>2, <2>2, <2>3, <2>4, HoldersFinite DEF SlotsBalance
<1>5. CASE ~HasSlot(c)
  <2>1. Holders' = Holders
    BY <1>3, <1>5 DEF HasSlot, Holders
  <2>2. slots' = slots
    BY <1>5 DEF Leave
  <2>3. QED
    BY <1>2, <2>1, <2>2 DEF SlotsBalance
<1>6. QED
  BY <1>4, <1>5

\* Leaving both blocks gives back what the call had and takes nothing.
LEMMA LeaveKeepsLock ==
    ASSUME IInv, NEW c \in Calls, NEW point \in {"answered", "failed"},
           Leave(c, point)
    PROVE  /\ pc' \in [Calls -> Points]
           /\ lock' \in Calls \cup {Nobody}
           /\ LockIsHeld'
           /\ \A d \in Calls : At(d, "quota")' => At(d, "quota")
<1>1. pc' = [pc EXCEPT ![c] = point] /\ point \notin InLock /\ point \in Points
      /\ point # "quota"
  BY DEF Leave, Goto, InLock, Points
<1>2. pc \in [Calls -> Points] /\ lock \in Calls \cup {Nobody}
  BY DEF IInv, TypeOK
<1>3. \A d \in Calls : pc[d] \in InLock <=> lock = d
  BY DEF IInv, LockIsHeld, HasLock
<1>4. lock' = IF pc[c] \in InLock THEN Nobody ELSE lock
  BY DEF Leave, Unlock, HasLock
<1>5. Nobody \notin Calls
  BY Parameters DEF Nobody
<1>6. \A d \in Calls : pc'[d] \in InLock <=> lock' = d
  BY <1>1, <1>2, <1>3, <1>4, <1>5
<1>7. QED
  BY <1>1, <1>2, <1>4, <1>6 DEF LockIsHeld, HasLock, At
-----------------------------------------------------------------------------
(* The window *)

\* What the type of the two sequences says of their lengths.
LEMMA Sizes ==
    ASSUME IInv
    PROVE  /\ window \in Seq(Ages) /\ requests \in Seq(Ages)
           /\ Len(window) \in Nat /\ Len(requests) \in Nat
           /\ Window \in Nat \ {0} /\ Rpm \in Nat \ {0} /\ 0 \in Ages
           /\ Len(window) <= Rpm
<1>1. window \in Seq(Ages) /\ requests \in Seq(Ages)
  BY DEF IInv, TypeOK
<1>2. Len(window) \in Nat /\ Len(requests) \in Nat
  BY <1>1
<1>3. Window \in Nat \ {0} /\ Rpm \in Nat \ {0}
  BY Parameters
<1>4. 0 \in Ages
  BY <1>3 DEF Ages
<1>5. Len(window) <= Rpm
  BY DEF IInv, WindowHasRoom
<1>6. QED
  BY <1>1, <1>2, <1>3, <1>4, <1>5

\* WindowIsTail in the next state, from facts about its two sequences.
LEMMA TailHolds ==
    ASSUME Len(window') \in Nat, Len(requests') \in Nat,
           Len(window') <= Len(requests'),
           \A i \in 1 .. Len(window') :
               window'[i] = requests'[Len(requests') - Len(window') + i],
           \A i \in 1 .. Len(requests') - Len(window') : requests'[i] = Window
    PROVE  WindowIsTail'
  BY DEF WindowIsTail

\* Pruning keeps a tail of the deque, and drops requests that are a minute old.
LEMMA PruneKeepsTail ==
    ASSUME IInv, NEW k \in 0 .. Len(window), IsExpired(k, window),
           window' = SubSeq(window, k + 1, Len(window)), UNCHANGED requests
    PROVE  /\ window' \in Seq(Ages)
           /\ Len(window') <= Len(window)
           /\ WindowIsTail'
<1>1. /\ window \in Seq(Ages) /\ requests \in Seq(Ages)
      /\ Len(window) \in Nat /\ Len(requests) \in Nat
      /\ Window \in Nat
  BY Sizes
<1>2. /\ Len(window) <= Len(requests)
      /\ \A i \in 1 .. Len(window) :
             window[i] = requests[Len(requests) - Len(window) + i]
      /\ \A i \in 1 .. Len(requests) - Len(window) : requests[i] = Window
  BY <1>1 DEF IInv, WindowIsTail
<1>3. /\ window' \in Seq(Ages)
      /\ Len(window') = Len(window) - k
      /\ \A i \in 1 .. Len(window) - k : window'[i] = window[k + i]
  BY <1>1
<1>4. \A i \in 1 .. k : window[i] = Window
  BY <1>1 DEF IsExpired, Old, Ages
<1>5. ASSUME NEW i \in 1 .. Len(requests) - Len(window')
      PROVE  requests[i] = Window
  <2>1. CASE i <= Len(requests) - Len(window)
    BY <1>1, <1>2, <2>1
  <2>2. CASE i > Len(requests) - Len(window)
    <3> DEFINE j == i - (Len(requests) - Len(window))
    <3>1. j \in 1 .. k /\ j \in 1 .. Len(window)
      BY <1>1, <1>3, <2>2
    <3>2. window[j] = requests[Len(requests) - Len(window) + j]
      BY <1>2, <3>1
    <3>3. Len(requests) - Len(window) + j = i
      BY <1>1
    <3>4. window[j] = Window
      BY <1>4, <3>1
    <3>5. QED
      BY <3>2, <3>3, <3>4
  <2>3. QED
    BY <1>1, <1>3, <2>1, <2>2
<1>6. ASSUME NEW i \in 1 .. Len(window')
      PROVE  window'[i] = requests[Len(requests) - Len(window') + i]
  <2>1. k + i \in 1 .. Len(window) /\ window'[i] = window[k + i]
    BY <1>1, <1>3
  <2>2. window[k + i] = requests[Len(requests) - Len(window) + (k + i)]
    BY <1>2, <2>1
  <2>3. Len(requests) - Len(window) + (k + i)
            = Len(requests) - Len(window') + i
    BY <1>1, <1>3
  <2>4. QED
    BY <2>1, <2>2, <2>3
<1>7. Len(window') \in Nat /\ Len(window') <= Len(requests)
      /\ Len(window') <= Len(window)
  BY <1>1, <1>2, <1>3
<1>8. WindowIsTail'
  BY <1>1, <1>5, <1>6, <1>7, TailHolds
<1>9. QED
  BY <1>3, <1>7, <1>8

\* A request enters the window as it is sent.
LEMMA SendKeepsTail ==
    ASSUME IInv, window' = Append(window, 0), requests' = Append(requests, 0)
    PROVE  /\ window' \in Seq(Ages) /\ requests' \in Seq(Ages)
           /\ Len(window') = Len(window) + 1
           /\ Len(requests') = Len(requests) + 1
           /\ WindowIsTail'
<1>1. /\ window \in Seq(Ages) /\ requests \in Seq(Ages)
      /\ Len(window) \in Nat /\ Len(requests) \in Nat
      /\ Window \in Nat /\ 0 \in Ages
  BY Sizes
<1>2. /\ Len(window) <= Len(requests)
      /\ \A i \in 1 .. Len(window) :
             window[i] = requests[Len(requests) - Len(window) + i]
      /\ \A i \in 1 .. Len(requests) - Len(window) : requests[i] = Window
  BY <1>1 DEF IInv, WindowIsTail
<1>3. /\ window' \in Seq(Ages) /\ Len(window') = Len(window) + 1
      /\ \A i \in 1 .. Len(window) : window'[i] = window[i]
      /\ window'[Len(window) + 1] = 0
  BY <1>1
<1>4. /\ requests' \in Seq(Ages) /\ Len(requests') = Len(requests) + 1
      /\ \A i \in 1 .. Len(requests) : requests'[i] = requests[i]
      /\ requests'[Len(requests) + 1] = 0
  BY <1>1
<1>5. \A i \in 1 .. Len(requests') - Len(window') : requests'[i] = Window
  BY <1>1, <1>2, <1>3, <1>4
<1>6. ASSUME NEW i \in 1 .. Len(window')
      PROVE  window'[i] = requests'[Len(requests') - Len(window') + i]
  <2>1. CASE i = Len(window) + 1
    BY <1>1, <1>3, <1>4, <2>1
  <2>2. CASE i # Len(window) + 1
    <3> DEFINE j == Len(requests) - Len(window) + i
    <3>1. i \in 1 .. Len(window) /\ j \in 1 .. Len(requests)
      BY <1>1, <1>2, <1>3, <2>2
    <3>2. window'[i] = requests[j] /\ requests'[j] = requests[j]
      BY <1>2, <1>3, <1>4, <3>1
    <3>3. j = Len(requests') - Len(window') + i
      BY <1>1, <1>3, <1>4
    <3>4. QED
      BY <3>2, <3>3
  <2>3. QED
    BY <2>1, <2>2
<1>7. Len(window') \in Nat /\ Len(requests') \in Nat
      /\ Len(window') <= Len(requests')
  BY <1>1, <1>2, <1>3, <1>4
<1>8. WindowIsTail'
  BY <1>5, <1>6, <1>7, TailHolds
<1>9. QED
  BY <1>3, <1>4, <1>8

\* Time makes every request older by the same tick, and no older than a minute.
LEMMA OlderKeeps ==
    ASSUME NEW ages \in Seq(Ages)
    PROVE  /\ Older(ages) \in Seq(Ages)
           /\ Len(Older(ages)) = Len(ages)
           /\ \A i \in 1 .. Len(ages) :
                  Older(ages)[i] = IF ages[i] = Window THEN Window
                                   ELSE ages[i] + 1
<1>1. Window \in Nat /\ DOMAIN ages = 1 .. Len(ages) /\ Len(ages) \in Nat
  BY Parameters
<1>2. \A i \in 1 .. Len(ages) : ages[i] \in Ages
  BY <1>1
<1>3. Older(ages) = [i \in 1 .. Len(ages) |->
                        IF ages[i] = Window THEN Window ELSE ages[i] + 1]
  BY <1>1 DEF Older
<1>4. \A i \in 1 .. Len(ages) :
          (IF ages[i] = Window THEN Window ELSE ages[i] + 1) \in Ages
  BY <1>1, <1>2 DEF Ages
<1>5. QED
  BY <1>1, <1>3, <1>4
-----------------------------------------------------------------------------
(* The invariant *)

LEMMA InitInv == Init => IInv
<1> SUFFICES ASSUME Init PROVE IInv
  OBVIOUS
<1>1. TypeOK
  BY Parameters DEF Init, TypeOK, Points, Ages
<1>2. SlotsBalance
  <2>1. Holders = {}
    BY DEF Init, Holders, InSlot
  <2>2. QED
    BY <2>1, FS_EmptySet, Parameters DEF Init, SlotsBalance
<1>3. LockIsHeld
  BY Parameters DEF Init, LockIsHeld, HasLock, InLock, Nobody
<1>4. WindowHasRoom
  BY Parameters DEF Init, WindowHasRoom, At
<1>5. WindowIsTail
  BY DEF Init, WindowIsTail
<1>6. RequestsCounted
  BY DEF Init, RequestsCounted
<1>7. QED
  BY <1>1, <1>2, <1>3, <1>4, <1>5, <1>6 DEF IInv

\* Steps that move a call between two points outside the lock, and touch
\* neither the window nor a slot.
LEMMA MoveStep ==
    ASSUME IInv, NEW c \in Calls, NEW point \in Points, Goto(c, point),
           pc[c] \notin InLock, point \notin InLock,
           UNCHANGED <<lock, window, used, requests>>
    PROVE  /\ pc' \in [Calls -> Points]
           /\ LockIsHeld' /\ WindowHasRoom' /\ WindowIsTail' /\ RequestsCounted'
<1>1. pc \in [Calls -> Points] /\ pc' = [pc EXCEPT ![c] = point]
  BY DEF IInv, TypeOK, Goto
<1>2. \A d \in Calls : pc'[d] \in InLock <=> pc[d] \in InLock
  BY <1>1
<1>3. LockIsHeld'
  BY <1>2 DEF IInv, LockIsHeld, HasLock
<1>4. \A d \in Calls : At(d, "quota")' => At(d, "quota")
  BY <1>1 DEF At, InLock
<1>5. WindowHasRoom'
  BY <1>4 DEF IInv, WindowHasRoom, HasRoom
<1>6. QED
  BY <1>1, <1>3, <1>5 DEF IInv, WindowIsTail, RequestsCounted

\* Steps that end a call, whatever it had.
LEMMA LeaveStep ==
    ASSUME IInv, NEW c \in Calls, NEW point \in {"answered", "failed"},
           Leave(c, point), UNCHANGED <<tries, calls, window, used, requests>>,
           wait' \in [Calls -> Nat], spent' \in Nat
    PROVE  IInv'
<1>1. WindowHasRoom'
  BY LeaveKeepsLock DEF IInv, WindowHasRoom, HasRoom
<1>2. TypeOK'
  BY LeaveKeepsLock, LeaveKeepsSlots DEF IInv, TypeOK
<1>3. QED
  BY <1>1, <1>2, LeaveKeepsLock, LeaveKeepsSlots
     DEF IInv, WindowIsTail, RequestsCounted

LEMMA ReserveCallStep ==
    ASSUME IInv, NEW c \in Calls, ReserveCall(c)
    PROVE  IInv'
<1> DEFINE point == IF WithinBudget THEN "semaphore" ELSE "failed"
<1>1. Goto(c, point) /\ pc[c] = "new" /\ point \in Points
      /\ point \notin InSlot \cup InLock /\ pc[c] \notin InSlot \cup InLock
  BY DEF ReserveCall, At, Points, InSlot, InLock
<1>2. calls' \in 0 .. MaxCalls
  <2>1. calls \in 0 .. MaxCalls /\ MaxCalls \in Nat
    BY Parameters DEF IInv, TypeOK
  <2>2. calls' = calls \/ (calls < MaxCalls /\ calls' = calls + 1)
    <3>1. CASE WithinBudget
      BY <3>1 DEF ReserveCall, WithinBudget
    <3>2. CASE ~WithinBudget
      BY <3>2 DEF ReserveCall
    <3>3. QED
      BY <3>1, <3>2
  <2>3. QED
    BY <2>1, <2>2
<1> HIDE DEF point
<1>3. SlotsBalance'
  BY <1>1, MoveKeepsSlots DEF ReserveCall
<1>4. /\ pc' \in [Calls -> Points]
      /\ LockIsHeld' /\ WindowHasRoom' /\ WindowIsTail' /\ RequestsCounted'
  BY <1>1, MoveStep DEF ReserveCall, limiter
<1>5. TypeOK'
  BY <1>2, <1>4 DEF IInv, TypeOK, ReserveCall, limiter
<1>6. QED
  BY <1>3, <1>4, <1>5 DEF IInv

LEMMA CacheHitStep ==
    ASSUME IInv, NEW c \in Calls, CacheHit(c)
    PROVE  IInv'
<1>1. Goto(c, "answered") /\ pc[c] = "new"
  BY DEF CacheHit, At
<1>2. /\ pc' \in [Calls -> Points]
      /\ LockIsHeld' /\ WindowHasRoom' /\ WindowIsTail' /\ RequestsCounted'
  BY <1>1, MoveStep DEF CacheHit, limiter, Points, InLock
<1>3. SlotsBalance'
  BY <1>1, MoveKeepsSlots DEF CacheHit, InSlot, Points
<1>4. TypeOK'
  BY <1>2 DEF IInv, TypeOK, CacheHit, budget, limiter
<1>5. QED
  BY <1>2, <1>3, <1>4 DEF IInv

LEMMA EnterSemaphoreStep ==
    ASSUME IInv, NEW c \in Calls, EnterSemaphore(c)
    PROVE  IInv'
<1>1. Goto(c, "lock") /\ pc[c] = "semaphore" /\ pc \in [Calls -> Points]
  BY DEF EnterSemaphore, At, IInv, TypeOK
<1>2. /\ pc' \in [Calls -> Points]
      /\ LockIsHeld' /\ WindowHasRoom' /\ WindowIsTail' /\ RequestsCounted'
  BY <1>1, MoveStep DEF EnterSemaphore, limiter, Points, InLock
<1>3. Holders' = Holders \cup {c} /\ c \notin Holders
  BY <1>1 DEF Goto, Holders, InSlot
<1>4. Cardinality(Holders') = Cardinality(Holders) + 1
  BY <1>3, HoldersFinite, FS_AddElement
<1>5. slots' = slots - 1 /\ slots > 0 /\ slots \in 0 .. Concurrency
      /\ Concurrency \in Nat
  BY Parameters DEF EnterSemaphore, IInv, TypeOK
<1>6. SlotsBalance'
  BY <1>4, <1>5, HoldersFinite DEF IInv, SlotsBalance
<1>7. TypeOK'
  BY <1>2, <1>5 DEF IInv, TypeOK, EnterSemaphore, budget, limiter
<1>8. QED
  BY <1>2, <1>6, <1>7 DEF IInv

LEMMA TakeLockStep ==
    ASSUME IInv, NEW c \in Calls, TakeLock(c)
    PROVE  IInv'
<1>1. Goto(c, "window") /\ pc[c] = "lock" /\ pc \in [Calls -> Points]
      /\ lock = Nobody /\ lock' = c
  BY DEF TakeLock, At, IInv, TypeOK
<1>2. pc' \in [Calls -> Points] /\ pc' = [pc EXCEPT ![c] = "window"]
  BY <1>1 DEF Goto, Points
<1>3. \A d \in Calls : pc[d] \notin InLock
  BY <1>1, Parameters DEF IInv, LockIsHeld, HasLock, Nobody
<1>4. LockIsHeld'
  BY <1>1, <1>2, <1>3 DEF LockIsHeld, HasLock, InLock
<1>5. SlotsBalance'
  BY <1>1, MoveKeepsSlots DEF TakeLock, InSlot, Points
<1>6. WindowHasRoom'
  BY <1>2 DEF IInv, WindowHasRoom, HasRoom, At, TakeLock
<1>7. TypeOK'
  BY <1>1, <1>2 DEF IInv, TypeOK, TakeLock, budget
<1>8. QED
  BY <1>4, <1>5, <1>6, <1>7 DEF IInv, WindowIsTail, RequestsCounted, TakeLock

LEMMA CheckWindowStep ==
    ASSUME IInv, NEW c \in Calls, CheckWindow(c)
    PROVE  IInv'
<1>1. PICK k \in 0 .. Len(window) :
          /\ IsExpired(k, window)
          /\ window' = SubSeq(window, k + 1, Len(window))
  BY DEF CheckWindow
<1>2. UNCHANGED <<tries, calls, spent, slots, lock, used, requests>>
  BY DEF CheckWindow, budget
<1>3. /\ window' \in Seq(Ages)
      /\ Len(window') <= Len(window)
      /\ WindowIsTail'
  BY <1>1, <1>2, PruneKeepsTail
<1>4. /\ pc[c] = "window" /\ pc \in [Calls -> Points]
      /\ Len(window) \in Nat /\ Len(window') \in Nat /\ Len(window) <= Rpm
      /\ Rpm \in Nat \ {0} /\ Window \in Nat
  <2>1. pc[c] = "window" /\ pc \in [Calls -> Points]
    BY DEF CheckWindow, At, IInv, TypeOK
  <2>2. Len(window') \in Nat
    BY <1>3
  <2>3. QED
    BY <2>1, <2>2, Sizes
<1>5. CASE HasRoom(window')
  <2>1. Goto(c, "quota") /\ UNCHANGED wait
    BY <1>5 DEF CheckWindow
  <2>2. pc' = [pc EXCEPT ![c] = "quota"] /\ pc' \in [Calls -> Points]
    BY <1>4, <2>1 DEF Goto, Points
  <2>3. SlotsBalance'
    BY <1>2, <1>4, <2>1, MoveKeepsSlots DEF InSlot, Points
  <2>4. LockIsHeld'
    BY <1>2, <1>4, <2>2 DEF IInv, LockIsHeld, HasLock, InLock
  <2>5. WindowHasRoom'
    BY <1>3, <1>4, <1>5 DEF WindowHasRoom, HasRoom
  <2>6. TypeOK'
    BY <1>2, <1>3, <2>1, <2>2 DEF IInv, TypeOK
  <2>7. QED
    BY <1>2, <1>3, <2>3, <2>4, <2>5, <2>6 DEF IInv, RequestsCounted
<1>6. CASE ~HasRoom(window')
  <2>1. wait' = [wait EXCEPT ![c] = Window - window'[1]] /\ UNCHANGED pc
    BY <1>6 DEF CheckWindow
  <2>2. window'[1] \in 0 .. Window
    <3>1. 1 \in 1 .. Len(window')
      BY <1>4, <1>6 DEF HasRoom
    <3>2. window'[1] \in Ages
      BY <1>3, <3>1
    <3>3. QED
      BY <3>2 DEF Ages
  <2>3. wait' \in [Calls -> Nat]
    <3> DEFINE left == Window - window'[1]
    <3>1. left \in Nat
      BY <1>4, <2>2
    <3>2. wait' = [wait EXCEPT ![c] = left] /\ wait \in [Calls -> Nat]
      BY <2>1 DEF IInv, TypeOK
    <3> HIDE DEF left
    <3>3. QED
      BY <3>1, <3>2
  <2>4. \A d \in Calls : ~At(d, "quota")
    BY <1>4, Parameters DEF IInv, LockIsHeld, HasLock, InLock, At
  <2>5. WindowHasRoom'
    BY <1>3, <1>4, <2>1, <2>4 DEF WindowHasRoom, At
  <2>6. TypeOK'
    BY <1>2, <1>3, <2>1, <2>3 DEF IInv, TypeOK
  <2>7. SlotsBalance' /\ LockIsHeld'
    BY <1>2, <2>1 DEF IInv, SlotsBalance, Holders, LockIsHeld, HasLock
  <2>8. QED
    BY <1>2, <1>3, <2>5, <2>6, <2>7 DEF IInv, RequestsCounted
<1>7. QED
  BY <1>5, <1>6

LEMMA SendRequestStep ==
    ASSUME IInv, NEW c \in Calls, SendRequest(c)
    PROVE  IInv'
<1>1. /\ pc[c] = "quota" /\ pc \in [Calls -> Points]
      /\ pc' = [pc EXCEPT ![c] = "provider"]
      /\ Goto(c, "provider") /\ pc' \in [Calls -> Points]
  BY DEF SendRequest, At, IInv, TypeOK, Goto, Points
<1>2. UNCHANGED <<tries, wait, calls, spent, slots>>
  BY DEF SendRequest, budget
<1>3. /\ window' \in Seq(Ages) /\ requests' \in Seq(Ages)
      /\ Len(window') = Len(window) + 1
      /\ Len(requests') = Len(requests) + 1
      /\ WindowIsTail'
  BY SendKeepsTail DEF SendRequest
<1>4. lock = c /\ lock' = Nobody /\ Nobody \notin Calls
  BY <1>1, Parameters
     DEF IInv, LockIsHeld, HasLock, InLock, SendRequest, Unlock, Nobody
<1>5. \A d \in Calls : pc[d] \in InLock => d = c
  BY <1>4 DEF IInv, LockIsHeld, HasLock
<1>6. \A d \in Calls : pc'[d] \notin InLock
  BY <1>1, <1>5 DEF InLock
<1>7. LockIsHeld'
  BY <1>4, <1>6 DEF LockIsHeld, HasLock
<1>8. WindowHasRoom'
  <2>1. Len(window) < Rpm /\ Len(window) \in Nat /\ Rpm \in Nat
    BY <1>1, Parameters DEF IInv, TypeOK, WindowHasRoom, HasRoom, At
  <2>2. \A d \in Calls : ~At(d, "quota")'
    BY <1>6 DEF At, InLock
  <2>3. QED
    BY <1>3, <2>1, <2>2 DEF WindowHasRoom
<1>9. SlotsBalance'
  BY <1>1, <1>2, MoveKeepsSlots DEF InSlot, Points
<1>10. used < Rpd /\ used' = used + 1 /\ used \in 0 .. Rpd /\ Rpd \in Nat
  BY Parameters DEF SendRequest, CountRequest, IInv, TypeOK
<1>11. RequestsCounted'
  <2>1. Len(requests) <= used /\ Len(requests) \in Nat
    BY DEF IInv, TypeOK, RequestsCounted
  <2>2. QED
    BY <1>3, <1>10, <2>1 DEF RequestsCounted
<1>12. TypeOK'
  BY <1>1, <1>2, <1>3, <1>4, <1>10 DEF IInv, TypeOK
<1>13. QED
  BY <1>3, <1>7, <1>8, <1>9, <1>11, <1>12 DEF IInv

LEMMA ProviderBusyStep ==
    ASSUME IInv, NEW c \in Calls, ProviderBusy(c)
    PROVE  IInv'
<1>1. Goto(c, "backoff") /\ pc[c] = "provider"
  BY DEF ProviderBusy, At
<1>2. /\ pc' \in [Calls -> Points]
      /\ LockIsHeld' /\ WindowHasRoom' /\ WindowIsTail' /\ RequestsCounted'
  BY <1>1, MoveStep DEF ProviderBusy, limiter, Points, InLock
<1>3. SlotsBalance'
  BY <1>1, MoveKeepsSlots DEF ProviderBusy, InSlot, Points
<1>4. tries' \in [Calls -> 0 .. MaxRetries]
  <2>1. tries \in [Calls -> 0 .. MaxRetries] /\ MaxRetries \in Nat
    BY Parameters DEF IInv, TypeOK
  <2>2. tries[c] # MaxRetries /\ tries' = [tries EXCEPT ![c] = tries[c] + 1]
    BY DEF ProviderBusy, Retries, LastTry
  <2>3. tries[c] + 1 \in 0 .. MaxRetries
    BY <2>1, <2>2
  <2>4. QED
    BY <2>1, <2>2, <2>3
<1>5. wait' \in [Calls -> Nat]
  <2>1. PICK error \in ProviderErrors :
            \E delay \in error.retryAfter .. MaxDelay :
                wait' = [wait EXCEPT ![c] = delay]
    BY DEF ProviderBusy
  <2>2. error.retryAfter \in 0 .. MaxDelay + 1
    BY DEF ProviderErrors
  <2>3. PICK delay \in error.retryAfter .. MaxDelay :
            wait' = [wait EXCEPT ![c] = delay]
    BY <2>1
  <2>4. delay \in Nat
    BY <2>2, <2>3, Parameters
  <2>5. QED
    BY <2>3, <2>4 DEF IInv, TypeOK
<1>6. TypeOK'
  BY <1>2, <1>4, <1>5 DEF IInv, TypeOK, ProviderBusy, budget, limiter
<1>7. QED
  BY <1>2, <1>3, <1>6 DEF IInv

LEMMA TryAgainStep ==
    ASSUME IInv, NEW c \in Calls, TryAgain(c)
    PROVE  IInv'
<1>1. Goto(c, "lock") /\ pc[c] = "backoff"
  BY DEF TryAgain, At
<1>2. /\ pc' \in [Calls -> Points]
      /\ LockIsHeld' /\ WindowHasRoom' /\ WindowIsTail' /\ RequestsCounted'
  BY <1>1, MoveStep DEF TryAgain, limiter, Points, InLock
<1>3. SlotsBalance'
  BY <1>1, MoveKeepsSlots DEF TryAgain, InSlot, Points
<1>4. TypeOK'
  BY <1>2 DEF IInv, TypeOK, TryAgain, budget, limiter
<1>5. QED
  BY <1>2, <1>3, <1>4 DEF IInv

\* The steps that end a call.
LEMMA EndStep ==
    ASSUME IInv, NEW c \in Calls,
           \/ QuotaRaises(c) \/ Answer(c) \/ UnusableAnswer(c)
           \/ ProviderFails(c) \/ Cancel(c)
    PROVE  IInv'
<1>1. wait \in [Calls -> Nat] /\ spent \in Nat /\ MaxUsage \in Nat
  BY Parameters DEF IInv, TypeOK
<1>2. CASE QuotaRaises(c)
  BY <1>1, <1>2, LeaveStep DEF QuotaRaises, budget
<1>3. CASE Answer(c) \/ UnusableAnswer(c)
  <2>1. spent' \in Nat
    BY <1>1, <1>3 DEF Answer, UnusableAnswer, Account
  <2>2. CASE Answer(c)
    BY <1>1, <2>1, <2>2, LeaveStep DEF Answer
  <2>3. CASE UnusableAnswer(c)
    BY <1>1, <2>1, <2>3, LeaveStep DEF UnusableAnswer
  <2>4. QED
    BY <1>3, <2>2, <2>3
<1>4. CASE ProviderFails(c)
  BY <1>1, <1>4, LeaveStep DEF ProviderFails, budget
<1>5. CASE Cancel(c)
  <2>1. wait' \in [Calls -> Nat]
    BY <1>1, <1>5 DEF Cancel
  <2>2. QED
    BY <1>1, <1>5, <2>1, LeaveStep DEF Cancel, budget
<1>6. QED
  BY <1>2, <1>3, <1>4, <1>5

LEMMA TickStep ==
    ASSUME IInv, Tick
    PROVE  IInv'
<1>1. /\ window \in Seq(Ages) /\ requests \in Seq(Ages)
      /\ Len(window) \in Nat /\ Len(requests) \in Nat
  BY DEF IInv, TypeOK
<1>2. window' = Older(window) /\ requests' = Older(requests)
      /\ UNCHANGED <<pc, tries, calls, spent, slots, lock, used>>
  BY DEF Tick, budget
<1>3. /\ window' \in Seq(Ages) /\ Len(window') = Len(window)
      /\ requests' \in Seq(Ages) /\ Len(requests') = Len(requests)
  BY <1>1, <1>2, OlderKeeps
<1>4. WindowIsTail'
  <2>1. /\ Len(window) <= Len(requests)
        /\ \A i \in 1 .. Len(window) :
               window[i] = requests[Len(requests) - Len(window) + i]
        /\ \A i \in 1 .. Len(requests) - Len(window) : requests[i] = Window
    BY <1>1 DEF IInv, WindowIsTail
  <2>2. \A i \in 1 .. Len(window) :
            window'[i] = IF window[i] = Window THEN Window ELSE window[i] + 1
    BY <1>1, <1>2, OlderKeeps
  <2>3. \A i \in 1 .. Len(requests) :
            requests'[i] = IF requests[i] = Window THEN Window
                           ELSE requests[i] + 1
    BY <1>1, <1>2, OlderKeeps
  <2>4. \A i \in 1 .. Len(window) :
            window'[i] = requests'[Len(requests) - Len(window) + i]
    BY <1>1, <2>1, <2>2, <2>3
  <2>5. \A i \in 1 .. Len(requests) - Len(window) : requests'[i] = Window
    BY <1>1, <2>1, <2>3
  <2>6. QED
    BY <1>1, <1>3, <2>1, <2>4, <2>5 DEF WindowIsTail
<1>5. WindowHasRoom' /\ RequestsCounted'
  BY <1>2, <1>3 DEF IInv, WindowHasRoom, HasRoom, At, RequestsCounted
<1>6. wait' \in [Calls -> Nat]
  BY DEF IInv, TypeOK, Tick
<1>7. TypeOK'
  BY <1>2, <1>3, <1>6 DEF IInv, TypeOK
<1>8. SlotsBalance' /\ LockIsHeld'
  BY <1>2 DEF IInv, SlotsBalance, Holders, LockIsHeld, HasLock
<1>9. QED
  BY <1>4, <1>5, <1>7, <1>8 DEF IInv

LEMMA StutterStep ==
    ASSUME IInv, UNCHANGED vars
    PROVE  IInv'
<1>1. UNCHANGED <<pc, tries, wait, calls, spent, slots, lock, window, used,
                  requests>>
  BY DEF vars, budget, limiter
<1>2. Holders' = Holders
  BY <1>1 DEF Holders
<1>3. QED
  BY <1>1, <1>2 DEF IInv, TypeOK, SlotsBalance, LockIsHeld, HasLock,
     WindowHasRoom, HasRoom, At, WindowIsTail, RequestsCounted

LEMMA NextInv == IInv /\ [Next]_vars => IInv'
<1> SUFFICES ASSUME IInv, [Next]_vars PROVE IInv'
  OBVIOUS
<1>1. CASE Tick
  BY <1>1, TickStep
<1>2. CASE UNCHANGED vars
  BY <1>2, StutterStep
<1>3. ASSUME NEW c \in Calls, CallStep(c) PROVE IInv'
  <2>1. CASE ReserveCall(c)
    BY <2>1, ReserveCallStep
  <2>2. CASE EnterSemaphore(c)
    BY <2>2, EnterSemaphoreStep
  <2>3. CASE TakeLock(c)
    BY <2>3, TakeLockStep
  <2>4. CASE CheckWindow(c)
    BY <2>4, CheckWindowStep
  <2>5. CASE SendRequest(c)
    BY <2>5, SendRequestStep
  <2>6. CASE ProviderBusy(c)
    BY <2>6, ProviderBusyStep
  <2>7. CASE TryAgain(c)
    BY <2>7, TryAgainStep
  <2>8. CASE \/ QuotaRaises(c) \/ Answer(c) \/ UnusableAnswer(c)
             \/ ProviderFails(c) \/ Cancel(c)
    BY <2>8, EndStep
  <2>9. CASE CacheHit(c)
    BY <2>9, CacheHitStep
  <2>10. QED
    BY <1>3, <2>1, <2>2, <2>3, <2>4, <2>5, <2>6, <2>7, <2>8, <2>9
       DEF CallStep, Proceed
<1>4. QED
  BY <1>1, <1>2, <1>3 DEF Next

\* The client's invariant: the semaphore's and the lock's books are right and
\* the limiter's window is the tail of the requests that were sent.
THEOREM Invariance == Spec => []IInv
  BY InitInv, NextInv, PTL DEF Spec

\* Every variable of the client keeps its type.
THEOREM TypeCorrect == Spec => []TypeOK
<1>1. IInv => TypeOK
  BY DEF IInv
<1>2. QED
  BY <1>1, Invariance, PTL

\* LLM_RPM is never exceeded, whatever waits, is retried or is cancelled.
THEOREM RpmCorrect == Spec => []RpmHolds
<1>1. IInv => RpmHolds
  <2> SUFFICES ASSUME IInv, NEW i \in 1 .. Len(requests) - Rpm
               PROVE  requests[i] = Window
    BY DEF RpmHolds
  <2>1. /\ Len(window) \in Nat /\ Len(requests) \in Nat /\ Rpm \in Nat
        /\ Len(window) <= Rpm
    BY Sizes
  <2>2. i \in 1 .. Len(requests) - Len(window)
    BY <2>1
  <2>3. QED
    BY <2>2 DEF IInv, WindowIsTail
<1>2. QED
  BY <1>1, Invariance, PTL

\* LLM_RPD counts every request that was sent.
THEOREM QuotaCorrect == Spec => []RequestsCounted
<1>1. IInv => RequestsCounted
  BY DEF IInv
<1>2. QED
  BY <1>1, Invariance, PTL

\* LLM_MAX_CONCURRENCY is never exceeded at the provider.
THEOREM ConcurrencyCorrect == Spec => []ConcurrencyHolds
<1>1. IInv => ConcurrencyHolds
  <2> SUFFICES ASSUME IInv PROVE ConcurrencyHolds
    OBVIOUS
  <2> DEFINE calling == {c \in Calls : At(c, "provider")}
  <2>1. calling \subseteq Holders
    BY DEF Holders, InSlot, At
  <2>2. Cardinality(calling) <= Cardinality(Holders)
        /\ Cardinality(calling) \in Nat
    BY <2>1, HoldersFinite, FS_Subset, FS_CardinalityType
  <2>3. slots \in Nat /\ slots + Cardinality(Holders) = Concurrency
    BY DEF IInv, TypeOK, SlotsBalance
  <2>4. Cardinality(calling) <= Concurrency
    <3> HIDE DEF calling
    <3>1. QED
      BY <2>2, <2>3, HoldersFinite
  <2>5. QED
    BY <2>4 DEF ConcurrencyHolds
<1>2. QED
  BY <1>1, Invariance, PTL
-----------------------------------------------------------------------------
(* The requests of the run, each with the call and the try it belongs to *)

Waiting == {"semaphore", "lock", "window", "quota", "provider", "backoff"}

\* How many requests a call that has begun has sent.
SentBy(c) == tries[c] + (IF At(c, "provider") THEN 1 ELSE 0)

\* Every request is the n-th try of a reserved call, and no two are the same.
IsRecord(reserved, sent) ==
    /\ reserved \subseteq Calls
    /\ Cardinality(reserved) = calls
    /\ sent \subseteq reserved \X (0 .. MaxRetries)
    /\ Cardinality(sent) = Len(requests)
    /\ \A c \in Calls :
        /\ At(c, "new") => c \notin reserved
        /\ pc[c] \in Waiting =>
            c \in reserved /\ \A n \in 0 .. MaxRetries :
                                  <<c, n>> \in sent => n < SentBy(c)

EveryRequestIsATry == \E reserved, sent : IsRecord(reserved, sent)

\* The record is of finite sets, whose sizes can be compared.
LEMMA RecordIsFinite ==
    ASSUME NEW reserved, NEW sent, IsRecord(reserved, sent)
    PROVE  /\ IsFiniteSet(reserved) /\ IsFiniteSet(sent)
           /\ Cardinality(reserved) \in Nat
           /\ Cardinality(sent) <= Cardinality(reserved) * (MaxRetries + 1)
<1>1. IsFiniteSet(reserved) /\ Cardinality(reserved) \in Nat
  BY Parameters, FS_Subset, FS_CardinalityType DEF IsRecord
<1>2. MaxRetries \in Nat /\ 0 \in Int /\ MaxRetries \in Int
  BY Parameters
<1>3. IsFiniteSet(0 .. MaxRetries) /\ Cardinality(0 .. MaxRetries) = MaxRetries + 1
  <2>1. /\ IsFiniteSet(0 .. MaxRetries)
        /\ Cardinality(0 .. MaxRetries) =
               IF 0 > MaxRetries THEN 0 ELSE MaxRetries - 0 + 1
    BY <1>2, FS_Interval
  <2>2. QED
    BY <1>2, <2>1
<1>4. /\ IsFiniteSet(reserved \X (0 .. MaxRetries))
      /\ Cardinality(reserved \X (0 .. MaxRetries))
             = Cardinality(reserved) * (MaxRetries + 1)
  BY <1>1, <1>3, FS_Product
<1>5. sent \in SUBSET (reserved \X (0 .. MaxRetries))
  BY DEF IsRecord
<1>6. QED
  BY <1>1, <1>4, <1>5, FS_Subset

LEMMA InitRecord == Init => EveryRequestIsATry
<1> SUFFICES ASSUME Init PROVE IsRecord({}, {})
  BY DEF EveryRequestIsATry
<1>1. Cardinality({}) = 0
  BY FS_EmptySet
<1>2. QED
  BY <1>1 DEF Init, IsRecord, At, Waiting

\* Steps that reserve and send nothing keep the record, when no call goes back
\* to the start, begins, or loses a try.
LEMMA QuietStep ==
    ASSUME EveryRequestIsATry, IInv,
           calls' = calls, Len(requests') = Len(requests),
           \A c \in Calls : At(c, "new")' => At(c, "new"),
           \A c \in Calls : pc'[c] \in Waiting =>
                                pc[c] \in Waiting /\ SentBy(c)' = SentBy(c)
    PROVE  EveryRequestIsATry'
<1>1. PICK reserved, sent : IsRecord(reserved, sent)
  BY DEF EveryRequestIsATry
<1>2. IsRecord(reserved, sent)'
  BY <1>1 DEF IsRecord
<1>3. QED
  BY <1>2 DEF EveryRequestIsATry

LEMMA ReserveRecord ==
    ASSUME EveryRequestIsATry, IInv, NEW c \in Calls, ReserveCall(c)
    PROVE  EveryRequestIsATry'
<1>1. /\ At(c, "new") /\ pc \in [Calls -> Points]
      /\ tries' = tries /\ requests' = requests
  BY DEF ReserveCall, IInv, TypeOK
<1>2. CASE ~WithinBudget
  <2>1. pc' = [pc EXCEPT ![c] = "failed"] /\ calls' = calls
    BY <1>2 DEF ReserveCall, Goto
  <2>2. \A d \in Calls : At(d, "new")' => At(d, "new")
    BY <1>1, <2>1 DEF At
  <2>3. \A d \in Calls : pc'[d] \in Waiting =>
                             pc[d] \in Waiting /\ SentBy(d)' = SentBy(d)
    BY <1>1, <2>1 DEF At, Waiting, SentBy
  <2>4. QED
    BY <1>1, <2>1, <2>2, <2>3, QuietStep
<1>3. CASE WithinBudget
  <2>1. pc' = [pc EXCEPT ![c] = "semaphore"] /\ calls' = calls + 1
    BY <1>3 DEF ReserveCall, Goto
  <2>2. PICK reserved, sent : IsRecord(reserved, sent)
    BY DEF EveryRequestIsATry
  <2>3. c \notin reserved /\ IsFiniteSet(reserved)
    BY <1>1, <2>2, RecordIsFinite DEF IsRecord
  <2>4. Cardinality(reserved \cup {c}) = calls'
    BY <2>1, <2>2, <2>3, FS_AddElement DEF IsRecord
  <2>5. sent \subseteq (reserved \cup {c}) \X (0 .. MaxRetries)
    BY <2>2 DEF IsRecord
  <2>6. \A n \in 0 .. MaxRetries : <<c, n>> \notin sent
    BY <2>2, <2>3 DEF IsRecord
  <2>7. ASSUME NEW d \in Calls
        PROVE  /\ At(d, "new")' => d \notin reserved \cup {c}
               /\ pc'[d] \in Waiting =>
                      /\ d \in reserved \cup {c}
                      /\ \A n \in 0 .. MaxRetries :
                             <<d, n>> \in sent => n < SentBy(d)'
    <3>1. CASE d = c
      BY <1>1, <2>1, <2>6, <3>1 DEF At
    <3>2. CASE d # c
      <4>1. pc'[d] = pc[d]
        BY <1>1, <2>1, <3>2
      <4>2. SentBy(d)' = SentBy(d)
        BY <1>1, <4>1 DEF SentBy, At
      <4>3. QED
        BY <2>2, <3>2, <4>1, <4>2 DEF IsRecord, At
    <3>3. QED
      BY <3>1, <3>2
  <2>8. IsRecord(reserved \cup {c}, sent)'
    BY <1>1, <2>2, <2>4, <2>5, <2>7 DEF IsRecord
  <2>9. QED
    BY <2>8 DEF EveryRequestIsATry
<1>4. QED
  BY <1>2, <1>3

LEMMA SendRecord ==
    ASSUME EveryRequestIsATry, IInv, NEW c \in Calls, SendRequest(c)
    PROVE  EveryRequestIsATry'
<1>1. /\ pc[c] = "quota" /\ pc \in [Calls -> Points]
      /\ pc' = [pc EXCEPT ![c] = "provider"]
      /\ tries' = tries /\ calls' = calls
      /\ tries \in [Calls -> 0 .. MaxRetries]
  BY DEF SendRequest, At, Goto, IInv, TypeOK, budget
<1>2. Len(requests') = Len(requests) + 1
  BY Sizes DEF SendRequest
<1>3. PICK reserved, sent : IsRecord(reserved, sent)
  BY DEF EveryRequestIsATry
<1> DEFINE try == <<c, tries[c]>>
<1>4. MaxRetries \in Nat /\ tries[c] \in 0 .. MaxRetries
  BY <1>1, Parameters
<1>5. c \in reserved /\ SentBy(c) = tries[c] /\ SentBy(c)' = tries[c] + 1
  BY <1>1, <1>3, <1>4 DEF IsRecord, At, Waiting, SentBy
<1>6. try \notin sent
  BY <1>1, <1>3, <1>4, <1>5 DEF IsRecord, Waiting
<1>7. Cardinality(sent \cup {try}) = Len(requests')
  BY <1>2, <1>3, <1>6, RecordIsFinite, FS_AddElement DEF IsRecord
<1>8. sent \cup {try} \subseteq reserved \X (0 .. MaxRetries)
  BY <1>3, <1>4, <1>5 DEF IsRecord
<1>9. ASSUME NEW d \in Calls
      PROVE  /\ At(d, "new")' => d \notin reserved
             /\ pc'[d] \in Waiting =>
                    /\ d \in reserved
                    /\ \A n \in 0 .. MaxRetries :
                           <<d, n>> \in sent \cup {try} => n < SentBy(d)'
  <2>1. CASE d = c
    <3>1. pc'[d] = "provider"
      BY <1>1, <2>1
    <3>2. ASSUME NEW n \in 0 .. MaxRetries, <<d, n>> \in sent \cup {try}
          PROVE  n < SentBy(d)'
      <4>1. CASE <<d, n>> = try
        <5>1. n = tries[c]
          BY <4>1
        <5>2. QED
          BY <5>1, <1>4, <1>5, <2>1
      <4>2. CASE <<d, n>> \in sent
        <5>1. n < tries[c]
          BY <1>1, <1>3, <1>5, <2>1, <4>2 DEF IsRecord, Waiting
        <5>2. QED
          BY <5>1, <1>4, <1>5, <2>1
      <4>3. QED
        BY <3>2, <4>1, <4>2
    <3>3. QED
      BY <1>5, <2>1, <3>1, <3>2 DEF At
  <2>2. CASE d # c
    <3>1. pc'[d] = pc[d]
      BY <1>1, <2>2
    <3>2. SentBy(d)' = SentBy(d)
      BY <1>1, <3>1 DEF SentBy, At
    <3>3. \A n : <<d, n>> # try
      BY <2>2
    <3>4. QED
      BY <1>3, <3>1, <3>2, <3>3 DEF IsRecord, At
  <2>3. QED
    BY <2>1, <2>2
<1>10. PICK after : after = sent \cup {try}
  OBVIOUS
<1> HIDE DEF try
<1>11. IsRecord(reserved, after)'
  BY <1>1, <1>3, <1>7, <1>8, <1>9, <1>10 DEF IsRecord
<1>12. QED
  BY <1>11 DEF EveryRequestIsATry

\* The other steps of a call: it moves on with as many tries as it had, its
\* failed request becomes a failed try, or it ends.
LEMMA OtherRecord ==
    ASSUME EveryRequestIsATry, IInv, NEW c \in Calls,
           \/ CacheHit(c) \/ EnterSemaphore(c) \/ TakeLock(c) \/ CheckWindow(c)
           \/ QuotaRaises(c) \/ Answer(c) \/ UnusableAnswer(c)
           \/ ProviderBusy(c) \/ ProviderFails(c) \/ TryAgain(c) \/ Cancel(c)
    PROVE  EveryRequestIsATry'
<1>1. /\ pc \in [Calls -> Points] /\ tries \in [Calls -> 0 .. MaxRetries]
      /\ MaxRetries \in Nat
  BY Parameters DEF IInv, TypeOK
<1>2. calls' = calls /\ requests' = requests
  BY DEF CacheHit, EnterSemaphore, TakeLock, CheckWindow, QuotaRaises, Answer,
         UnusableAnswer, ProviderBusy, ProviderFails, TryAgain, Cancel, budget
<1> DEFINE Moved(point) == pc' = [pc EXCEPT ![c] = point]
<1>3. \/ Moved("answered") /\ tries' = tries
      \/ Moved("failed") /\ tries' = tries
      \/ pc' = pc /\ tries' = tries
      \/ /\ pc[c] \in {"semaphore", "lock", "window", "backoff"}
         /\ Moved("lock") \/ Moved("window") \/ Moved("quota")
         /\ tries' = tries
      \/ /\ pc[c] = "provider" /\ Moved("backoff")
         /\ tries' = [tries EXCEPT ![c] = @ + 1]
  <2>1. CASE CacheHit(c) \/ Answer(c)
    BY <2>1 DEF CacheHit, Answer, Leave, Goto
  <2>2. CASE QuotaRaises(c) \/ UnusableAnswer(c) \/ ProviderFails(c) \/ Cancel(c)
    BY <2>2 DEF QuotaRaises, UnusableAnswer, ProviderFails, Cancel, Leave, Goto
  <2>3. CASE EnterSemaphore(c) \/ TakeLock(c) \/ TryAgain(c)
    BY <2>3 DEF EnterSemaphore, TakeLock, TryAgain, Goto, At
  <2>4. CASE CheckWindow(c)
    <3>1. pc[c] = "window" /\ tries' = tries /\ (pc' = pc \/ Moved("quota"))
      BY <2>4 DEF CheckWindow, At, Goto
    <3>2. QED
      BY <3>1
  <2>5. CASE ProviderBusy(c)
    BY <2>5 DEF ProviderBusy, Goto, At
  <2>6. QED
    BY <2>1, <2>2, <2>3, <2>4, <2>5
<1>4. ASSUME NEW d \in Calls
      PROVE  /\ At(d, "new")' => At(d, "new")
             /\ pc'[d] \in Waiting =>
                    pc[d] \in Waiting /\ SentBy(d)' = SentBy(d)
  <2>1. CASE d = c
    BY <1>1, <1>3, <2>1 DEF At, Waiting, SentBy
  <2>2. CASE d # c
    <3>1. pc'[d] = pc[d] /\ tries'[d] = tries[d]
      BY <1>1, <1>3, <2>2
    <3>2. QED
      BY <3>1 DEF At, SentBy
  <2>3. QED
    BY <2>1, <2>2
<1>5. QED
  BY <1>2, <1>4, QuietStep

LEMMA NextRecord ==
    EveryRequestIsATry /\ IInv /\ [Next]_vars => EveryRequestIsATry'
<1> SUFFICES ASSUME EveryRequestIsATry, IInv, [Next]_vars
             PROVE  EveryRequestIsATry'
  OBVIOUS
<1>1. CASE Tick
  <2>1. UNCHANGED <<pc, tries, calls>> /\ requests' = Older(requests)
    BY <1>1 DEF Tick, budget
  <2>2. Len(requests') = Len(requests)
    BY <2>1, Sizes, OlderKeeps
  <2>3. QED
    BY <2>1, <2>2, QuietStep DEF At, SentBy
<1>2. CASE UNCHANGED vars
  <2>1. UNCHANGED <<pc, tries, calls, requests>>
    BY <1>2 DEF vars, budget
  <2>2. QED
    BY <2>1, QuietStep DEF At, SentBy
<1>3. ASSUME NEW c \in Calls, CallStep(c) PROVE EveryRequestIsATry'
  BY <1>3, ReserveRecord, SendRecord, OtherRecord DEF CallStep, Proceed
<1>4. QED
  BY <1>1, <1>2, <1>3 DEF Next

\* No request is free: each is counted against the day, and the calls that the
\* run has paid for bound the requests, retries and all.
THEOREM RequestsCorrect == Spec => []RequestsHold
<1>1. Spec => []EveryRequestIsATry
  BY InitRecord, NextRecord, Invariance, PTL DEF Spec
<1>2. IInv /\ EveryRequestIsATry => RequestsHold
  <2> SUFFICES ASSUME IInv, EveryRequestIsATry PROVE RequestsHold
    OBVIOUS
  <2>1. PICK reserved, sent : IsRecord(reserved, sent)
    BY DEF EveryRequestIsATry
  <2>2. Cardinality(sent) <= Cardinality(reserved) * (MaxRetries + 1)
    BY <2>1, RecordIsFinite
  <2>3. Cardinality(reserved) = calls /\ Cardinality(sent) = Len(requests)
    BY <2>1 DEF IsRecord
  <2>4. RequestsBounded
    BY <2>2, <2>3 DEF RequestsBounded
  <2>5. QED
    BY <2>4 DEF IInv, RequestsHold
<1>3. QED
  BY <1>1, <1>2, Invariance, PTL
=============================================================================
