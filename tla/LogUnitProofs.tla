---------------------------- MODULE LogUnitProofs ----------------------------
(***************************************************************************)
(* Lemmas about LogUnit for the proofs of the handlers that extend it: the *)
(* states of a unit are its own, and a context works in a state of the     *)
(* unit it is in; and, where no context shares a unit with another, it     *)
(* works in the state the unit keeps, which is registered to be flushed.   *)
(* Each is kept by the steps of LogUnit, and by the moves of a handler.    *)
(***************************************************************************)
EXTENDS LogUnit, TLAPS

\* Where a context is not in the code of a handler.
Outside == {"idle", "create", "register", "ending"}

\* The unit a state is kept in.
HomeOf(s) == IF s = Instance THEN NoUnit ELSE s[1]

\* The variables are of their types; P are the phases of a handler.
UnitTyped(P) == UnitTypeOK /\ pc \in [Contexts -> P] /\ todo \in [Contexts -> P]

\* The states a unit keeps, and those it flushes as it ends, are its own.
StatesAreOwn ==
    /\ \A u \in Units : kept[u] # Instance => kept[u][1] = u
    /\ \A u \in Units : \A s \in Range(callbacks[u]) : s[1] = u

\* What a context holds in each phase.
PhasesAt(x) ==
    /\ pc[x] \in {"create", "register"} => current[x] \in Units /\ todo[x] \notin Outside
    /\ pc[x] = "register" => mine[x] = <<current[x], x>>
    /\ pc[x] \notin Outside => HomeOf(mine[x]) = current[x]
    /\ pc[x] \in {"idle", "create", "register"} => slot[x] = 0
    /\ pc[x] = "ending" => slot[x] > 0
    /\ slot[x] = 0 => next[x] = NoUnit /\ ~failed[x]

UnitInv(P) == UnitTyped(P) /\ StatesAreOwn /\ \A x \in Contexts : PhasesAt(x)

\* The first member of a pair that is a state of a unit is the unit.
LEMMA StateIsPair ==
    /\ \A u \in Units, x \in Contexts : <<u, x>> \in UnitStates /\ <<u, x>>[1] = u
    /\ \A s \in States : s = Instance \/ s \in UnitStates
    /\ \A s \in UnitStates : s # Instance /\ s[1] \in Units /\ HomeOf(s) = s[1]
  BY UnitAssumption DEF States, UnitStates, HomeOf

\* The members of a sequence, and one more.
LEMMA CallbackAdded ==
    ASSUME NEW T, NEW s \in Seq(T), NEW e \in T
    PROVE  /\ Append(s, e) \in Seq(T)
           /\ \A c \in Range(Append(s, e)) : c = e \/ c \in Range(s)
           /\ \A c \in Range(s) : c \in Range(Append(s, e))
           /\ e \in Range(Append(s, e))
           /\ Len(Append(s, e)) = Len(s) + 1 /\ Len(s) \in Nat
           /\ \A i \in 1 .. Len(s) : Append(s, e)[i] = s[i]
<1>1. /\ Append(s, e) \in Seq(T) /\ Len(Append(s, e)) = Len(s) + 1 /\ Len(s) \in Nat
      /\ \A i \in 1 .. Len(s) : Append(s, e)[i] = s[i]
      /\ Append(s, e)[Len(s) + 1] = e
    OBVIOUS
<1>2. DOMAIN Append(s, e) = 1 .. Len(s) + 1 /\ DOMAIN s = 1 .. Len(s)
    OBVIOUS
<1>3. \A c \in Range(Append(s, e)) : c = e \/ c \in Range(s)
    BY <1>1, <1>2 DEF Range
<1>4. \A c \in Range(s) : c \in Range(Append(s, e))
    BY <1>1, <1>2 DEF Range
<1>5. e \in Range(Append(s, e))
    BY <1>1, <1>2 DEF Range
<1>. QED
    BY <1>1, <1>3, <1>4, <1>5

\* A member of a sequence.
LEMMA MemberAt ==
    ASSUME NEW T, NEW s \in Seq(T), NEW i \in 1 .. Len(s)
    PROVE  s[i] \in T /\ s[i] \in Range(s)
  BY DEF Range

-----------------------------------------------------------------------------
(* The steps of a unit *)

\* UnitInit establishes the invariant.
LEMMA UnitInvInit == \A P : UnitInit /\ "idle" \in P => UnitInv(P)
<1>. SUFFICES ASSUME NEW P, UnitInit, "idle" \in P PROVE UnitInv(P)
    OBVIOUS
<1>1. UnitTyped(P)
    <2>1. UnitTypeOK
        BY UnitAssumption DEF UnitInit, UnitTypeOK, States
    <2>2. pc \in [Contexts -> P] /\ todo \in [Contexts -> P]
        BY DEF UnitInit
    <2>. QED
        BY <2>1, <2>2 DEF UnitTyped
<1>2. StatesAreOwn
    BY DEF UnitInit, StatesAreOwn, Range
<1>3. \A x \in Contexts : PhasesAt(x)
    BY DEF UnitInit, PhasesAt, Outside
<1>. QED
    BY <1>1, <1>2, <1>3 DEF UnitInv

\* A context that is left alone holds what it held.
LEMMA LeftAlone ==
    ASSUME NEW x \in Contexts, PhasesAt(x),
           pc'[x] = pc[x], todo'[x] = todo[x], mine'[x] = mine[x], current'[x] = current[x],
           slot'[x] = slot[x], next'[x] = next[x], failed'[x] = failed[x]
    PROVE  PhasesAt(x)'
  BY DEF PhasesAt, HomeOf

\* A context that creates a state.
LEMMA CreateKeeps ==
    ASSUME NEW P, {"idle", "register"} \subseteq P, UnitInv(P),
           NEW x \in Contexts, CreateState(x) \/ CreateUnheard(x)
    PROVE  UnitInv(P)'
<1>. DEFINE s == <<current[x], x>>
<1>1. s \in UnitStates /\ s \in States /\ s[1] = current[x] /\ current[x] \in Units
      /\ s # Instance /\ HomeOf(s) = current[x]
    BY StateIsPair DEF UnitInv, PhasesAt, CreateState, CreateUnheard, Create, States
<1>2. /\ pc[x] = "create"
      /\ kept' = [kept EXCEPT ![current[x]] = s] /\ mine' = [mine EXCEPT ![x] = s]
      /\ UNCHANGED <<setup, current, opened, callbacks, slot, next, failed>>
    BY <1>1 DEF CreateState, CreateUnheard, Create
<1>3. \/ pc' = [pc EXCEPT ![x] = "register"] /\ todo' = todo
      \/ pc' = [pc EXCEPT ![x] = todo[x]] /\ todo' = [todo EXCEPT ![x] = "idle"]
    BY DEF CreateState, CreateUnheard, GoTo
<1>. HIDE DEF s
<1>5. UnitTyped(P)'
    <2>1. UnitTypeOK'
        BY <1>1, <1>2 DEF UnitInv, UnitTyped, UnitTypeOK
    <2>2. pc' \in [Contexts -> P] /\ todo' \in [Contexts -> P]
        BY <1>3 DEF UnitInv, UnitTyped
    <2>. QED
        BY <2>1, <2>2 DEF UnitTyped
<1>6. StatesAreOwn'
    BY <1>1, <1>2 DEF UnitInv, UnitTyped, UnitTypeOK, StatesAreOwn
<1>7. ASSUME NEW y \in Contexts, y # x PROVE PhasesAt(y)'
    BY <1>2, <1>3, <1>7, LeftAlone DEF UnitInv, UnitTyped, UnitTypeOK
<1>8. PhasesAt(x)'
    <2>1. /\ mine'[x] = s /\ current'[x] = current[x] /\ slot'[x] = 0
          /\ next'[x] = next[x] /\ failed'[x] = failed[x]
          /\ pc'[x] = "register" \/ pc'[x] = todo[x]
          /\ pc'[x] = "register" => todo'[x] = todo[x]
          /\ todo[x] \notin Outside
        BY <1>2, <1>3 DEF UnitInv, UnitTyped, UnitTypeOK, PhasesAt, Outside
    <2>2. HomeOf(mine[x])' = current'[x] /\ mine'[x] = <<current'[x], x>>
        BY <1>1, <2>1 DEF HomeOf, s
    <2>. QED
        BY <1>1, <1>2, <2>1, <2>2 DEF UnitInv, PhasesAt, Outside
<1>. QED
    BY <1>5, <1>6, <1>7, <1>8 DEF UnitInv

\* A context that registers its state.
LEMMA RegisterKeeps ==
    ASSUME NEW P, {"idle"} \subseteq P, UnitInv(P), NEW x \in Contexts, RegisterState(x)
    PROVE  UnitInv(P)'
<1>1. /\ mine[x] = <<current[x], x>> /\ mine[x] \in UnitStates /\ current[x] \in Units
      /\ mine[x][1] = current[x] /\ HomeOf(mine[x]) = current[x]
    <2>1. mine[x] = <<current[x], x>> /\ current[x] \in Units
        BY DEF UnitInv, PhasesAt, RegisterState
    <2>2. <<current[x], x>> \in UnitStates /\ <<current[x], x>>[1] = current[x]
        BY <2>1, StateIsPair
    <2>. QED
        BY <2>1, <2>2, StateIsPair
<1>2. /\ pc[x] = "register"
      /\ callbacks' = [callbacks EXCEPT ![current[x]] = Append(@, mine[x])]
      /\ pc' = [pc EXCEPT ![x] = todo[x]] /\ todo' = [todo EXCEPT ![x] = "idle"]
      /\ UNCHANGED <<setup, current, opened, kept, slot, next, failed, mine>>
    BY <1>1 DEF RegisterState, Register, GoTo
<1>3. ASSUME NEW u \in Units
      PROVE  /\ callbacks'[u] \in Seq(UnitStates)
             /\ \A s \in Range(callbacks'[u]) : s[1] = u
    <2>1. callbacks[u] \in Seq(UnitStates) /\ \A s \in Range(callbacks[u]) : s[1] = u
        BY DEF UnitInv, UnitTyped, UnitTypeOK, StatesAreOwn
    <2>2. CASE u = current[x]
        <3>1. callbacks'[u] = Append(callbacks[u], mine[x])
            BY <1>2, <2>2 DEF UnitInv, UnitTyped, UnitTypeOK
        <3>. QED
            BY <1>1, <2>1, <2>2, <3>1, CallbackAdded
    <2>3. CASE u # current[x]
        BY <1>1, <1>2, <2>1, <2>3 DEF UnitInv, UnitTyped, UnitTypeOK
    <2>. QED
        BY <2>2, <2>3
<1>4. UnitTyped(P)'
    <2>1. callbacks' \in [Units -> Seq(UnitStates)]
        BY <1>1, <1>2, <1>3 DEF UnitInv, UnitTyped, UnitTypeOK
    <2>. QED
        BY <1>2, <2>1 DEF UnitInv, UnitTyped, UnitTypeOK
<1>5. StatesAreOwn'
    BY <1>2, <1>3 DEF UnitInv, StatesAreOwn
<1>6. ASSUME NEW y \in Contexts, y # x PROVE PhasesAt(y)'
    BY <1>2, <1>6, LeftAlone DEF UnitInv, UnitTyped, UnitTypeOK
<1>7. PhasesAt(x)'
    <2>1. /\ mine'[x] = mine[x] /\ current'[x] = current[x] /\ slot'[x] = slot[x]
          /\ next'[x] = next[x] /\ failed'[x] = failed[x]
          /\ pc'[x] = todo[x] /\ todo[x] \notin Outside /\ slot[x] = 0
        BY <1>2 DEF UnitInv, UnitTyped, UnitTypeOK, PhasesAt
    <2>2. HomeOf(mine[x])' = current'[x]
        BY <1>1, <2>1 DEF HomeOf
    <2>. QED
        BY <1>1, <1>2, <2>1, <2>2 DEF UnitInv, PhasesAt, Outside
<1>. QED
    BY <1>4, <1>5, <1>6, <1>7 DEF UnitInv

\* A context that goes on to the next callback of the unit it ends.
LEMMA CallbackKeeps ==
    ASSUME NEW P, {"flush"} \subseteq P, UnitInv(P), NEW x \in Contexts, NextCallback(x)
    PROVE  /\ UnitInv(P)'
           /\ current[x] \in Units /\ slot[x] \in 1 .. Len(callbacks[current[x]])
           /\ mine'[x] = callbacks[current[x]][slot[x]]
           /\ mine'[x] \in UnitStates /\ mine'[x] \in Range(callbacks[current[x]])
<1>. DEFINE u == current[x]
            s == callbacks[u][slot[x]]
<1>1. u \in Units /\ slot[x] \in 1 .. Len(callbacks[u]) /\ callbacks[u] \in Seq(UnitStates)
    <2>1. slot[x] > 0 /\ slot[x] \in Nat /\ u # NoUnit /\ slot[x] <= Len(callbacks[u])
        BY DEF NextCallback, CallbacksLeft, UnitInv, UnitTyped, UnitTypeOK, PhasesAt
    <2>2. u \in Units /\ callbacks[u] \in Seq(UnitStates)
        BY <2>1 DEF UnitInv, UnitTyped, UnitTypeOK
    <2>. QED
        BY <2>1, <2>2
<1>2. s \in UnitStates /\ s \in Range(callbacks[u])
    BY <1>1, MemberAt
<1>3. s[1] = u /\ HomeOf(s) = u /\ s \in States
    BY <1>1, <1>2, StateIsPair DEF UnitInv, StatesAreOwn, States
<1>4. /\ pc[x] = "ending" /\ pc' = [pc EXCEPT ![x] = "flush"]
      /\ mine' = [mine EXCEPT ![x] = s] /\ slot' = [slot EXCEPT ![x] = slot[x] + 1]
      /\ UNCHANGED <<setup, current, opened, kept, callbacks, next, failed, todo>>
    BY DEF NextCallback, GoTo, UnitInv, UnitTyped, UnitTypeOK
<1>. HIDE DEF s
<1>5. UnitTyped(P)'
    BY <1>1, <1>3, <1>4 DEF UnitInv, UnitTyped, UnitTypeOK
<1>6. StatesAreOwn'
    BY <1>4 DEF UnitInv, StatesAreOwn
<1>7. ASSUME NEW y \in Contexts, y # x PROVE PhasesAt(y)'
    BY <1>4, <1>7, LeftAlone DEF UnitInv, UnitTyped, UnitTypeOK
<1>8. PhasesAt(x)'
    <2>1. /\ mine'[x] = s /\ current'[x] = u /\ slot'[x] = slot[x] + 1 /\ slot[x] \in Nat
          /\ pc'[x] = "flush"
        BY <1>4 DEF UnitInv, UnitTyped, UnitTypeOK
    <2>2. HomeOf(mine[x])' = current'[x]
        BY <1>3, <2>1 DEF HomeOf
    <2>. QED
        BY <2>1, <2>2 DEF PhasesAt, Outside
<1>9. mine'[x] = s
    BY <1>4 DEF UnitInv, UnitTyped, UnitTypeOK
<1>. QED
    BY <1>1, <1>2, <1>5, <1>6, <1>7, <1>8, <1>9 DEF UnitInv, s

\* A context that leaves its unit.
LEMMA LeaveKeeps ==
    ASSUME NEW P, {"idle"} \subseteq P, UnitInv(P), NEW x \in Contexts, LeaveUnit(x)
    PROVE  UnitInv(P)'
<1>1. /\ pc[x] = "ending" /\ pc' = [pc EXCEPT ![x] = "idle"]
      /\ current' = [current EXCEPT ![x] = IF failed[x] THEN NoUnit ELSE next[x]]
      /\ slot' = [slot EXCEPT ![x] = 0] /\ next' = [next EXCEPT ![x] = NoUnit]
      /\ failed' = [failed EXCEPT ![x] = FALSE]
      /\ UNCHANGED <<setup, opened, kept, callbacks, todo, mine>>
    BY DEF LeaveUnit, GoTo
<1>2. UnitTyped(P)'
    BY <1>1 DEF UnitInv, UnitTyped, UnitTypeOK
<1>3. StatesAreOwn'
    BY <1>1 DEF UnitInv, StatesAreOwn
<1>4. ASSUME NEW y \in Contexts, y # x PROVE PhasesAt(y)'
    BY <1>1, <1>4, LeftAlone DEF UnitInv, UnitTyped, UnitTypeOK
<1>5. PhasesAt(x)'
    BY <1>1 DEF UnitInv, UnitTyped, UnitTypeOK, PhasesAt, Outside
<1>. QED
    BY <1>2, <1>3, <1>4, <1>5 DEF UnitInv

\* A context that begins to end its unit, or is copied.
LEMMA CallKeeps ==
    ASSUME NEW P, {"ending"} \subseteq P, UnitInv(P), NEW x \in Contexts, UnitCall(x)
    PROVE  UnitInv(P)'
<1>1. ASSUME NEW u \in Units \cup {NoUnit}, BeginEnding(x, u) PROVE UnitInv(P)'
    <2>1. /\ pc[x] = "idle" /\ pc' = [pc EXCEPT ![x] = "ending"]
          /\ opened' = opened \cup ({u} \ {NoUnit})
          /\ next' = [next EXCEPT ![x] = u] /\ slot' = [slot EXCEPT ![x] = 1]
          /\ UNCHANGED <<setup, current, kept, callbacks, failed, todo, mine>>
        BY <1>1 DEF BeginEnding, GoTo
    <2>2. UnitTyped(P)'
        BY <2>1 DEF UnitInv, UnitTyped, UnitTypeOK
    <2>3. StatesAreOwn'
        BY <2>1 DEF UnitInv, StatesAreOwn
    <2>4. ASSUME NEW y \in Contexts, y # x PROVE PhasesAt(y)'
        BY <2>1, <2>4, LeftAlone DEF UnitInv, UnitTyped, UnitTypeOK
    <2>5. PhasesAt(x)'
        BY <2>1 DEF UnitInv, UnitTyped, UnitTypeOK, PhasesAt, Outside
    <2>. QED
        BY <2>2, <2>3, <2>4, <2>5 DEF UnitInv
<1>2. ASSUME NEW z \in Contexts, CopyContext(x, z) PROVE UnitInv(P)'
    <2>1. /\ pc[z] = "idle" /\ current' = [current EXCEPT ![z] = current[x]]
          /\ UNCHANGED <<setup, opened, kept, callbacks, slot, next, failed, pc, todo, mine>>
        BY <1>2 DEF CopyContext, flowVars
    <2>2. UnitTyped(P)'
        BY <2>1 DEF UnitInv, UnitTyped, UnitTypeOK
    <2>3. StatesAreOwn'
        BY <2>1 DEF UnitInv, StatesAreOwn
    <2>4. ASSUME NEW y \in Contexts, y # z PROVE PhasesAt(y)'
        BY <2>1, <2>4, LeftAlone DEF UnitInv, UnitTyped, UnitTypeOK
    <2>5. PhasesAt(z)'
        BY <2>1 DEF UnitInv, UnitTyped, UnitTypeOK, PhasesAt, Outside
    <2>. QED
        BY <2>2, <2>3, <2>4, <2>5 DEF UnitInv
<1>. QED
    BY <1>1, <1>2 DEF UnitCall

\* What a handler does to the variables of the unit: it looks its state up, goes
\* on, or returns, and what the wrapped handler raised is kept by end_unit().
HandlerMoves(P, x) ==
    /\ UNCHANGED <<setup, current, opened, kept, callbacks, slot, next>>
    /\ \/ failed' = failed
       \/ \E b \in BOOLEAN : (b => slot[x] > 0) /\ failed' = [failed EXCEPT ![x] = b]
    /\ \/ /\ \/ pc[x] = "idle" /\ (setup.sharing \/ current[x] # NoUnit)
             \/ pc[x] \notin Outside
          /\ slot[x] = 0
          /\ \E there \in P \ Outside : LookupThen(x, there)
       \/ /\ pc[x] \notin Outside
          /\ UNCHANGED todo
          /\ Return(x) \/ (UNCHANGED mine /\ \E there \in P \ Outside : GoTo(x, there))

\* A context that looks its state up.
LEMMA LookupKeeps ==
    ASSUME NEW P, {"create"} \subseteq P, UnitInv(P),
           NEW x \in Contexts, pc[x] = "idle" \/ pc[x] \notin Outside, slot[x] = 0,
           \E there \in P \ Outside : LookupThen(x, there),
           UNCHANGED <<setup, current, opened, kept, callbacks, slot, next>>,
           failed' \in [Contexts -> BOOLEAN], ~failed'[x],
           \A y \in Contexts : y # x => failed'[y] = failed[y]
    PROVE  UnitInv(P)'
<1>. DEFINE u == current[x]
<1>1. /\ UNCHANGED <<setup, current, opened, kept, callbacks, slot, next>>
      /\ failed' \in [Contexts -> BOOLEAN] /\ (slot[x] = 0 => ~failed'[x])
      /\ \A y \in Contexts : y # x => failed'[y] = failed[y]
      /\ slot[x] = 0 /\ (pc[x] = "idle" \/ pc[x] \notin Outside)
    OBVIOUS
<1>2. u \in Units \cup {NoUnit} /\ (u # NoUnit => kept[u] \in States)
    BY DEF UnitInv, UnitTyped, UnitTypeOK
<1>3. (u = NoUnit \/ kept[u] # Instance) =>
          HomeOf(IF u = NoUnit THEN Instance ELSE kept[u]) = u
    BY <1>2, StateIsPair DEF UnitInv, StatesAreOwn, HomeOf
<1>4. PICK there \in P \ Outside : LookupThen(x, there)
    OBVIOUS
<1>5. \/ /\ u # NoUnit /\ kept[u] = Instance
         /\ pc' = [pc EXCEPT ![x] = "create"] /\ todo' = [todo EXCEPT ![x] = there]
         /\ mine' = mine
      \/ /\ u = NoUnit \/ kept[u] # Instance
         /\ pc' = [pc EXCEPT ![x] = there] /\ todo' = todo
         /\ mine' = [mine EXCEPT ![x] = IF u = NoUnit THEN Instance ELSE kept[u]]
    BY <1>4 DEF LookupThen, GoTo
<1>6. UnitTyped(P)'
    <2>1. (u = NoUnit \/ kept[u] # Instance) =>
              (IF u = NoUnit THEN Instance ELSE kept[u]) \in States
        BY <1>2 DEF States
    <2>2. mine' \in [Contexts -> States] /\ pc' \in [Contexts -> P] /\ todo' \in [Contexts -> P]
        <3>. DEFINE found == IF u = NoUnit THEN Instance ELSE kept[u]
        <3>. HIDE DEF found
        <3>1. mine' = mine \/ (found \in States /\ mine' = [mine EXCEPT ![x] = found])
            BY <1>5, <2>1 DEF found
        <3>2. pc' \in [Contexts -> P] /\ todo' \in [Contexts -> P]
            BY <1>5 DEF UnitInv, UnitTyped
        <3>. QED
            BY <3>1, <3>2 DEF UnitInv, UnitTyped, UnitTypeOK
    <2>. QED
        BY <1>1, <2>2 DEF UnitInv, UnitTyped, UnitTypeOK
<1>7. PhasesAt(x)'
    <2>1. CASE u # NoUnit /\ kept[u] = Instance
        BY <1>1, <1>2, <1>5, <2>1 DEF UnitInv, UnitTyped, UnitTypeOK, PhasesAt, Outside
    <2>2. CASE u = NoUnit \/ kept[u] # Instance
        <3>1. pc'[x] = there /\ mine'[x] = (IF u = NoUnit THEN Instance ELSE kept[u])
            BY <1>5, <2>2 DEF UnitInv, UnitTyped, UnitTypeOK
        <3>2. HomeOf(mine[x])' = current'[x]
            BY <1>1, <1>3, <2>2, <3>1 DEF HomeOf
        <3>. QED
            BY <1>1, <3>1, <3>2 DEF PhasesAt, Outside, UnitInv
    <2>. QED
        BY <2>1, <2>2
<1>8. ASSUME NEW y \in Contexts, y # x PROVE PhasesAt(y)'
    BY <1>1, <1>5, <1>8, LeftAlone DEF UnitInv, UnitTyped, UnitTypeOK
<1>. QED
    BY <1>1, <1>6, <1>7, <1>8 DEF UnitInv, StatesAreOwn

\* A context in the code of a handler.
LEMMA MoveKeeps ==
    ASSUME NEW P, {"idle", "create", "ending"} \subseteq P, UnitInv(P),
           NEW x \in Contexts, HandlerMoves(P, x)
    PROVE  UnitInv(P)'
<1>1. /\ UNCHANGED <<setup, current, opened, kept, callbacks, slot, next>>
      /\ failed' \in [Contexts -> BOOLEAN] /\ (slot[x] = 0 => ~failed'[x])
      /\ \A y \in Contexts : y # x => failed'[y] = failed[y]
    <2>1. /\ UNCHANGED <<setup, current, opened, kept, callbacks, slot, next>>
          /\ \/ failed' = failed
             \/ \E b \in BOOLEAN : (b => slot[x] > 0) /\ failed' = [failed EXCEPT ![x] = b]
        BY DEF HandlerMoves
    <2>2. failed \in [Contexts -> BOOLEAN] /\ slot[x] \in Nat /\ (slot[x] = 0 => ~failed[x])
        BY DEF UnitInv, UnitTyped, UnitTypeOK, PhasesAt
    <2>. QED
        BY <2>1, <2>2
<1>2. CASE /\ pc[x] = "idle" \/ pc[x] \notin Outside
           /\ slot[x] = 0
           /\ \E there \in P \ Outside : LookupThen(x, there)
    BY <1>1, <1>2, LookupKeeps
<1>3. CASE /\ pc[x] \notin Outside
           /\ UNCHANGED todo
           /\ Return(x)
    <2>1. /\ pc' = [pc EXCEPT ![x] = IF slot[x] = 0 THEN "idle" ELSE "ending"]
          /\ mine' = [mine EXCEPT ![x] = Instance] /\ todo' = todo
        BY <1>3 DEF Return, GoTo
    <2>2. UnitTyped(P)'
        BY <1>1, <2>1 DEF UnitInv, UnitTyped, UnitTypeOK, States
    <2>3. PhasesAt(x)'
        BY <1>1, <2>1 DEF UnitInv, UnitTyped, UnitTypeOK, PhasesAt, Outside
    <2>4. ASSUME NEW y \in Contexts, y # x PROVE PhasesAt(y)'
        BY <1>1, <2>1, <2>4, LeftAlone DEF UnitInv, UnitTyped, UnitTypeOK
    <2>. QED
        BY <1>1, <2>2, <2>3, <2>4 DEF UnitInv, StatesAreOwn
<1>4. CASE /\ pc[x] \notin Outside
           /\ UNCHANGED <<todo, mine>>
           /\ \E there \in P \ Outside : GoTo(x, there)
    <2>1. PICK there \in P \ Outside : pc' = [pc EXCEPT ![x] = there]
        BY <1>4 DEF GoTo
    <2>2. UnitTyped(P)'
        BY <1>1, <1>4, <2>1 DEF UnitInv, UnitTyped, UnitTypeOK
    <2>3. PhasesAt(x)'
        <3>1. pc'[x] = there /\ mine'[x] = mine[x] /\ HomeOf(mine[x]) = current[x]
            BY <1>4, <2>1 DEF UnitInv, UnitTyped, UnitTypeOK, PhasesAt
        <3>2. HomeOf(mine[x])' = current'[x]
            BY <1>1, <1>4, <3>1 DEF HomeOf
        <3>. QED
            BY <1>1, <1>4, <3>1, <3>2 DEF UnitInv, PhasesAt, Outside
    <2>4. ASSUME NEW y \in Contexts, y # x PROVE PhasesAt(y)'
        BY <1>1, <1>4, <2>1, <2>4, LeftAlone DEF UnitInv, UnitTyped, UnitTypeOK
    <2>. QED
        BY <1>1, <2>2, <2>3, <2>4 DEF UnitInv, StatesAreOwn
<1>. QED
    BY <1>2, <1>3, <1>4 DEF HandlerMoves

-----------------------------------------------------------------------------
(* Where no context shares a unit *)

\* What one context holds: no other is in its unit, nor in the one it opens,
\* and it works in the state its unit keeps.
SoloAt(x) ==
    /\ {current[x], next[x]} \subseteq opened \cup {NoUnit}
    /\ current[x] # NoUnit => \A y \in Contexts : current[y] = current[x] => y = x
    /\ next[x] # NoUnit =>
           \A y \in Contexts : current[y] # next[x] /\ (next[y] = next[x] => y = x)
    /\ pc[x] = "create" => kept[current[x]] = Instance
    /\ pc[x] = "register" => mine[x] = kept[current[x]]
    /\ pc[x] \notin Outside =>
           /\ current[x] \in Units /\ mine[x] = kept[current[x]] /\ mine[x] # Instance

\* A unit flushes no state but the one it keeps.
OneState(u) ==
    /\ callbacks[u] \in {<<>>, <<kept[u]>>}
    /\ callbacks[u] = <<>> <=>
           \/ kept[u] = Instance
           \/ \E x \in Contexts : pc[x] = "register" /\ current[x] = u

Alone == ~setup.sharing =>
    (\A x \in Contexts : SoloAt(x)) /\ (\A u \in Units : OneState(u))

\* UnitInit establishes it.
LEMMA AloneInit == UnitInit => Alone
  BY UnitAssumption DEF UnitInit, Alone, SoloAt, OneState, Outside

\* A context that creates a state is the only one that can.
LEMMA AloneCreate ==
    ASSUME NEW P, UnitInv(P), Alone, NEW x \in Contexts, CreateState(x) PROVE Alone'
<1>. DEFINE u == current[x]
            s == <<u, x>>
<1>. SUFFICES ASSUME ~setup.sharing
              PROVE  (\A y \in Contexts : SoloAt(y)') /\ (\A v \in Units : OneState(v)')
    BY DEF Alone, CreateState, Create
<1>1. u \in Units /\ s \in UnitStates /\ s # Instance /\ s[1] = u
    BY StateIsPair DEF UnitInv, PhasesAt, CreateState, Create
<1>2. /\ pc[x] = "create"
      /\ kept' = [kept EXCEPT ![u] = s] /\ mine' = [mine EXCEPT ![x] = s]
      /\ pc' = [pc EXCEPT ![x] = "register"]
      /\ UNCHANGED <<setup, current, opened, callbacks, slot, next, failed>>
    BY <1>1 DEF CreateState, Create, GoTo
<1>3. \A y \in Contexts : y # x => current[y] # u
    BY <1>1, UnitAssumption DEF Alone, SoloAt
<1>. HIDE DEF s
<1>4. ASSUME NEW y \in Contexts PROVE SoloAt(y)'
    <2>1. SoloAt(y)
        BY DEF Alone
    <2>2. CASE y = x
        BY <1>1, <1>2, <2>1, <2>2 DEF UnitInv, UnitTyped, UnitTypeOK, SoloAt, Outside
    <2>3. CASE y # x
        BY <1>1, <1>2, <1>3, <2>1, <2>3 DEF UnitInv, UnitTyped, UnitTypeOK, SoloAt, Outside
    <2>. QED
        BY <2>2, <2>3
<1>5. ASSUME NEW v \in Units PROVE OneState(v)'
    <2>1. OneState(v)
        BY DEF Alone
    <2>2. CASE v = u
        <3>1. kept[u] = Instance
            BY <1>2 DEF Alone, SoloAt
        <3>2. callbacks'[u] = <<>>
            BY <1>1, <1>2, <2>1, <2>2, <3>1 DEF OneState
        <3>3. pc'[x] = "register" /\ current'[x] = u
            BY <1>2 DEF UnitInv, UnitTyped
        <3>. QED
            BY <2>2, <3>2, <3>3 DEF OneState
    <2>3. CASE v # u
        <3>1. kept'[v] = kept[v] /\ callbacks'[v] = callbacks[v]
            BY <1>2, <2>3 DEF UnitInv, UnitTyped, UnitTypeOK
        <3>2. \A y \in Contexts : current[y] = v => pc'[y] = pc[y]
            BY <1>2, <2>3 DEF UnitInv, UnitTyped
        <3>. QED
            BY <1>2, <2>1, <3>1, <3>2 DEF OneState
    <2>. QED
        BY <2>2, <2>3
<1>. QED
    BY <1>4, <1>5

\* A context that registers its state is the first to.
LEMMA AloneRegister ==
    ASSUME NEW P, UnitInv(P), Alone, NEW x \in Contexts, RegisterState(x) PROVE Alone'
<1>. DEFINE u == current[x]
<1>. SUFFICES ASSUME ~setup.sharing
              PROVE  (\A y \in Contexts : SoloAt(y)') /\ (\A v \in Units : OneState(v)')
    BY DEF Alone, RegisterState
<1>1. /\ pc[x] = "register" /\ u \in Units /\ mine[x] = <<u, x>> /\ mine[x] = kept[u]
      /\ todo[x] \notin Outside
    BY DEF UnitInv, PhasesAt, RegisterState, Alone, SoloAt
<1>2. mine[x] # Instance /\ mine[x][1] = u
    <2>1. <<u, x>> # Instance /\ <<u, x>>[1] = u
        BY <1>1, StateIsPair
    <2>. QED
        BY <1>1, <2>1
<1>3. /\ callbacks' = [callbacks EXCEPT ![u] = Append(@, mine[x])]
      /\ pc' = [pc EXCEPT ![x] = todo[x]]
      /\ UNCHANGED <<setup, current, opened, kept, slot, next, failed, mine>>
    BY <1>2 DEF RegisterState, Register, GoTo
<1>4. \A y \in Contexts : y # x => current[y] # u
    BY <1>1, UnitAssumption DEF Alone, SoloAt
<1>5. ASSUME NEW y \in Contexts PROVE SoloAt(y)'
    <2>1. SoloAt(y)
        BY DEF Alone
    <2>2. CASE y = x
        BY <1>1, <1>2, <1>3, <2>1, <2>2 DEF UnitInv, UnitTyped, UnitTypeOK, SoloAt, Outside
    <2>3. CASE y # x
        BY <1>1, <1>3, <2>1, <2>3 DEF UnitInv, UnitTyped, UnitTypeOK, SoloAt, Outside
    <2>. QED
        BY <2>2, <2>3
<1>6. ASSUME NEW v \in Units PROVE OneState(v)'
    <2>1. OneState(v)
        BY DEF Alone
    <2>2. CASE v = u
        <3>1. callbacks[u] = <<>>
            BY <1>1, <2>1, <2>2 DEF OneState
        <3>2. callbacks'[u] = <<mine[x]>>
            <4>1. callbacks'[u] = Append(callbacks[u], mine[x])
                BY <1>1, <1>3 DEF UnitInv, UnitTyped, UnitTypeOK
            <4>. QED
                BY <3>1, <4>1
        <3>3. \A y \in Contexts : current'[y] = u => pc'[y] # "register"
            BY <1>1, <1>3, <1>4 DEF UnitInv, UnitTyped, Outside
        <3>4. kept'[u] = mine[x] /\ <<mine[x]>> # <<>>
            BY <1>1, <1>3
        <3>. QED
            BY <1>2, <2>2, <3>2, <3>3, <3>4 DEF OneState
    <2>3. CASE v # u
        <3>1. kept'[v] = kept[v] /\ callbacks'[v] = callbacks[v]
            BY <1>1, <1>3, <2>3 DEF UnitInv, UnitTyped, UnitTypeOK
        <3>2. \A y \in Contexts : current[y] = v => pc'[y] = pc[y]
            BY <1>3, <2>3 DEF UnitInv, UnitTyped
        <3>. QED
            BY <1>3, <2>1, <3>1, <3>2 DEF OneState
    <2>. QED
        BY <2>2, <2>3
<1>. QED
    BY <1>5, <1>6

\* A context that goes on to a callback has the state its unit keeps.
LEMMA AloneCallback ==
    ASSUME NEW P, {"flush"} \subseteq P, UnitInv(P), Alone, NEW x \in Contexts, NextCallback(x)
    PROVE  /\ Alone'
           /\ ~setup.sharing => mine'[x] = kept[current[x]] /\ slot[x] = 1
<1>1. /\ pc[x] = "ending" /\ pc' = [pc EXCEPT ![x] = "flush"]
      /\ \A y \in Contexts : y # x => mine'[y] = mine[y]
      /\ UNCHANGED <<setup, current, opened, kept, callbacks, next>>
    BY DEF NextCallback, GoTo, UnitInv, UnitTyped, UnitTypeOK
<1>2. /\ current[x] \in Units /\ slot[x] \in 1 .. Len(callbacks[current[x]])
      /\ mine'[x] = callbacks[current[x]][slot[x]] /\ mine'[x] # Instance
    BY CallbackKeeps, UnitAssumption
<1>. SUFFICES ASSUME ~setup.sharing
              PROVE  /\ \A y \in Contexts : SoloAt(y)'
                     /\ \A u \in Units : OneState(u)'
                     /\ mine'[x] = kept[current[x]] /\ slot[x] = 1
    BY <1>1 DEF Alone
<1>3. mine'[x] = kept[current[x]] /\ slot[x] = 1
    <2>1. callbacks[current[x]] = <<kept[current[x]]>>
        BY <1>2 DEF Alone, OneState
    <2>. QED
        BY <1>2, <2>1
<1>4. ASSUME NEW y \in Contexts PROVE SoloAt(y)'
    BY <1>1, <1>2, <1>3 DEF UnitInv, UnitTyped, UnitTypeOK, Alone, SoloAt, Outside
<1>5. ASSUME NEW u \in Units PROVE OneState(u)'
    <2>1. \A y \in Contexts : pc'[y] = "register" <=> pc[y] = "register"
        BY <1>1 DEF UnitInv, UnitTyped
    <2>. QED
        BY <1>1, <2>1 DEF Alone, OneState
<1>. QED
    BY <1>3, <1>4, <1>5

\* A unit that is left is left to nobody.
LEMMA AloneLeave ==
    ASSUME NEW P, UnitInv(P), Alone, NEW x \in Contexts, LeaveUnit(x) PROVE Alone'
<1>. SUFFICES ASSUME ~setup.sharing
              PROVE  (\A y \in Contexts : SoloAt(y)') /\ (\A u \in Units : OneState(u)')
    BY DEF Alone, LeaveUnit
<1>1. /\ pc[x] = "ending" /\ pc' = [pc EXCEPT ![x] = "idle"]
      /\ current' = [current EXCEPT ![x] = IF failed[x] THEN NoUnit ELSE next[x]]
      /\ next' = [next EXCEPT ![x] = NoUnit]
      /\ UNCHANGED <<setup, opened, kept, callbacks, todo, mine>>
    BY DEF LeaveUnit, GoTo
<1>2. ASSUME NEW y \in Contexts PROVE SoloAt(y)'
    <2>1. SoloAt(x) /\ SoloAt(y)
        BY DEF Alone
    <2>2. current'[x] \in {NoUnit, next[x]} /\ next'[x] = NoUnit
        BY <1>1 DEF UnitInv, UnitTyped, UnitTypeOK
    <2>3. \A z \in Contexts : z # x =>
              current'[z] = current[z] /\ next'[z] = next[z] /\ pc'[z] = pc[z] /\ mine'[z] = mine[z]
        BY <1>1 DEF UnitInv, UnitTyped, UnitTypeOK
    <2>4. CASE y = x
        BY <1>1, <2>1, <2>2, <2>3, <2>4 DEF UnitInv, UnitTyped, SoloAt, Outside
    <2>5. CASE y # x
        BY <1>1, <2>1, <2>2, <2>3, <2>5 DEF UnitInv, UnitTyped, SoloAt, Outside
    <2>. QED
        BY <2>4, <2>5
<1>3. ASSUME NEW u \in Units PROVE OneState(u)'
    <2>1. \A y \in Contexts : pc'[y] = "register" <=> pc[y] = "register"
        BY <1>1 DEF UnitInv, UnitTyped
    <2>2. \A y \in Contexts : pc[y] = "register" => current'[y] = current[y]
        BY <1>1 DEF UnitInv, UnitTyped, UnitTypeOK
    <2>. QED
        BY <1>1, <2>1, <2>2 DEF Alone, OneState
<1>. QED
    BY <1>2, <1>3

\* A unit that is opened is new.
LEMMA AloneCall ==
    ASSUME NEW P, UnitInv(P), Alone, NEW x \in Contexts, UnitCall(x) PROVE Alone'
<1>. SUFFICES ASSUME ~setup'.sharing
              PROVE  (\A y \in Contexts : SoloAt(y)') /\ (\A u \in Units : OneState(u)')
    BY DEF Alone
<1>1. PICK v \in Units \cup {NoUnit} : BeginEnding(x, v)
    BY DEF UnitCall, CopyContext
<1>2. /\ pc[x] = "idle" /\ pc' = [pc EXCEPT ![x] = "ending"]
      /\ v = NoUnit \/ v \notin opened
      /\ opened' = opened \cup ({v} \ {NoUnit})
      /\ next' = [next EXCEPT ![x] = v]
      /\ UNCHANGED <<setup, current, kept, callbacks, failed, todo, mine>>
    BY <1>1 DEF BeginEnding, GoTo
<1>3. ASSUME NEW y \in Contexts PROVE SoloAt(y)'
    <2>1. \A z \in Contexts : SoloAt(z)
        BY <1>2 DEF Alone
    <2>2. next'[x] = v /\ (\A z \in Contexts : z # x => next'[z] = next[z] /\ pc'[z] = pc[z])
        BY <1>2 DEF UnitInv, UnitTyped, UnitTypeOK
    <2>3. \A z \in Contexts : v # NoUnit => current[z] # v /\ next[z] # v
        BY <1>2, <2>1 DEF SoloAt
    <2>4. CASE y = x
        BY <1>2, <2>1, <2>2, <2>3, <2>4 DEF UnitInv, UnitTyped, SoloAt, Outside
    <2>5. CASE y # x
        BY <1>2, <2>1, <2>2, <2>3, <2>5 DEF UnitInv, UnitTyped, SoloAt, Outside
    <2>. QED
        BY <2>4, <2>5
<1>4. ASSUME NEW u \in Units PROVE OneState(u)'
    <2>1. \A y \in Contexts : pc'[y] = "register" <=> pc[y] = "register"
        BY <1>2 DEF UnitInv, UnitTyped
    <2>. QED
        BY <1>2, <2>1 DEF Alone, OneState
<1>. QED
    BY <1>3, <1>4

\* A context in the code of a handler stays in its state.
LEMMA AloneMoves ==
    ASSUME NEW P, UnitInv(P), Alone, NEW x \in Contexts, HandlerMoves(P, x) PROVE Alone'
<1>1. /\ UNCHANGED <<setup, current, opened, kept, callbacks, next>>
      /\ (pc[x] = "idle" /\ (setup.sharing \/ current[x] # NoUnit)) \/ pc[x] \notin Outside
    BY DEF HandlerMoves
<1>. SUFFICES ASSUME ~setup.sharing
              PROVE  (\A y \in Contexts : SoloAt(y)') /\ (\A u \in Units : OneState(u)')
    BY <1>1 DEF Alone
<1>2. \A y \in Contexts : SoloAt(y)
    BY DEF Alone
<1>3. \A y \in Contexts : y # x => pc'[y] = pc[y] /\ mine'[y] = mine[y]
    BY DEF HandlerMoves, LookupThen, Return, GoTo, UnitInv, UnitTyped, UnitTypeOK
<1>4. /\ pc'[x] # "register"
      /\ pc'[x] = "create" => kept[current[x]] = Instance
      /\ pc'[x] \notin Outside =>
             current[x] \in Units /\ mine'[x] = kept[current[x]] /\ mine'[x] # Instance
    <2>0. SoloAt(x) /\ current[x] \in Units \cup {NoUnit}
        BY <1>2 DEF UnitInv, UnitTyped, UnitTypeOK
    <2>1. CASE \E there \in P \ Outside : LookupThen(x, there)
        <3>1. current[x] \in Units
            BY <1>1, <2>0 DEF SoloAt
        <3>. QED
            BY <2>1, <3>1, UnitAssumption DEF LookupThen, GoTo, UnitInv, UnitTyped, UnitTypeOK, Outside
    <2>2. CASE Return(x)
        BY <2>2 DEF Return, GoTo, UnitInv, UnitTyped, UnitTypeOK, Outside
    <2>3. CASE pc[x] \notin Outside /\ UNCHANGED mine /\ \E there \in P \ Outside : GoTo(x, there)
        BY <2>0, <2>3 DEF GoTo, UnitInv, UnitTyped, UnitTypeOK, SoloAt, Outside
    <2>. QED
        BY <2>1, <2>2, <2>3 DEF HandlerMoves
<1>5. ASSUME NEW y \in Contexts PROVE SoloAt(y)'
    <2>1. CASE y = x
        BY <1>1, <1>2, <1>4, <2>1 DEF SoloAt
    <2>2. CASE y # x
        BY <1>1, <1>2, <1>3, <2>2 DEF SoloAt
    <2>. QED
        BY <2>1, <2>2
<1>6. ASSUME NEW u \in Units PROVE OneState(u)'
    <2>1. \A y \in Contexts : pc'[y] = "register" <=> pc[y] = "register"
        BY <1>1, <1>3, <1>4 DEF Outside
    <2>. QED
        BY <1>1, <2>1 DEF Alone, OneState
<1>. QED
    BY <1>5, <1>6
=============================================================================
