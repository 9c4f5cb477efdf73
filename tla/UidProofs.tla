------------------------------ MODULE UidProofs ------------------------------
(***************************************************************************)
(* UidProcessor, proved for any contexts, units and setups: its types, and *)
(* that an id ties together the records of one unit between two calls of   *)
(* reset(), and no others, wherever one box was made for the unit.         *)
(***************************************************************************)
EXTENDS UidProcessor, LogUnitProofs, FiniteSetTheorems

-----------------------------------------------------------------------------
(* The invariants *)

\* The phases of LogUnit and those of the processor.
UidPhases == {"idle", "create", "register", "ending", "stamp", "mint"}

Stamps == [home : Homes, era : Nat, id : 1 .. minted]

Typed ==
    /\ TypeOK /\ UnitInv(UidPhases)
    /\ minted \in Nat /\ era \in [Homes -> Nat] /\ stamped \subseteq Stamps

\* The states that hold a box.
Boxes == {s \in States : uid[s] # 0}

\* A box is found where it was made, and no two hold the same id.  A context on
\* its way to make one has made none in its unit, for it would have found it.
Boxed ==
    /\ IsFiniteSet(Boxes) /\ Instance \in Boxes
    /\ \A s, t \in Boxes : uid[s] = uid[t] => s = t
    /\ \A s \in Boxes \ {Instance} : kept[s[1]] # Instance
    /\ \A u \in Units : kept[u] \in Boxes
    /\ \A x \in Contexts :
           /\ mine[x] \in Boxes
           /\ pc[x] = "create" => <<current[x], x>> \notin Boxes

\* A record carries the id of a box if and only if it was stamped from that box
\* and the box has not been given another since.
Tied ==
    /\ \A p \in stamped :
           p.era <= era[p.home] /\ \E s \in Boxes : HomeOf(s) = p.home
    /\ \A p \in stamped, s \in Boxes :
           OneBox(p.home) /\ OneBox(HomeOf(s)) =>
               (p.id = uid[s] <=> p.home = HomeOf(s) /\ p.era = era[p.home])
    /\ TiedTogether

UidInv == Typed /\ Boxed /\ Tied

-----------------------------------------------------------------------------
(* Boxes *)

\* The boxes of one home.
BoxesOf(h) == {s \in UnitStates : s[1] = h /\ uid[s] # 0}

\* Where there is one box, there is no other.
OneEach == \A s, t \in Boxes : HomeOf(s) = HomeOf(t) /\ OneBox(HomeOf(s)) => s = t

\* Two members make two.
LEMMA OnlyBox == IsFiniteSet(Boxes) => OneEach
<1>. SUFFICES ASSUME IsFiniteSet(Boxes), NEW s \in Boxes, NEW t \in Boxes,
                     HomeOf(s) = HomeOf(t), OneBox(HomeOf(s)), s # t
              PROVE  FALSE
    BY DEF OneEach
<1>1. s \in States /\ t \in States /\ uid[s] # 0 /\ uid[t] # 0
    BY DEF Boxes
<1>2. s # Instance /\ t # Instance
    BY <1>1, StateIsPair, UnitAssumption DEF HomeOf
<1>. DEFINE all == BoxesOf(HomeOf(s))
<1>3. s \in all /\ t \in all
    BY <1>1, <1>2, StateIsPair DEF BoxesOf, HomeOf
<1>4. IsFiniteSet(all)
    <2>1. all \subseteq Boxes
        BY DEF BoxesOf, Boxes, States
    <2>. QED
        BY <2>1, FS_Subset
<1>5. Cardinality(all) <= 1
    BY DEF OneBox, BoxesOf
<1>. HIDE DEF all
<1>6. Cardinality({s, t}) = 2
    <2>1. IsFiniteSet({s}) /\ Cardinality({s}) = 1
        BY FS_Singleton
    <2>2. Cardinality({s} \cup {t}) = 1 + 1
        BY <2>1, FS_AddElement
    <2>3. {s} \cup {t} = {s, t}
        OBVIOUS
    <2>. QED
        BY <2>2, <2>3
<1>7. Cardinality({s, t}) <= Cardinality(all)
    <2>1. {s, t} \subseteq all
        BY <1>3
    <2>. QED
        BY <1>4, <2>1, FS_Subset
<1>8. Cardinality(all) \in Nat
    BY <1>4, FS_CardinalityType
<1>. QED
    BY <1>5, <1>6, <1>7, <1>8

\* Boxes are not taken away: where there is one after a step, there was one.
LEMMA FewerBoxes ==
    ASSUME IsFiniteSet(Boxes'), Boxes \subseteq Boxes', NEW h, OneBox(h)'
    PROVE  OneBox(h)
<1>. DEFINE old == BoxesOf(h)
            new == BoxesOf(h)'
<1>1. old \subseteq new /\ new \subseteq Boxes'
    BY DEF BoxesOf, Boxes, States
<1>2. Cardinality(new) <= 1
    BY DEF OneBox, BoxesOf
<1>3. Cardinality(old) = Cardinality({s \in UnitStates : s[1] = h /\ uid[s] # 0})
    BY DEF BoxesOf
<1>. HIDE DEF old, new
<1>4. IsFiniteSet(new)
    BY <1>1, FS_Subset
<1>5. IsFiniteSet(old) /\ Cardinality(old) <= Cardinality(new)
    BY <1>1, <1>4, FS_Subset
<1>6. Cardinality(old) \in Nat /\ Cardinality(new) \in Nat
    BY <1>4, <1>5, FS_CardinalityType
<1>7. Cardinality(old) <= 1
    BY <1>2, <1>5, <1>6
<1>. QED
    BY <1>3, <1>7 DEF OneBox

-----------------------------------------------------------------------------
(* What the steps do, without their detail *)

\* The box of s is given a new id.
Minted(s) == minted' = minted + 1 /\ uid' = [uid EXCEPT ![s] = minted + 1]

\* A call finds its box, or is to make one.
Looked(x) ==
    /\ pc[x] = "idle" /\ kept' = kept /\ current' = current /\ UNCHANGED uidVars
    /\ \/ /\ current[x] \in Units /\ kept[current[x]] = Instance
          /\ pc' = [pc EXCEPT ![x] = "create"] /\ mine' = mine
       \/ /\ \E there \in {"stamp", "mint"} : pc' = [pc EXCEPT ![x] = there]
          /\ \E s \in {Instance} \cup {kept[u] : u \in Units} : mine' = [mine EXCEPT ![x] = s]

\* A box is made.
Made(x) ==
    LET s == <<current[x], x>>
    IN  /\ pc[x] = "create" /\ current[x] \in Units /\ s \in UnitStates /\ s[1] = current[x]
        /\ s # Instance /\ HomeOf(s) = current[x]
        /\ kept' = [kept EXCEPT ![current[x]] = s] /\ mine' = [mine EXCEPT ![x] = s]
        /\ Minted(s) /\ UNCHANGED <<current, era, stamped>>
        /\ \A y \in Contexts : pc'[y] = "create" => y # x /\ pc[y] = "create"

\* A record is stamped from the box.
Stamped(x) ==
    /\ current[x] \in Homes /\ mine[x] \in States /\ HomeOf(mine[x]) = current[x]
    /\ stamped' = stamped \cup
           {[home |-> current[x], era |-> era[current[x]], id |-> uid[mine[x]]]}
    /\ \E there \in {"idle", "ending"} : pc' = [pc EXCEPT ![x] = there]
    /\ mine' = [mine EXCEPT ![x] = Instance]
    /\ UNCHANGED <<current, kept, uid, minted, era>>

\* The id of the box is replaced.
Replaced(x) ==
    /\ current[x] \in Homes /\ mine[x] \in States /\ HomeOf(mine[x]) = current[x]
    /\ Minted(mine[x])
    /\ era' = [era EXCEPT ![current[x]] = era[current[x]] + 1]
    /\ \E there \in {"idle", "ending"} : pc' = [pc EXCEPT ![x] = there]
    /\ mine' = [mine EXCEPT ![x] = Instance]
    /\ UNCHANGED <<current, kept, stamped>>

\* A context begins or ends a unit, or is copied.
Edged ==
    /\ UNCHANGED uidVars /\ kept' = kept
    /\ \A y \in Contexts : mine'[y] = mine[y]
    /\ \A y \in Contexts : pc'[y] = "create" => pc[y] = "create" /\ current'[y] = current[y]

Effect(x) == Looked(x) \/ Made(x) \/ Stamped(x) \/ Replaced(x) \/ Edged

\* What a context in the code of the processor holds.
LEMMA AtWork ==
    ASSUME Typed, NEW x \in Contexts
    PROVE  /\ pc[x] = "create" => current[x] \in Units
           /\ pc[x] \in {"stamp", "mint"} => HomeOf(mine[x]) = current[x]
           /\ current[x] \in Homes /\ mine[x] \in States
  BY DEF Typed, TypeOK, UnitTypeOK, UnitInv, PhasesAt, Outside, Homes

\* Each step is one of these.
LEMMA StepsDo ==
    ASSUME Typed, [Next]_vars PROVE Edged \/ \E x \in Contexts : Effect(x)
<1>0. /\ pc \in [Contexts -> {"idle", "create", "ending", "stamp", "mint"}]
      /\ mine \in [Contexts -> States] /\ current \in [Contexts -> Units \cup {NoUnit}]
      /\ slot \in [Contexts -> Nat] /\ kept \in [Units -> States]
    BY DEF Typed, TypeOK, UnitTypeOK
<1>1. ASSUME NEW x \in Contexts, BeginCall(x) PROVE Looked(x)
    <2>1. /\ pc[x] = "idle" /\ kept' = kept /\ current' = current /\ UNCHANGED uidVars
          /\ \E there \in {"stamp", "mint"} : LookupThen(x, there)
        BY <1>1 DEF BeginCall, unitVars
    <2>2. PICK there \in {"stamp", "mint"} : LookupThen(x, there)
        BY <2>1
    <2>3. CASE current[x] # NoUnit /\ kept[current[x]] = Instance
        BY <1>0, <2>1, <2>2, <2>3 DEF LookupThen, GoTo, Looked
    <2>4. CASE ~(current[x] # NoUnit /\ kept[current[x]] = Instance)
        <3>. DEFINE s == IF current[x] = NoUnit THEN Instance ELSE kept[current[x]]
        <3>1. /\ pc' = [pc EXCEPT ![x] = there]
              /\ mine' = [mine EXCEPT ![x] = s]
            BY <2>2, <2>4 DEF LookupThen, GoTo
        <3>2. s \in {Instance} \cup {kept[u] : u \in Units}
            BY <1>0
        <3>. HIDE DEF s
        <3>. QED
            BY <2>1, <3>1, <3>2 DEF Looked
    <2>. QED
        BY <2>3, <2>4
<1>2. ASSUME NEW x \in Contexts, CreateBox(x) PROVE Made(x)
    <2>1. pc[x] = "create" /\ current[x] \in Units
        BY <1>2, AtWork DEF CreateBox, CreateUnheard, Create
    <2>2. /\ <<current[x], x>> \in UnitStates /\ <<current[x], x>>[1] = current[x]
          /\ <<current[x], x>> # Instance /\ HomeOf(<<current[x], x>>) = current[x]
        BY <2>1, StateIsPair
    <2>3. pc' = [pc EXCEPT ![x] = todo[x]] /\ todo[x] # "create"
        BY <1>2 DEF CreateBox, CreateUnheard, GoTo, Typed, TypeOK
    <2>4. /\ kept' = [kept EXCEPT ![current[x]] = <<current[x], x>>]
          /\ mine' = [mine EXCEPT ![x] = <<current[x], x>>]
          /\ Minted(<<current[x], x>>) /\ UNCHANGED <<current, era, stamped>>
        BY <1>2, <2>2 DEF CreateBox, CreateUnheard, Create, Mint, Minted
    <2>. QED
        BY <1>0, <2>1, <2>2, <2>3, <2>4 DEF Made
<1>3. ASSUME NEW x \in Contexts, Stamp(x) \/ Reset(x)
      PROVE  \E there \in {"idle", "ending"} : pc' = [pc EXCEPT ![x] = there]
    BY <1>3 DEF Stamp, Reset, Return, GoTo
<1>4. ASSUME NEW x \in Contexts, Stamp(x) PROVE Stamped(x)
    BY <1>0, <1>3, <1>4, AtWork DEF Stamp, Return, GoTo, Stamped, unitVars, Typed
<1>5. ASSUME NEW x \in Contexts, Reset(x) PROVE Replaced(x)
    BY <1>0, <1>3, <1>5, AtWork DEF Reset, Return, GoTo, Replaced, unitVars, Typed, Mint, Minted, Box
<1>6. ASSUME NEW x \in Contexts, UnitEdge(x) PROVE Edged
    <2>1. CASE LeaveUnit(x)
        BY <1>0, <1>6, <2>1 DEF UnitEdge, LeaveUnit, GoTo, Edged
    <2>2. CASE \E u \in Units \cup {NoUnit} : BeginEnding(x, u)
        BY <1>0, <1>6, <2>2 DEF UnitEdge, BeginEnding, GoTo, Edged
    <2>3. CASE \E y \in Contexts : CopyContext(x, y)
        BY <1>0, <1>6, <2>3 DEF UnitEdge, CopyContext, flowVars, Edged
    <2>. QED
        BY <1>6, <2>1, <2>2, <2>3 DEF UnitEdge, UnitCall
<1>7. CASE UNCHANGED vars
    BY <1>7 DEF vars, unitVars, flowVars, Edged
<1>. QED
    BY <1>1, <1>2, <1>4, <1>5, <1>6, <1>7 DEF Next, Effect

-----------------------------------------------------------------------------
(* Types *)

\* The variables are of their types at first.
LEMMA TypedInit == Init => Typed
<1>. SUFFICES ASSUME Init PROVE Typed
    OBVIOUS
<1>1. UnitInv(UidPhases)
    BY UnitInvInit DEF Init, UidPhases
<1>2. TypeOK
    BY <1>1 DEF Init, UnitInit, TypeOK, UnitInv, UnitTyped
<1>3. minted \in Nat /\ era \in [Homes -> Nat] /\ stamped \subseteq Stamps
    BY DEF Init
<1>. QED
    BY <1>1, <1>2, <1>3 DEF Typed

\* What is minted and stamped is of its type after each step.
LEMMA StampsTyped ==
    ASSUME Typed, NEW x \in Contexts, Effect(x), Boxed
    PROVE  /\ minted' \in Nat /\ era' \in [Homes -> Nat] /\ stamped' \subseteq Stamps'
           /\ uid' \in [States -> 0 .. minted'] /\ minted <= minted'
<1>0. /\ uid \in [States -> 0 .. minted] /\ minted \in Nat /\ era \in [Homes -> Nat]
      /\ stamped \subseteq Stamps
    BY DEF Typed, TypeOK
<1>1. Looked(x) \/ Edged =>
          /\ minted' \in Nat /\ era' \in [Homes -> Nat] /\ stamped' \subseteq Stamps'
          /\ uid' \in [States -> 0 .. minted'] /\ minted <= minted'
    BY <1>0 DEF Looked, Edged, uidVars, Stamps
<1>2. ASSUME NEW s \in States, Minted(s)
      PROVE  /\ minted' \in Nat /\ uid' \in [States -> 0 .. minted'] /\ minted <= minted'
             /\ Stamps \subseteq Stamps'
    BY <1>0, <1>2 DEF Minted, Stamps
<1>3. CASE Made(x)
    BY <1>0, <1>2, <1>3 DEF Made, States
<1>4. CASE Replaced(x)
    BY <1>0, <1>2, <1>4 DEF Replaced
<1>5. CASE Stamped(x)
    <2>1. uid[mine[x]] \in 1 .. minted
        <3>1. mine[x] \in Boxes
            BY DEF Boxed
        <3>. QED
            BY <1>0, <3>1 DEF Boxes
    <2>2. [home |-> current[x], era |-> era[current[x]], id |-> uid[mine[x]]] \in Stamps
        BY <1>0, <1>5, <2>1 DEF Stamped, Stamps
    <2>3. Stamps' = Stamps
        BY <1>5 DEF Stamped, Stamps
    <2>. QED
        BY <1>0, <1>5, <2>2, <2>3 DEF Stamped
<1>. QED
    BY <1>1, <1>3, <1>4, <1>5 DEF Effect

\* Every step keeps the types.
LEMMA TypedNext == Typed /\ Boxed /\ [Next]_vars => Typed'
<1>. SUFFICES ASSUME Typed, Boxed, [Next]_vars PROVE Typed'
    OBVIOUS
<1>. DEFINE Narrow == /\ pc \in [Contexts -> {"idle", "create", "ending", "stamp", "mint"}]
                      /\ todo \in [Contexts -> {"idle", "stamp", "mint"}]
<1>0. /\ UnitInv(UidPhases) /\ {"idle", "create", "register", "ending"} \subseteq UidPhases
      /\ {"stamp", "mint"} \subseteq UidPhases \ Outside /\ Narrow
      /\ failed \in [Contexts -> BOOLEAN] /\ slot \in [Contexts -> Nat]
    BY DEF Typed, TypeOK, UidPhases, Outside, UnitTypeOK
<1>1. ASSUME NEW x \in Contexts, BeginCall(x) PROVE UnitInv(UidPhases)' /\ Narrow'
    <2>1. /\ pc[x] = "idle" /\ UNCHANGED unitVars /\ slot[x] = 0 /\ ~failed[x]
          /\ \E there \in {"stamp", "mint"} : LookupThen(x, there)
        BY <1>0, <1>1 DEF BeginCall, UnitInv, PhasesAt
    <2>2. UnitInv(UidPhases)'
        BY <1>0, <2>1, LookupKeeps DEF unitVars
    <2>3. Narrow'
        BY <1>0, <2>1 DEF LookupThen, GoTo
    <2>. QED
        BY <2>2, <2>3
<1>2. ASSUME NEW x \in Contexts, CreateBox(x) PROVE UnitInv(UidPhases)' /\ Narrow'
    <2>1. CreateUnheard(x)
        BY <1>2 DEF CreateBox
    <2>2. UnitInv(UidPhases)'
        BY <1>0, <2>1, CreateKeeps
    <2>3. Narrow'
        BY <1>0, <2>1 DEF CreateUnheard, GoTo
    <2>. QED
        BY <2>2, <2>3
<1>3. ASSUME NEW x \in Contexts, Stamp(x) \/ Reset(x) PROVE UnitInv(UidPhases)' /\ Narrow'
    <2>1. pc[x] \notin Outside /\ UNCHANGED <<unitVars, todo>> /\ Return(x)
        BY <1>3 DEF Stamp, Reset, Outside
    <2>2. UnitInv(UidPhases)'
        <3>1. HandlerMoves(UidPhases, x)
            BY <2>1 DEF HandlerMoves, unitVars
        <3>. QED
            BY <1>0, <3>1, MoveKeeps
    <2>3. Narrow'
        BY <1>0, <2>1 DEF Return, GoTo
    <2>. QED
        BY <2>2, <2>3
<1>4. ASSUME NEW x \in Contexts, UnitEdge(x) PROVE UnitInv(UidPhases)' /\ Narrow'
    <2>1. UnitCall(x) \/ LeaveUnit(x)
        BY <1>4 DEF UnitEdge
    <2>2. UnitInv(UidPhases)'
        BY <1>0, <2>1, CallKeeps, LeaveKeeps
    <2>3. Narrow'
        BY <1>0, <2>1 DEF UnitCall, LeaveUnit, BeginEnding, CopyContext, GoTo, flowVars
    <2>. QED
        BY <2>2, <2>3
<1>5. ASSUME UNCHANGED vars PROVE UnitInv(UidPhases)' /\ Narrow'
    BY <1>0, <1>5 DEF vars, unitVars, flowVars, UnitInv, UnitTyped, UnitTypeOK, StatesAreOwn,
        PhasesAt, HomeOf
<1>6. UnitInv(UidPhases)' /\ Narrow'
    BY <1>1, <1>2, <1>3, <1>4, <1>5 DEF Next
<1>. HIDE DEF Narrow
<1>7. /\ minted' \in Nat /\ era' \in [Homes -> Nat] /\ stamped' \subseteq Stamps'
      /\ uid' \in [States -> 0 .. minted']
    <2>1. CASE \E x \in Contexts : Effect(x)
        BY <2>1, StampsTyped
    <2>2. CASE Edged
        BY <2>2 DEF Edged, uidVars, Typed, TypeOK, Stamps
    <2>. QED
        BY <2>1, <2>2, StepsDo
<1>. QED
    BY <1>6, <1>7 DEF Typed, TypeOK, UnitInv, UnitTyped, Narrow

-----------------------------------------------------------------------------
(* Boxes, after each step *)

\* At first there is the box of the instance.
LEMMA BoxedInit == Init => Boxed
<1>. SUFFICES ASSUME Init PROVE Boxed
    OBVIOUS
<1>1. Boxes = {Instance}
    BY DEF Init, Boxes, States
<1>2. IsFiniteSet(Boxes)
    BY <1>1, FS_Singleton
<1>. QED
    BY <1>1, <1>2 DEF Init, UnitInit, Boxed

\* The box that is given a new id has one that no other has.
LEMMA NewId ==
    ASSUME Typed, Boxed, NEW s \in States, Minted(s)
    PROVE  /\ Boxes' = Boxes \cup {s} /\ IsFiniteSet(Boxes')
           /\ uid'[s] = minted + 1 /\ \A t \in States : uid[t] < minted + 1
           /\ \A t \in States \ {s} : uid'[t] = uid[t]
           /\ \A t, v \in Boxes' : uid'[t] = uid'[v] => t = v
<1>1. /\ uid \in [States -> 0 .. minted] /\ minted \in Nat
      /\ uid' = [uid EXCEPT ![s] = minted + 1]
    BY DEF Typed, TypeOK, Minted
<1>2. /\ uid'[s] = minted + 1 /\ \A t \in States : uid[t] < minted + 1
      /\ \A t \in States \ {s} : uid'[t] = uid[t]
    BY <1>1
<1>3. Boxes' = Boxes \cup {s}
    BY <1>1, <1>2 DEF Boxes
<1>4. IsFiniteSet(Boxes')
    BY <1>3, FS_AddElement DEF Boxed
<1>5. ASSUME NEW t \in Boxes', NEW v \in Boxes', uid'[t] = uid'[v] PROVE t = v
    <2>1. t \in States /\ v \in States
        BY DEF Boxes
    <2>2. t # s /\ v # s => t \in Boxes /\ v \in Boxes
        BY <1>3
    <2>. QED
        BY <1>1, <1>2, <1>5, <2>1, <2>2 DEF Boxed
<1>. QED
    BY <1>2, <1>3, <1>4, <1>5

\* Every step keeps it.
LEMMA BoxedNext == Typed /\ Boxed /\ [Next]_vars => Boxed'
<1>. SUFFICES ASSUME Typed, Boxed, [Next]_vars PROVE Boxed'
    OBVIOUS
<1>0. /\ mine \in [Contexts -> States] /\ kept \in [Units -> States]
      /\ \A y \in Contexts : mine[y] \in Boxes
      /\ \A u \in Units : kept[u] \in Boxes
      /\ IsFiniteSet(Boxes) /\ Instance \in Boxes
      /\ \A s, t \in Boxes : uid[s] = uid[t] => s = t
      /\ \A s \in Boxes \ {Instance} : kept[s[1]] # Instance
      /\ \A y \in Contexts : pc[y] = "create" => <<current[y], y>> \notin Boxes
      /\ pc \in [Contexts -> {"idle", "create", "ending", "stamp", "mint"}]
    BY DEF Typed, TypeOK, UnitTypeOK, Boxed
\* A step that makes no box, and leaves the ids different.
<1>1. ASSUME Boxes' = Boxes, kept' = kept,
             \A s, t \in Boxes : uid'[s] = uid'[t] => s = t,
             \A y \in Contexts :
                 /\ mine'[y] \in Boxes
                 /\ pc'[y] = "create" => <<current'[y], y>> \notin Boxes
      PROVE  Boxed'
    BY <1>0, <1>1 DEF Boxed
<1>2. ASSUME NEW x \in Contexts, Looked(x) PROVE Boxed'
    <2>1. Boxes' = Boxes /\ kept' = kept /\ current' = current /\ uid' = uid
        BY <1>2 DEF Looked, uidVars, Boxes
    <2>2. ASSUME NEW y \in Contexts PROVE mine'[y] \in Boxes
        BY <1>0, <1>2 DEF Looked
    <2>3. ASSUME NEW y \in Contexts, pc'[y] = "create" PROVE <<current'[y], y>> \notin Boxes
        <3>1. CASE pc[y] = "create"
            BY <1>0, <2>1, <3>1
        <3>2. CASE pc[y] # "create"
            <4>1. y = x /\ current[x] \in Units /\ kept[current[x]] = Instance
                BY <1>0, <1>2, <2>3, <3>2 DEF Looked
            <4>2. <<current[x], x>> # Instance /\ <<current[x], x>>[1] = current[x]
                BY <4>1, StateIsPair
            <4>. QED
                BY <1>0, <2>1, <4>1, <4>2
        <3>. QED
            BY <3>1, <3>2
    <2>. QED
        BY <1>0, <1>1, <2>1, <2>2, <2>3
<1>3. ASSUME NEW x \in Contexts, Made(x) PROVE Boxed'
    <2>. DEFINE s == <<current[x], x>>
    <2>1. /\ s \in States /\ s # Instance /\ s[1] = current[x] /\ current[x] \in Units
          /\ kept' = [kept EXCEPT ![current[x]] = s] /\ mine' = [mine EXCEPT ![x] = s]
          /\ Minted(s) /\ current' = current
          /\ \A y \in Contexts : pc'[y] = "create" => y # x /\ pc[y] = "create"
        BY <1>3 DEF Made, States
    <2>2. \A y \in Contexts : y # x => <<current[y], y>> # s
        OBVIOUS
    <2>. HIDE DEF s
    <2>3. /\ Boxes' = Boxes \cup {s} /\ IsFiniteSet(Boxes')
          /\ \A t, v \in Boxes' : uid'[t] = uid'[v] => t = v
        BY <2>1, NewId
    <2>4. ASSUME NEW t \in Boxes' \ {Instance} PROVE kept'[t[1]] # Instance
        <3>1. t = s \/ (t \in Boxes \ {Instance} /\ t[1] \in Units)
            BY <2>3, StateIsPair DEF Boxes
        <3>. QED
            BY <1>0, <2>1, <3>1
    <2>5. \A u \in Units : kept'[u] \in Boxes'
        BY <1>0, <2>1, <2>3
    <2>6. \A y \in Contexts : mine'[y] \in Boxes'
        BY <1>0, <2>1, <2>3
    <2>7. \A y \in Contexts : pc'[y] = "create" => <<current'[y], y>> \notin Boxes'
        BY <1>0, <2>1, <2>2, <2>3
    <2>. QED
        BY <1>0, <2>3, <2>4, <2>5, <2>6, <2>7 DEF Boxed
<1>4. ASSUME NEW x \in Contexts, Stamped(x) PROVE Boxed'
    <2>1. Boxes' = Boxes /\ uid' = uid /\ kept' = kept /\ current' = current
        BY <1>4 DEF Stamped, Boxes
    <2>2. \A y \in Contexts : mine'[y] \in Boxes /\ (pc'[y] = "create" => pc[y] = "create")
        BY <1>0, <1>4 DEF Stamped
    <2>. QED
        BY <1>0, <1>1, <2>1, <2>2
<1>5. ASSUME NEW x \in Contexts, Replaced(x) PROVE Boxed'
    <2>1. mine[x] \in States /\ Minted(mine[x]) /\ kept' = kept /\ current' = current
        BY <1>5 DEF Replaced
    <2>2. Boxes' = Boxes /\ \A s, t \in Boxes : uid'[s] = uid'[t] => s = t
        <3>1. Boxes' = Boxes \cup {mine[x]} /\ \A t, v \in Boxes' : uid'[t] = uid'[v] => t = v
            BY <2>1, NewId
        <3>. QED
            BY <1>0, <3>1
    <2>3. \A y \in Contexts : mine'[y] \in Boxes /\ (pc'[y] = "create" => pc[y] = "create")
        BY <1>0, <1>5 DEF Replaced
    <2>. QED
        BY <1>0, <1>1, <2>1, <2>2, <2>3
<1>6. ASSUME Edged PROVE Boxed'
    <2>1. Boxes' = Boxes /\ uid' = uid /\ kept' = kept
        BY <1>6 DEF Edged, uidVars, Boxes
    <2>. QED
        BY <1>0, <1>1, <1>6, <2>1 DEF Edged
<1>. QED
    BY <1>2, <1>3, <1>4, <1>5, <1>6, StepsDo DEF Effect

-----------------------------------------------------------------------------
(* Ids, after each step *)

\* No record is stamped at first.
LEMMA TiedInit == Init => Tied
  BY DEF Init, Tied, TiedTogether

\* A box of a home that has one is not known to any other home's records, and to
\* its own in its own era.
Knows(p, s) == p.id = uid[s] <=> p.home = HomeOf(s) /\ p.era = era[p.home]

\* What TiedTogether says of two records.
Apart(p, q) == p.id = q.id <=> p.home = q.home /\ p.era = q.era

\* Tied, record by record.
LEMMA TiedIs ==
    Tied <=> /\ \A p \in stamped : p.era <= era[p.home] /\ \E s \in Boxes : HomeOf(s) = p.home
             /\ \A p \in stamped, s \in Boxes :
                    OneBox(p.home) /\ OneBox(HomeOf(s)) => Knows(p, s)
             /\ \A p, q \in stamped : OneBox(p.home) /\ OneBox(q.home) => Apart(p, q)
<1>1. TiedTogether <=> \A p, q \in stamped : OneBox(p.home) /\ OneBox(q.home) => Apart(p, q)
    BY DEF TiedTogether, Apart
<1>. QED
    BY <1>1 DEF Tied, Knows

\* A step that stamps nothing, and leaves at most one box with a new id.
LEMMA TiedMinted ==
    ASSUME Typed, Boxed, Tied, NEW s \in States, Minted(s), stamped' = stamped,
           \/ s \notin Boxes /\ era' = era
           \/ s \in Boxes /\ era' = [era EXCEPT ![HomeOf(s)] = era[HomeOf(s)] + 1]
    PROVE  Tied'
<1>0. /\ Boxes' = Boxes \cup {s} /\ IsFiniteSet(Boxes')
      /\ uid'[s] = minted + 1
      /\ \A t \in States \ {s} : uid'[t] = uid[t]
    BY NewId
<1>1. /\ minted \in Nat /\ era \in [Homes -> Nat]
      /\ \A p \in stamped : p.home \in Homes /\ p.era \in Nat /\ p.id \in 1 .. minted
      /\ \A t \in Boxes : t \in States
    BY DEF Typed, Stamps, Boxes
<1>2. /\ \A p \in stamped : p.era <= era[p.home] /\ \E t \in Boxes : HomeOf(t) = p.home
      /\ \A p \in stamped, t \in Boxes : OneBox(p.home) /\ OneBox(HomeOf(t)) => Knows(p, t)
      /\ \A p, q \in stamped : OneBox(p.home) /\ OneBox(q.home) => Apart(p, q)
    BY TiedIs
<1>3. \A t : HomeOf(t)' = HomeOf(t)
    BY DEF HomeOf
<1>4. \A h : OneBox(h)' => OneBox(h)
    BY <1>0, FewerBoxes
<1>5. HomeOf(s) \in Homes
    BY StateIsPair DEF HomeOf, Homes
<1>6. \A t, v \in Boxes' : HomeOf(t) = HomeOf(v) /\ OneBox(HomeOf(t))' => t = v
    <2>1. (IsFiniteSet(Boxes) => OneEach)'
        BY OnlyBox, PTL
    <2>. QED
        BY <1>0, <2>1 DEF OneEach
<1>7. ASSUME NEW p \in stamped
      PROVE  p.era <= era'[p.home] /\ \E t \in Boxes' : HomeOf(t)' = p.home
    <2>1. p.era <= era'[p.home]
        BY <1>1, <1>2, <1>5
    <2>. QED
        BY <1>0, <1>2, <1>3, <2>1
<1>8. ASSUME NEW p \in stamped, NEW t \in Boxes', OneBox(p.home)', OneBox(HomeOf(t))'
      PROVE  Knows(p, t)'
    <2>1. OneBox(p.home) /\ OneBox(HomeOf(t)) /\ p.home \in Homes
        BY <1>1, <1>4, <1>8
    <2>2. CASE t = s
        <3>1. p.id # uid'[s]
            BY <1>0, <1>1
        <3>2. CASE s \in Boxes
            <4>1. era'[HomeOf(s)] = era[HomeOf(s)] + 1 /\ p.era <= era[p.home]
                BY <1>1, <1>2, <1>5, <3>2
            <4>. QED
                BY <1>1, <1>3, <1>5, <2>2, <3>1, <4>1 DEF Knows
        <3>3. CASE s \notin Boxes
            <4>1. PICK v \in Boxes : HomeOf(v) = p.home
                BY <1>2
            <4>2. p.home # HomeOf(s)
                BY <1>0, <1>6, <1>8, <3>3, <4>1
            <4>. QED
                BY <1>3, <2>2, <3>1, <4>2 DEF Knows
        <3>. QED
            BY <3>2, <3>3
    <2>3. CASE t # s
        <3>1. t \in Boxes /\ t \in States /\ uid'[t] = uid[t] /\ Knows(p, t)
            BY <1>0, <1>1, <1>2, <2>1, <2>3
        <3>2. CASE p.home = HomeOf(t)
            <4>1. HomeOf(t) # HomeOf(s) \/ era' = era
                BY <1>0, <1>6, <1>8, <2>3
            <4>2. era'[p.home] = era[p.home]
                BY <1>1, <1>5, <2>1, <3>2, <4>1
            <4>. QED
                BY <1>3, <3>1, <4>2 DEF Knows
        <3>3. CASE p.home # HomeOf(t)
            BY <1>3, <3>1, <3>3 DEF Knows
        <3>. QED
            BY <3>2, <3>3
    <2>. QED
        BY <2>2, <2>3
<1>9. \A p, q \in stamped : OneBox(p.home)' /\ OneBox(q.home)' => Apart(p, q)'
    BY <1>2, <1>4 DEF Apart
<1>. QED
    <2>1. /\ \A p \in stamped' : p.era <= era'[p.home] /\ \E t \in Boxes' : HomeOf(t)' = p.home
          /\ \A p \in stamped', t \in Boxes' : OneBox(p.home)' /\ OneBox(HomeOf(t))' => Knows(p, t)'
          /\ \A p, q \in stamped' : OneBox(p.home)' /\ OneBox(q.home)' => Apart(p, q)'
        BY <1>7, <1>8, <1>9
    <2>2. TiedTogether'
        BY <2>1 DEF TiedTogether, Apart
    <2>. QED
        BY <2>1, <2>2 DEF Tied, Knows

\* A record carries the id of its box, which no record of another home or era does.
LEMMA TiedStamped ==
    ASSUME Typed, Boxed, Tied, NEW x \in Contexts, Stamped(x)
    PROVE  Tied'
<1>. DEFINE q == [home |-> current[x], era |-> era[current[x]], id |-> uid[mine[x]]]
<1>1. /\ mine[x] \in Boxes /\ HomeOf(mine[x]) = current[x]
      /\ stamped' = stamped \cup {q} /\ uid' = uid /\ era' = era
    BY DEF Boxed, Stamped
<1>2. /\ q.home = HomeOf(mine[x]) /\ q.era = era[q.home] /\ q.id = uid[mine[x]]
      /\ era[q.home] \in Nat
    BY <1>1 DEF Stamped, Typed
<1>. HIDE DEF q
<1>3. /\ \A p \in stamped : p.era <= era[p.home] /\ \E t \in Boxes : HomeOf(t) = p.home
      /\ \A p \in stamped, t \in Boxes : OneBox(p.home) /\ OneBox(HomeOf(t)) => Knows(p, t)
      /\ \A p, r \in stamped : OneBox(p.home) /\ OneBox(r.home) => Apart(p, r)
    BY TiedIs
<1>4. /\ Boxes' = Boxes /\ (\A t : HomeOf(t)' = HomeOf(t)) /\ (\A h : OneBox(h)' <=> OneBox(h))
      /\ \A p, t : Knows(p, t)' <=> Knows(p, t)
    BY <1>1 DEF Boxes, HomeOf, OneBox, Knows
<1>5. \A t \in Boxes : OneBox(q.home) /\ OneBox(HomeOf(t)) => Knows(q, t)
    <2>1. SUFFICES ASSUME NEW t \in Boxes, OneBox(q.home), OneBox(HomeOf(t)) PROVE Knows(q, t)
        OBVIOUS
    <2>2. uid[mine[x]] = uid[t] <=> mine[x] = t
        BY <1>1, <2>1 DEF Boxed
    <2>3. HomeOf(mine[x]) = HomeOf(t) <=> mine[x] = t
        BY <1>1, <1>2, <2>1, OnlyBox DEF Boxed, OneEach
    <2>. QED
        BY <1>2, <2>2, <2>3 DEF Knows
<1>6. \A p \in stamped : OneBox(p.home) /\ OneBox(q.home) => Apart(p, q) /\ Apart(q, p)
    <2>1. SUFFICES ASSUME NEW p \in stamped, OneBox(p.home), OneBox(q.home)
                   PROVE  Apart(p, q) /\ Apart(q, p)
        OBVIOUS
    <2>2. Knows(p, mine[x])
        BY <1>1, <1>2, <1>3, <2>1
    <2>. QED
        BY <1>2, <2>2 DEF Knows, Apart
<1>7. Apart(q, q)
    BY DEF Apart
<1>8. /\ \A p \in stamped' : p.era <= era'[p.home] /\ \E t \in Boxes' : HomeOf(t)' = p.home
      /\ \A p \in stamped', t \in Boxes' : OneBox(p.home)' /\ OneBox(HomeOf(t))' => Knows(p, t)'
      /\ \A p, r \in stamped' : OneBox(p.home)' /\ OneBox(r.home)' => Apart(p, r)'
    <2>1. \A p \in stamped' : p.era <= era'[p.home] /\ \E t \in Boxes' : HomeOf(t)' = p.home
        BY <1>1, <1>2, <1>3, <1>4
    <2>2. \A p \in stamped', t \in Boxes' : OneBox(p.home)' /\ OneBox(HomeOf(t))' => Knows(p, t)'
        BY <1>1, <1>3, <1>4, <1>5
    <2>3. \A p, r \in stamped' : OneBox(p.home) /\ OneBox(r.home) => Apart(p, r)
        BY <1>1, <1>3, <1>6, <1>7
    <2>4. \A p, r : Apart(p, r)' <=> Apart(p, r)
        BY DEF Apart
    <2>. QED
        BY <1>4, <2>1, <2>2, <2>3, <2>4
<1>9. TiedTogether'
    BY <1>8 DEF TiedTogether, Apart
<1>. QED
    BY <1>8, <1>9 DEF Tied, Knows

\* Every step keeps it.
LEMMA TiedNext == Typed /\ Boxed /\ Tied /\ [Next]_vars => Tied'
<1>. SUFFICES ASSUME Typed, Boxed, Tied, [Next]_vars PROVE Tied'
    OBVIOUS
<1>1. ASSUME UNCHANGED uidVars PROVE Tied'
    <2>1. UNCHANGED <<uid, minted, era, stamped>> /\ Boxes' = Boxes
          /\ (\A t : HomeOf(t)' = HomeOf(t)) /\ (\A h : OneBox(h)' <=> OneBox(h))
        BY <1>1 DEF uidVars, Boxes, HomeOf, OneBox
    <2>. QED
        BY <2>1 DEF Tied, TiedTogether
<1>2. ASSUME NEW x \in Contexts, Made(x) PROVE Tied'
    <2>. DEFINE s == <<current[x], x>>
    <2>1. s \in States /\ Minted(s) /\ stamped' = stamped /\ era' = era /\ s \notin Boxes
        BY <1>2 DEF Made, States, Boxed
    <2>. HIDE DEF s
    <2>. QED
        BY <2>1, TiedMinted
<1>3. ASSUME NEW x \in Contexts, Replaced(x) PROVE Tied'
    <2>1. /\ mine[x] \in States /\ mine[x] \in Boxes /\ Minted(mine[x]) /\ stamped' = stamped
          /\ era' = [era EXCEPT ![HomeOf(mine[x])] = era[HomeOf(mine[x])] + 1]
        BY <1>3 DEF Replaced, Boxed
    <2>. QED
        BY <2>1, TiedMinted
<1>. QED
    BY <1>1, <1>2, <1>3, TiedStamped, StepsDo DEF Effect, Looked, Edged

-----------------------------------------------------------------------------
(* The theorems *)

\* The invariant holds at first, and every step keeps it.
LEMMA UidInit == Init => UidInv
  BY TypedInit, BoxedInit, TiedInit DEF UidInv

\* Every step preserves the invariant.
LEMMA UidNext == UidInv /\ [Next]_vars => UidInv'
  BY TypedNext, BoxedNext, TiedNext DEF UidInv

\* The promises of the processor follow from it.
LEMMA UidFollow == UidInv => TypeOK /\ TiedTogether
  BY DEF UidInv, Typed, Tied

\* However contexts share units and interleave, wherever one box was made for a
\* unit its records carry one id between two calls of reset(), wherever in the
\* unit these are called, and no record of another unit or era carries it.
THEOREM UidHolds == Spec => [](TypeOK /\ TiedTogether)
<1>1. Init => UidInv
    BY UidInit
<1>2. UidInv /\ [Next]_vars => UidInv'
    BY UidNext
<1>3. UidInv => TypeOK /\ TiedTogether
    BY UidFollow
<1>. QED
    BY <1>1, <1>2, <1>3, PTL DEF Spec
==============================================================================
