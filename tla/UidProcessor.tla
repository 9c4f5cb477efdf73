----------------------------- MODULE UidProcessor -----------------------------
(***************************************************************************)
(* UidProcessor (processor/uid_processor.py): the id that ties the records *)
(* of a unit of work together.  It is kept in a box in the unit, and in    *)
(* the instance outside any; reset() mints another into the same box.  An  *)
(* id is random in the code; here it is the number of its minting.         *)
(***************************************************************************)
EXTENDS LogUnit

\* A setup also says how many calls of reset() there are.
UidAssumption == \A s \in Setups : s.resets \in Nat

VARIABLES
    uid,        \* the id in each state's box, 0 where there is none
    minted,     \* ids generated so far
    era,        \* history: era[u], the calls of reset() in u, or outside any
    stamped     \* history: the records, each with where and when it was stamped

uidVars == <<uid, minted, era, stamped>>
vars == <<unitVars, flowVars, uidVars>>

Homes == Units \cup {NoUnit}

Init ==
    /\ UnitInit
    /\ uid = [s \in States |-> IF s = Instance THEN 1 ELSE 0]
    /\ minted = 1
    /\ era = [u \in Homes |-> 0]
    /\ stamped = {}

\* __call__() and reset(): both ask for the box first.
BeginCall(x) ==
    /\ pc[x] = "idle"
    /\ \/ LookupThen(x, "stamp")
       \/ FoldFunction(+, 0, era) < setup.resets /\ LookupThen(x, "mint")
    /\ UNCHANGED <<unitVars, uidVars>>

\* _generate(), into the box of s.
Mint(s) ==
    /\ minted' = minted + 1
    /\ uid' = [uid EXCEPT ![s] = minted']

\* The factory of unit_state().
CreateBox(x) ==
    /\ CreateUnheard(x)
    /\ Mint(<<current[x], x>>)
    /\ UNCHANGED <<era, stamped>>

Stamp(x) ==
    /\ pc[x] = "stamp"
    /\ stamped' = stamped \cup
           {[home |-> current[x], era |-> era[current[x]], id |-> uid[mine[x]]]}
    /\ Return(x)
    /\ UNCHANGED <<unitVars, todo, uid, minted, era>>

\* A slip: the id outside of units is replaced.
OwnBox(x) == Instance

Box(x) == mine[x]

Reset(x) ==
    /\ pc[x] = "mint"
    /\ Mint(Box(x))
    /\ era' = [era EXCEPT ![current[x]] = @ + 1]
    /\ Return(x)
    /\ UNCHANGED <<unitVars, todo, stamped>>

UnitEdge(x) == (UnitCall(x) \/ LeaveUnit(x)) /\ UNCHANGED uidVars

Next == \E x \in Contexts : BeginCall(x) \/ CreateBox(x) \/ Stamp(x) \/ Reset(x) \/ UnitEdge(x)

Spec == Init /\ [][Next]_vars

-----------------------------------------------------------------------------
(* Properties *)

TypeOK ==
    /\ UnitTypeOK
    /\ pc \in [Contexts -> {"idle", "create", "ending", "stamp", "mint"}]
    /\ todo \in [Contexts -> {"idle", "stamp", "mint"}]
    /\ uid \in [States -> 0 .. minted]

\* No two contexts made a box each, when both found none.
OneBox(u) == Cardinality({s \in UnitStates : s[1] = u /\ uid[s] # 0}) <= 1

\* Records carry the same id if and only if they were logged in one unit, in
\* whichever of its contexts, with no reset() of any of them in between.
TiedTogether ==
    \A p, q \in stamped :
        OneBox(p.home) /\ OneBox(q.home) =>
            ((p.id = q.id) = (p.home = q.home /\ p.era = q.era))
=============================================================================
