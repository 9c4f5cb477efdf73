----------------------------- MODULE UnitsProofs -----------------------------
(***************************************************************************)
(* FingersCrossedHandler, proved for any contexts, units and records, and  *)
(* with it the owners of state in units of work as MCUnits combines them:  *)
(* the invariants of MCUnits follow from CrossedInv, proved here, and from *)
(* what BufferProofs and UidProofs prove.                                  *)
(***************************************************************************)
EXTENDS MCUnits, LogUnitProofs, SelectionProofs, FiniteSetTheorems

-----------------------------------------------------------------------------
(* The invariants *)

\* A record is in the hands of a context from handle() to the decision, a batch
\* only while it is forwarded, and end_unit() goes through nothing but the flush.
HandAt(x) ==
    /\ rec[x] # NoRecord <=>
           \/ pc[x] \in {"read", "append", "decide", "pass"}
           \/ pc[x] \in {"create", "register"} /\ todo[x] = "read"
    /\ pc[x] \in {"create", "register"} => todo[x] \in {"read", "swap", "flush", "clear"}
    /\ pending[x] # <<>> => pc[x] = "forward"
    /\ slot[x] > 0 => pc[x] \in {"ending", "flush", "forward"}

Typed == TypeOK /\ UnitInv(CrossedPhases) /\ \A x \in Contexts : HandAt(x)

\* A record is logged in one unit, and is kept where that unit's state is.
Homely ==
    /\ \A u, v \in Homes : u # v => Range(story[u]) \cap Range(story[v]) = {}
    /\ \A s \in States : Range(buffer[s]) \subseteq Range(story[HomeOf(s)])
    /\ \A x \in Contexts : Range(pending[x]) \subseteq Range(story[current[x]])
    /\ \A x \in Contexts : rec[x] # NoRecord => rec[x] \in Range(story[current[x]])
    /\ Range(forwarded) \cup dropped \subseteq Logged

\* Whatever can be written below the floor comes from a unit that is activated.
Quiet ==
    /\ \A s \in States : ~buffering[s] => HomeOf(s) \in activated
    /\ \A x \in Contexts :
           \/ pc[x] \in {"pass", "swap"}
           \/ pc[x] \in {"create", "register"} /\ todo[x] = "swap"
           \/ ~(Range(pending[x]) \subseteq Floor)
           => current[x] \in activated
    /\ SilentUnlessActivated

\* A unit used by one context: only the state it keeps holds anything, and only
\* while the context is in it; nothing is left once it has been taken.
HeldBack == ~setup.sharing =>
    /\ \A s \in States : buffer[s] # <<>> =>
           s # Instance /\ s = kept[s[1]] /\ \E x \in Contexts : current[x] = s[1]
    /\ \A s \in States : ~buffering[s] => buffer[s] = <<>>
    /\ \A x \in Contexts :
           /\ pc[x] = "append" => buffering[mine[x]]
           /\ pc[x] = "pass" => ~buffering[mine[x]]
           /\ pc[x] = "forward" => buffer[mine[x]] = <<>>
           /\ pc[x] = "ending" /\ slot[x] > 1 /\ current[x] # NoUnit =>
                  buffer[kept[current[x]]] = <<>>

\* An alarm is on its way out in the one context of its unit.
OnItsWay(x, r) ==
    \/ rec[x] = r /\ (pc[x] = "decide" => r \in Range(buffer[mine[x]]))
    \/ pc[x] = "swap" /\ r \in Range(buffer[mine[x]])
    \/ pc[x] = "forward" /\ r \in Range(pending[x])

Rung == ~setup.sharing =>
    \A u \in Homes : \A r \in Activating \cap Range(story[u]) :
        r \in Range(forwarded) \/ \E x \in Contexts : current[x] = u /\ OnItsWay(x, r)

\* The records that do not come after one another in the story of a unit.
NotAfter ==
    {p \in Records \X Records :
        /\ p[1] # p[2]
        /\ \A u \in Homes : \A k, l \in DOMAIN story[u] :
               story[u][k] = p[1] /\ story[u][l] = p[2] => k < l}

\* Where a record is, kind by kind.
HandsOf(r) == {x \in Contexts : rec[x] = r /\ pc[x] # "decide"}
BuffersOf(r) == {s \in States : r \in Range(buffer[s])}
BatchesOf(r) == {x \in Contexts : r \in Range(pending[x])}
OutsOf(r) == Spots(forwarded, r)
DropsOf(r) == {r} \cap dropped

\* A record that was logged is in one place, one that was not is in none.
Placed(r) ==
    \/ r \notin Logged /\ None(HandsOf(r), BuffersOf(r), BatchesOf(r), OutsOf(r)) /\ DropsOf(r) = {}
    \/ r \in Logged /\ Single(HandsOf(r)) /\ None(BuffersOf(r), BatchesOf(r), OutsOf(r), DropsOf(r))
    \/ r \in Logged /\ Single(BuffersOf(r)) /\ None(HandsOf(r), BatchesOf(r), OutsOf(r), DropsOf(r))
    \/ r \in Logged /\ Single(BatchesOf(r)) /\ None(HandsOf(r), BuffersOf(r), OutsOf(r), DropsOf(r))
    \/ r \in Logged /\ Single(OutsOf(r)) /\ None(HandsOf(r), BuffersOf(r), BatchesOf(r), DropsOf(r))
    \/ r \in Logged /\ Single(DropsOf(r)) /\ None(HandsOf(r), BuffersOf(r), BatchesOf(r), OutsOf(r))

OnePlace ==
    /\ \A r \in Records : Placed(r)
    /\ \A s \in States : Sorted(buffer[s], Distinct(Records))
    /\ \A x \in Contexts : Sorted(pending[x], Distinct(Records))

\* A story is told in its order: what was written, what is to be written, what is
\* held back and what has just come in.
TurnIn(s) ==
    /\ Sorted(buffer[s], NotAfter)
    /\ Ahead(Range(forwarded), Range(buffer[s]), NotAfter)

TurnBy(x) ==
    /\ Sorted(pending[x], NotAfter)
    /\ Ahead(Range(forwarded), Range(pending[x]), NotAfter)
    /\ rec[x] # NoRecord /\ pc[x] # "decide" =>
           /\ Ahead(Range(forwarded), {rec[x]}, NotAfter)
           /\ \A s \in States : HomeOf(s) = current[x] => Ahead(Range(buffer[s]), {rec[x]}, NotAfter)

InTurn ==
    /\ \A u \in Homes : Sorted(story[u], Distinct(Records))
    /\ ~setup.sharing =>
           /\ Sorted(forwarded, NotAfter)
           /\ \A s \in States : TurnIn(s)
           /\ \A x \in Contexts : TurnBy(x)

-----------------------------------------------------------------------------
(* Types *)

\* The steps of a context in the code of the handler.
Moves(x) == HandlerStep(x) \/ (\E r \in Records : BeginHandle(x, r)) \/ CallHandler(x)

\* Init establishes the types.
LEMMA TypedInit == Init => Typed
<1>. SUFFICES ASSUME Init PROVE Typed
    OBVIOUS
<1>1. UnitInv(CrossedPhases)
    BY UnitInvInit DEF Init, CrossedPhases
<1>2. TypeOK
    <2>1. \A s \in States : buffer[s] = <<>> /\ Len(buffer[s]) = 0
        BY DEF Init
    <2>2. \A s \in States : setup.limit > 0 => Len(buffer[s]) <= setup.limit
        BY <2>1, CrossedAssumption DEF Init, UnitInit
    <2>. QED
        BY <1>1, <2>2 DEF TypeOK, UnitInv, UnitTyped, Init
<1>3. \A x \in Contexts : HandAt(x)
    BY DEF Init, UnitInit, HandAt
<1>. QED
    BY <1>1, <1>2, <1>3 DEF Typed

\* Each step of the handler is one that LogUnitProofs provides for.
LEMMA MovesAre ==
    ASSUME Typed, NEW x \in Contexts, Moves(x) PROVE HandlerMoves(CrossedPhases, x)
<1>1. slot[x] \in Nat /\ (pc[x] \notin {"ending", "flush", "forward"} => slot[x] = 0)
    BY DEF Typed, HandAt, UnitInv, UnitTyped, UnitTypeOK
<1>2. {"read", "append", "decide", "pass", "swap", "flush", "clear", "forward"}
          \subseteq CrossedPhases \ Outside
    BY DEF CrossedPhases, Outside
<1>3. CASE \E r \in Records : BeginHandle(x, r)
    <2>1. /\ pc[x] = "idle" /\ (setup.sharing \/ current[x] # NoUnit) /\ LookupThen(x, "read")
          /\ UNCHANGED unitVars
        BY <1>3 DEF BeginHandle
    <2>. QED
        BY <1>1, <1>2, <2>1 DEF HandlerMoves, unitVars
<1>4. CASE ReadBuffering(x)
    BY <1>2, <1>4 DEF ReadBuffering, HandlerMoves, unitVars, Outside
<1>5. CASE AppendRecord(x)
    BY <1>2, <1>5 DEF AppendRecord, HandlerMoves, unitVars, Outside
<1>6. CASE Decide(x)
    <2>1. pc[x] = "decide" /\ UNCHANGED unitVars
        BY <1>6 DEF Decide
    <2>. QED
        BY <1>1, <1>2, <1>6, <2>1 DEF Decide, Activate, HandlerMoves, unitVars, Outside
<1>7. CASE PassThrough(x)
    BY <1>2, <1>7 DEF PassThrough, HandlerMoves, unitVars, Outside
<1>8. CASE SwapBuffer(x)
    BY <1>2, <1>8 DEF SwapBuffer, HandlerMoves, unitVars, Outside
<1>9. CASE FlushState(x)
    BY <1>2, <1>9 DEF FlushState, HandlerMoves, unitVars, Outside
<1>10. CASE ClearState(x)
    BY <1>2, <1>10 DEF ClearState, HandlerMoves, unitVars, Outside
<1>11. CASE Forward(x)
    BY <1>2, <1>11 DEF Forward, HandlerMoves, unitVars, Outside
<1>12. CASE CallHandler(x)
    <2>1. /\ pc[x] = "idle" /\ (setup.sharing \/ current[x] # NoUnit) /\ UNCHANGED unitVars
          /\ LookupThen(x, "swap") \/ LookupThen(x, "flush") \/ LookupThen(x, "clear")
        BY <1>12 DEF CallHandler, Activate
    <2>. QED
        BY <1>1, <1>2, <2>1 DEF HandlerMoves, unitVars
<1>. QED
    BY <1>3, <1>4, <1>5, <1>6, <1>7, <1>8, <1>9, <1>10, <1>11, <1>12 DEF Moves, HandlerStep

\* A step is one of the handler, or one of the units that it does not notice.
Elsewhere(x) == (UnitStep(x) \/ UnitCall(x)) /\ UNCHANGED crossedVars

-----------------------------------------------------------------------------
(* What the steps do, without their detail *)

\* handle() begins: the record is new to the story.
Begun(x, r) ==
    /\ r \notin Logged /\ current[x] \in Homes /\ story[current[x]] \in Seq(Records)
    /\ setup.sharing \/ current[x] # NoUnit
    /\ pc[x] = "idle" /\ rec[x] = NoRecord
    /\ story' = [story EXCEPT ![current[x]] = Append(story[current[x]], r)]
    /\ rec' = [rec EXCEPT ![x] = r]
    /\ (pc'[x] = "create" /\ todo'[x] = "read") \/ pc'[x] = "read"
    /\ UNCHANGED <<buffer, buffering, pending, forwarded, dropped, activated, failed>>

\* The record is added, in the place of the first if the buffer is full.
Appended(x) ==
    LET s == mine[x]
        r == rec[x]
    IN  /\ s \in States /\ buffer[s] \in Seq(Records) /\ r \in Records
        /\ pc[x] = "append" /\ pc' = [pc EXCEPT ![x] = "decide"]
        /\ \/ /\ buffer' = [buffer EXCEPT ![s] = Append(buffer[s], r)]
              /\ setup.limit > 0 => Len(Append(buffer[s], r)) <= setup.limit
              /\ dropped' = dropped
           \/ /\ buffer[s] # <<>>
              /\ buffer' = [buffer EXCEPT ![s] = Append(Tail(buffer[s]), r)]
              /\ Len(Append(Tail(buffer[s]), r)) = Len(buffer[s])
              /\ dropped' = dropped \cup {Head(buffer[s])}
        /\ UNCHANGED <<todo, mine, buffering, rec, pending, forwarded, story, activated, failed>>

\* The state is looked up anew, if the record activates.
Decided(x) ==
    /\ pc[x] = "decide" /\ slot[x] = 0 /\ rec[x] \in Records
    /\ rec' = [rec EXCEPT ![x] = NoRecord]
    /\ \/ /\ rec[x] \in Activating /\ activated' = activated \cup {current[x]}
          /\ (pc'[x] = "create" /\ todo'[x] = "swap") \/ pc'[x] = "swap"
          /\ current[x] \in Units /\ kept[current[x]] # Instance =>
                 pc'[x] = "swap" /\ mine'[x] = kept[current[x]]
       \/ /\ rec[x] \notin Activating /\ activated' = activated
          /\ pc'[x] = "idle"
    /\ UNCHANGED <<buffer, buffering, pending, forwarded, dropped, story, failed>>

\* The flag is read.
HasRead(x) ==
    /\ pc[x] = "read" /\ pc'[x] = IF buffering[mine[x]] THEN "append" ELSE "pass"
    /\ UNCHANGED <<todo, mine, crossedVars, failed>>

\* The record is written at once.
Passed(x) ==
    /\ pc[x] = "pass" /\ rec[x] \in Records /\ pc'[x] = "idle"
    /\ forwarded' = Append(forwarded, rec[x]) /\ rec' = [rec EXCEPT ![x] = NoRecord]
    /\ UNCHANGED <<buffer, buffering, pending, dropped, story, activated, failed>>

\* The buffer is taken whole.
Swapped(x) ==
    LET s == mine[x]
    IN  /\ s \in States /\ pc[x] = "swap" /\ pc'[x] = "forward" /\ rec[x] = NoRecord
        /\ mine' = mine /\ buffer[s] \in Seq(Records)
        /\ pending' = [pending EXCEPT ![x] = buffer[s]]
        /\ buffer' = [buffer EXCEPT ![s] = <<>>]
        /\ buffering' = [buffering EXCEPT ![s] = buffering[s] /\ ~setup.stop]
        /\ UNCHANGED <<rec, forwarded, dropped, story, activated, failed>>

\* The floor is taken, and the rest is dropped.
Flushed(x) ==
    LET s == mine[x]
    IN  /\ s \in States /\ pc[x] = "flush" /\ rec[x] = NoRecord /\ buffer[s] \in Seq(Records)
        /\ \/ pc'[x] = "forward" /\ mine' = mine
           \/ /\ Selected(buffer[s], Floor) = <<>>
              /\ pc'[x] = IF slot[x] = 0 THEN "idle" ELSE "ending"
        /\ pending' = [pending EXCEPT ![x] = Selected(buffer[s], Floor)]
        /\ buffer' = [buffer EXCEPT ![s] = <<>>]
        /\ buffering' = [buffering EXCEPT ![s] = TRUE]
        /\ dropped' = dropped \cup (Range(buffer[s]) \ Floor)
        /\ UNCHANGED <<rec, forwarded, story, activated, failed>>

\* All is dropped.
Cleared(x) ==
    LET s == mine[x]
    IN  /\ s \in States /\ pc[x] = "clear" /\ slot[x] = 0 /\ pc'[x] = "idle"
        /\ rec[x] = NoRecord /\ buffer[s] \in Seq(Records)
        /\ buffer' = [buffer EXCEPT ![s] = <<>>]
        /\ buffering' = [buffering EXCEPT ![s] = TRUE]
        /\ dropped' = dropped \cup Range(buffer[s])
        /\ UNCHANGED <<rec, pending, forwarded, story, activated, failed>>

\* The batch is written.
Forwarded(x) ==
    /\ pc[x] = "forward" /\ rec[x] = NoRecord /\ pending[x] \in Seq(Records)
    /\ pc'[x] = IF slot[x] = 0 THEN "idle" ELSE "ending"
    /\ forwarded' = forwarded \o pending[x] /\ pending' = [pending EXCEPT ![x] = <<>>]
    /\ UNCHANGED <<buffer, buffering, rec, dropped, story, activated>>

\* A call from outside looks the state up.
Called(x) ==
    /\ pc[x] = "idle" /\ slot[x] = 0 /\ rec[x] = NoRecord
    /\ \E there \in {"swap", "flush", "clear"} :
           /\ (pc'[x] = "create" /\ todo'[x] = there) \/ pc'[x] = there
           /\ there = "swap" => activated' = activated \cup {current[x]}
           /\ there # "swap" => activated' = activated
    /\ UNCHANGED <<buffer, buffering, rec, pending, forwarded, dropped, story, failed>>

\* The units, and the other contexts, are left as they are.
Stays(x) ==
    /\ UNCHANGED <<setup, current, opened, kept, callbacks, slot, next>>
    /\ \A y \in Contexts : y # x => pc'[y] = pc[y] /\ todo'[y] = todo[y] /\ mine'[y] = mine[y]

\* A step of the units: a context that changes its unit holds nothing.
Passes(x) ==
    /\ UNCHANGED crossedVars /\ setup' = setup
    /\ \A y \in Contexts : y # x =>
           pc'[y] = pc[y] /\ todo'[y] = todo[y] /\ slot'[y] = slot[y] /\ mine'[y] = mine[y]
    /\ \A y \in Contexts :
           current'[y] # current[y] => pc[y] \in {"idle", "ending"} /\ pc'[y] = "idle"
    /\ \/ pc[x] = "create" /\ pc'[x] = "register" /\ todo'[x] = todo[x] /\ slot'[x] = 0
       \/ pc[x] = "register" /\ pc'[x] = todo[x] /\ slot'[x] = 0
       \/ pc[x] = "ending" /\ pc'[x] = "flush"
       \/ pc[x] = "ending" /\ pc'[x] = "idle" /\ slot'[x] = 0
       \/ pc[x] = "idle" /\ pc'[x] = "ending"
       \/ pc[x] = "idle" /\ pc'[x] = "idle" /\ slot'[x] = slot[x]

\* What a context holds.
LEMMA Holds ==
    ASSUME Typed, NEW x \in Contexts
    PROVE  /\ mine[x] \in States /\ buffer[mine[x]] \in Seq(Records)
           /\ buffering[mine[x]] \in BOOLEAN
           /\ current[x] \in Homes /\ pending[x] \in Seq(Records) /\ slot[x] \in Nat
           /\ pc[x] \notin {"ending", "flush", "forward"} => slot[x] = 0
           /\ pc[x] \in {"read", "append", "decide", "pass"} => rec[x] \in Records
           /\ pc[x] \notin {"read", "append", "decide", "pass", "create", "register"} =>
                  rec[x] = NoRecord
           /\ pc[x] # "forward" => pending[x] = <<>>
<1>1. slot[x] \in Nat /\ HandAt(x)
    BY DEF Typed, TypeOK, UnitTypeOK
<1>2. pc[x] \notin {"ending", "flush", "forward"} => slot[x] = 0
    BY <1>1 DEF HandAt
<1>3. /\ mine[x] \in States /\ buffer[mine[x]] \in Seq(Records) /\ buffering[mine[x]] \in BOOLEAN
      /\ current[x] \in Homes /\ pending[x] \in Seq(Records)
      /\ rec[x] \in Records \cup {NoRecord}
    BY DEF Typed, TypeOK, UnitTypeOK, Homes
<1>. QED
    BY <1>1, <1>2, <1>3 DEF HandAt

\* What each step of the handler does, read off its action where the types
\* hold: the effect definitions above, in the order of the code.
LEMMA BeginHandleDoes ==
    ASSUME Typed, NEW x \in Contexts, NEW r \in Records, BeginHandle(x, r)
    PROVE  Begun(x, r)
<1>1. current[x] \in Homes
    BY DEF Typed, TypeOK, UnitTypeOK, Homes
<1>2. story[current[x]] \in Seq(Records) /\ rec[x] = NoRecord
    BY <1>1 DEF Typed, TypeOK, HandAt, BeginHandle
<1>3. (pc'[x] = "create" /\ todo'[x] = "read") \/ pc'[x] = "read"
    BY DEF BeginHandle, LookupThen, GoTo, Typed, TypeOK
<1>. QED
    BY <1>1, <1>2, <1>3 DEF BeginHandle, unitVars, Begun

\* handle() appends to the buffer; a full one drops its oldest first.
LEMMA AppendRecordDoes ==
    ASSUME Typed, NEW x \in Contexts, AppendRecord(x)
    PROVE  Appended(x)
<1>. DEFINE s == mine[x]
            r == rec[x]
<1>1. /\ s \in States /\ buffer[s] \in Seq(Records) /\ r \in Records
      /\ pc[x] = "append" /\ Len(buffer[s]) \in Nat /\ setup.limit \in Nat
      /\ setup.limit > 0 => Len(buffer[s]) <= setup.limit
    BY CrossedAssumption DEF AppendRecord, Typed, TypeOK, UnitTypeOK, HandAt
<1>2. /\ pc' = [pc EXCEPT ![x] = "decide"]
      /\ UNCHANGED <<todo, mine, buffering, rec, pending, forwarded, story, activated, failed>>
    BY DEF AppendRecord, GoTo, unitVars
<1>3. CASE Overflowing(s)
    <2>1. Len(buffer[s]) = setup.limit /\ setup.limit > 0 /\ buffer[s] # <<>>
        BY <1>1, <1>3 DEF Overflowing
    <2>2. buffer' = [buffer EXCEPT ![s] = Tail(Append(buffer[s], r))]
          /\ dropped' = dropped \cup {Head(Append(buffer[s], r))}
        BY <1>3 DEF AppendRecord, Added
    <2>3. /\ Tail(Append(buffer[s], r)) = Append(Tail(buffer[s]), r)
          /\ Head(Append(buffer[s], r)) = Head(buffer[s])
        BY <1>1, <2>1, HeadTailAppend
    <2>4. Len(Append(Tail(buffer[s]), r)) = Len(buffer[s])
        BY <1>1, <2>1
    <2>. QED
        BY <1>1, <1>2, <2>1, <2>2, <2>3, <2>4 DEF Appended
<1>4. CASE ~Overflowing(s)
    <2>1. Len(Append(buffer[s], r)) = Len(buffer[s]) + 1
        BY <1>1
    <2>2. setup.limit > 0 => Len(Append(buffer[s], r)) <= setup.limit
        BY <1>1, <1>4, <2>1 DEF Overflowing
    <2>3. buffer' = [buffer EXCEPT ![s] = Append(buffer[s], r)] /\ dropped' = dropped
        BY <1>4 DEF AppendRecord, Added
    <2>. QED
        BY <1>1, <1>2, <2>2, <2>3 DEF Appended
<1>. QED
    BY <1>3, <1>4 DEF Appended

\* The strategy is asked, and only an alarm changes where the code goes on.
LEMMA DecideDoes ==
    ASSUME Typed, NEW x \in Contexts, Decide(x)
    PROVE  Decided(x)
<1>1. pc[x] = "decide" /\ rec[x] \in Records /\ slot[x] = 0
    BY Holds DEF Decide
<1>2. /\ rec' = [rec EXCEPT ![x] = NoRecord]
      /\ UNCHANGED <<buffer, buffering, pending, forwarded, dropped, story, failed>>
    BY DEF Decide, unitVars
<1>3. CASE rec[x] \in Activating
    <2>1. LookupThen(x, "swap") /\ activated' = activated \cup {current[x]}
        BY <1>3 DEF Decide, Activate
    <2>2. /\ (pc'[x] = "create" /\ todo'[x] = "swap") \/ pc'[x] = "swap"
          /\ current[x] \in Units /\ kept[current[x]] # Instance =>
                 pc'[x] = "swap" /\ mine'[x] = kept[current[x]]
        BY <2>1, UnitAssumption DEF LookupThen, GoTo, Typed, TypeOK, UnitTypeOK
    <2>. QED
        BY <1>1, <1>2, <1>3, <2>1, <2>2 DEF Decided
<1>4. CASE rec[x] \notin Activating
    BY <1>1, <1>2, <1>4 DEF Decide, Return, GoTo, Typed, TypeOK, Decided
<1>. QED
    BY <1>3, <1>4 DEF Decided

\* handle() reads is_buffering once, and acts on it later.
LEMMA ReadBufferingDoes ==
    ASSUME Typed, NEW x \in Contexts, ReadBuffering(x)
    PROVE  HasRead(x)
  BY DEF ReadBuffering, GoTo, unitVars, Typed, TypeOK, HasRead

\* A released state passes the record straight on.
LEMMA PassThroughDoes ==
    ASSUME Typed, NEW x \in Contexts, PassThrough(x)
    PROVE  Passed(x)
<1>1. pc[x] = "pass" /\ rec[x] \in Records /\ slot[x] = 0
    BY Holds DEF PassThrough
<1>. QED
    BY <1>1 DEF PassThrough, Return, GoTo, unitVars, Typed, TypeOK, Passed

\* activate() takes the buffer away under the lock.
LEMMA SwapBufferDoes ==
    ASSUME Typed, NEW x \in Contexts, SwapBuffer(x)
    PROVE  Swapped(x)
<1>1. mine[x] \in States /\ buffer[mine[x]] \in Seq(Records) /\ pc[x] = "swap" /\ rec[x] = NoRecord
    BY Holds DEF SwapBuffer
<1>. QED
    BY <1>1 DEF SwapBuffer, Empty, GoTo, unitVars, Typed, TypeOK, Swapped

\* close() and reset() keep what is on the floor or above, and drop the rest.
LEMMA FlushStateDoes ==
    ASSUME Typed, NEW x \in Contexts, FlushState(x)
    PROVE  Flushed(x)
<1>1. mine[x] \in States /\ buffer[mine[x]] \in Seq(Records) /\ pc[x] = "flush" /\ rec[x] = NoRecord
    BY Holds DEF FlushState
<1>2. \/ pc'[x] = "forward" /\ mine' = mine
      \/ Selected(buffer[mine[x]], Floor) = <<>> /\ pc'[x] = IF slot[x] = 0 THEN "idle" ELSE "ending"
    BY DEF FlushState, Spared, Return, GoTo, Typed, TypeOK
<1>. QED
    BY <1>1, <1>2 DEF FlushState, Spared, Empty, unitVars, Flushed

\* clear() only forgets.
LEMMA ClearStateDoes ==
    ASSUME Typed, NEW x \in Contexts, ClearState(x)
    PROVE  Cleared(x)
<1>1. /\ mine[x] \in States /\ buffer[mine[x]] \in Seq(Records)
      /\ pc[x] = "clear" /\ slot[x] = 0 /\ rec[x] = NoRecord
    BY Holds DEF ClearState
<1>. QED
    BY <1>1 DEF ClearState, Return, Empty, GoTo, unitVars, Typed, TypeOK, Cleared

\* handle_batch() writes what was taken, all of it, in its order.
LEMMA ForwardDoes ==
    ASSUME Typed, NEW x \in Contexts, Forward(x)
    PROVE  Forwarded(x)
<1>1. pc[x] = "forward" /\ rec[x] = NoRecord /\ pending[x] \in Seq(Records)
    BY Holds DEF Forward
<1>. QED
    BY <1>1 DEF Forward, Return, GoTo, Typed, TypeOK, Forwarded

\* activate(), close(), reset() and clear(), called from outside.
LEMMA CallHandlerDoes ==
    ASSUME Typed, NEW x \in Contexts, CallHandler(x)
    PROVE  Called(x)
<1>1. pc[x] = "idle" /\ slot[x] = 0 /\ rec[x] = NoRecord
    BY Holds DEF CallHandler
<1>2. UNCHANGED <<buffer, buffering, rec, pending, forwarded, dropped, story, failed>>
    BY DEF CallHandler, unitVars
<1>3. \A there : LookupThen(x, there) =>
          (pc'[x] = "create" /\ todo'[x] = there) \/ pc'[x] = there
    BY DEF LookupThen, GoTo, Typed, TypeOK
<1>4. \/ LookupThen(x, "swap") /\ activated' = activated \cup {current[x]}
      \/ LookupThen(x, "flush") /\ activated' = activated
      \/ LookupThen(x, "clear") /\ activated' = activated
    BY DEF CallHandler, Activate
<1>. QED
    BY <1>1, <1>2, <1>3, <1>4 DEF Called

\* Every step of the handler is one of these, and keeps to the units it found.
LEMMA MovesDo ==
    ASSUME Typed, NEW x \in Contexts, Moves(x)
    PROVE  /\ Stays(x)
           /\ \/ \E r \in Records : Begun(x, r)
              \/ HasRead(x) \/ Appended(x) \/ Decided(x) \/ Passed(x)
              \/ Swapped(x) \/ Flushed(x) \/ Cleared(x) \/ Forwarded(x) \/ Called(x)
<1>1. Stays(x)
    <2>1. HandlerMoves(CrossedPhases, x)
        BY MovesAre
    <2>2. pc \in [Contexts -> CrossedPhases] /\ todo \in [Contexts -> CrossedPhases]
          /\ mine \in [Contexts -> States]
        BY DEF Typed, TypeOK, UnitTypeOK
    <2>. QED
        BY <2>1, <2>2 DEF HandlerMoves, LookupThen, Return, GoTo, Stays
<1>. QED
    BY <1>1, BeginHandleDoes, ReadBufferingDoes, AppendRecordDoes, DecideDoes, PassThroughDoes,
       SwapBufferDoes, FlushStateDoes, ClearStateDoes, ForwardDoes, CallHandlerDoes
       DEF Moves, HandlerStep

\* A step of a unit, or of a state being created, leaves the handler alone.
LEMMA ElsewhereDoes ==
    ASSUME Typed, NEW x \in Contexts, Elsewhere(x)
    PROVE  Passes(x)
<1>0. /\ pc \in [Contexts -> CrossedPhases] /\ todo \in [Contexts -> CrossedPhases]
      /\ mine \in [Contexts -> States]
      /\ slot \in [Contexts -> Nat] /\ current \in [Contexts -> Units \cup {NoUnit}]
      /\ pc[x] # "ending" => slot[x] = 0 \/ pc[x] \in {"flush", "forward"}
    BY Holds DEF Typed, TypeOK, UnitTypeOK
<1>1. UNCHANGED crossedVars
    BY DEF Elsewhere
<1>2. CASE CreateState(x)
    BY <1>0, <1>1, <1>2 DEF CreateState, Create, GoTo, Passes
<1>3. CASE RegisterState(x)
    BY <1>0, <1>1, <1>3 DEF RegisterState, GoTo, Passes
<1>4. CASE NextCallback(x)
    BY <1>0, <1>1, <1>4 DEF NextCallback, GoTo, Passes
<1>5. CASE LeaveUnit(x)
    BY <1>0, <1>1, <1>5 DEF LeaveUnit, GoTo, Passes
<1>6. CASE \E u \in Units \cup {NoUnit} : BeginEnding(x, u)
    BY <1>0, <1>1, <1>6 DEF BeginEnding, GoTo, Passes
<1>7. CASE \E y \in Contexts : CopyContext(x, y)
    BY <1>0, <1>1, <1>7 DEF CopyContext, flowVars, Passes
<1>. QED
    BY <1>2, <1>3, <1>4, <1>5, <1>6, <1>7 DEF Elsewhere, UnitStep, UnitCall

\* There is no other step.
LEMMA NextIs == Next => \E x \in Contexts : Moves(x) \/ Elsewhere(x)
  BY DEF Next, Step, Moves, Elsewhere

\* The invariants of the units are kept.
LEMMA UnitsKept ==
    ASSUME Typed, NEW x \in Contexts, Moves(x) \/ Elsewhere(x)
    PROVE  UnitInv(CrossedPhases)' /\ (Alone => Alone')
<1>0. UnitInv(CrossedPhases) /\ {"idle", "create", "register", "ending", "flush"} \subseteq CrossedPhases
    BY DEF Typed, CrossedPhases
<1>1. CASE Moves(x)
    BY <1>0, <1>1, MovesAre, MoveKeeps, AloneMoves
<1>2. CASE CreateState(x)
    BY <1>0, <1>2, CreateKeeps, AloneCreate
<1>3. CASE RegisterState(x)
    BY <1>0, <1>3, RegisterKeeps, AloneRegister
<1>4. CASE NextCallback(x)
    BY <1>0, <1>4, CallbackKeeps, AloneCallback
<1>5. CASE LeaveUnit(x)
    BY <1>0, <1>5, LeaveKeeps, AloneLeave
<1>6. CASE UnitCall(x)
    BY <1>0, <1>6, CallKeeps, AloneCall
<1>. QED
    BY <1>1, <1>2, <1>3, <1>4, <1>5, <1>6 DEF Elsewhere, UnitStep

-----------------------------------------------------------------------------
(* Types, by the step *)

\* A context left alone keeps what it has in hand.
LEMMA HandLeft ==
    ASSUME NEW y \in Contexts, HandAt(y), pc'[y] = pc[y], todo'[y] = todo[y],
           rec'[y] = rec[y], pending'[y] = pending[y], slot'[y] = slot[y]
    PROVE  HandAt(y)'
  BY DEF HandAt

\* The types of the records in their places.
Stuff ==
    /\ buffer \in [States -> Seq(Records)] /\ buffering \in [States -> BOOLEAN]
    /\ \A s \in States : setup.limit > 0 => Len(buffer[s]) <= setup.limit
    /\ rec \in [Contexts -> Records \cup {NoRecord}]
    /\ pending \in [Contexts -> Seq(Records)]
    /\ forwarded \in Seq(Records) /\ dropped \subseteq Records
    /\ story \in [Homes -> Seq(Records)]
    /\ activated \subseteq Homes

\* Each step keeps the types of the handler's variables.
LEMMA StuffKept ==
    ASSUME Typed, NEW x \in Contexts, Moves(x) \/ Elsewhere(x)
    PROVE  Stuff'
<1>0. Stuff
    BY DEF Typed, TypeOK, Stuff
<1>1. CASE Elsewhere(x)
    <2>1. Passes(x)
        BY <1>1, ElsewhereDoes
    <2>. QED
        BY <1>0, <2>1 DEF Stuff, Passes, crossedVars
<1>. SUFFICES ASSUME Moves(x) PROVE Stuff'
    BY <1>1
<1>2. setup' = setup
    BY MovesDo DEF Stays
<1>3. ASSUME NEW r \in Records, Begun(x, r) PROVE Stuff'
    <2>1. Append(story[current[x]], r) \in Seq(Records)
        BY <1>3 DEF Begun
    <2>. QED
        BY <1>0, <1>2, <1>3, <2>1 DEF Stuff, Begun
<1>4. CASE HasRead(x)
    BY <1>0, <1>2, <1>4 DEF Stuff, HasRead, crossedVars
<1>5. CASE Appended(x)
    <2>1. PICK q \in Seq(Records) :
              /\ buffer' = [buffer EXCEPT ![mine[x]] = q] /\ mine[x] \in States
              /\ setup.limit > 0 => Len(q) <= setup.limit
              /\ dropped' \subseteq Records
        <3>1. Append(buffer[mine[x]], rec[x]) \in Seq(Records) /\ mine[x] \in States
            BY <1>5 DEF Appended
        <3>2. buffer[mine[x]] # <<>> =>
                  /\ Append(Tail(buffer[mine[x]]), rec[x]) \in Seq(Records)
                  /\ Head(buffer[mine[x]]) \in Records
            BY <1>5 DEF Appended
        <3>3. dropped \subseteq Records
              /\ (setup.limit > 0 => Len(buffer[mine[x]]) <= setup.limit)
            BY <1>0, <3>1 DEF Stuff
        <3>. QED
            BY <1>5, <3>1, <3>2, <3>3 DEF Appended
    <2>2. UNCHANGED <<buffering, rec, pending, forwarded, story, activated>>
        BY <1>5 DEF Appended
    <2>. QED
        BY <1>0, <1>2, <2>1, <2>2 DEF Stuff
<1>6. CASE Decided(x)
    <2>1. current[x] \in Homes
        BY Holds
    <2>. QED
        BY <1>0, <1>2, <1>6, <2>1 DEF Stuff, Decided
<1>7. CASE Passed(x)
    <2>1. Append(forwarded, rec[x]) \in Seq(Records)
        BY <1>0, <1>7 DEF Stuff, Passed
    <2>. QED
        BY <1>0, <1>2, <1>7, <2>1 DEF Stuff, Passed
<1>8. <<>> \in Seq(Records) /\ Len(<<>>) = 0
    OBVIOUS
<1>9. setup.limit > 0 => 0 <= setup.limit
    BY CrossedAssumption DEF Typed, TypeOK, UnitTypeOK
<1>10. CASE Swapped(x)
    BY <1>0, <1>2, <1>8, <1>9, <1>10 DEF Stuff, Swapped
<1>11. CASE Flushed(x)
    <2>1. buffer[mine[x]] \in Seq(Records)
        BY <1>11 DEF Flushed
    <2>2. Selected(buffer[mine[x]], Floor) \in Seq(Records \cap Floor)
        BY <2>1, SelectedTyped
    <2>3. Selected(buffer[mine[x]], Floor) \in Seq(Records)
        BY <2>2, SeqMonotonic
    <2>4. Range(buffer[mine[x]]) \subseteq Records
        BY <2>1 DEF Range
    <2>. QED
        BY <1>0, <1>2, <1>8, <1>9, <1>11, <2>3, <2>4 DEF Stuff, Flushed
<1>12. CASE Cleared(x)
    <2>1. Range(buffer[mine[x]]) \subseteq Records
        BY <1>12 DEF Cleared, Range
    <2>. QED
        BY <1>0, <1>2, <1>8, <1>9, <1>12, <2>1 DEF Stuff, Cleared
<1>13. CASE Forwarded(x)
    <2>1. forwarded \o pending[x] \in Seq(Records)
        BY <1>0, <1>13 DEF Stuff, Forwarded
    <2>. QED
        BY <1>0, <1>2, <1>8, <1>13, <2>1 DEF Stuff, Forwarded
<1>14. CASE Called(x)
    <2>1. current[x] \in Homes
        BY Holds
    <2>2. activated' \subseteq Homes
        BY <1>0, <1>14, <2>1 DEF Stuff, Called
    <2>. QED
        BY <1>0, <1>2, <1>14, <2>2 DEF Stuff, Called
<1>. QED
    BY <1>3, <1>4, <1>5, <1>6, <1>7, <1>10, <1>11, <1>12, <1>13, <1>14, MovesDo

\* Each step keeps what a context may hold at each place of the code.
LEMMA HandsKept ==
    ASSUME Typed, NEW x \in Contexts, Moves(x) \/ Elsewhere(x), NEW y \in Contexts
    PROVE  HandAt(y)'
<1>0. /\ rec \in [Contexts -> Records \cup {NoRecord}] /\ pending \in [Contexts -> Seq(Records)]
      /\ pc \in [Contexts -> CrossedPhases]
      /\ HandAt(x) /\ HandAt(y)
    BY DEF Typed, TypeOK
<1>1. CASE Elsewhere(x)
    <2>1. Passes(x)
        BY <1>1, ElsewhereDoes
    <2>2. CASE y # x
        BY <1>0, <2>1, <2>2, HandLeft DEF Passes, crossedVars
    <2>3. HandAt(x)'
        <3>1. slot[x] \in Nat
            BY Holds
        <3>. QED
            BY <1>0, <2>1, <3>1 DEF HandAt, Passes, crossedVars
    <2>. QED
        BY <2>2, <2>3
<1>. SUFFICES ASSUME Moves(x) PROVE HandAt(y)'
    BY <1>1
<1>2. Stays(x)
    BY MovesDo
<1>3. CASE y # x
    <2>1. rec'[y] = rec[y] /\ pending'[y] = pending[y]
        BY <1>0, <1>3, MovesDo DEF Begun, HasRead, Appended, Decided, Passed,
           Swapped, Flushed, Cleared, Forwarded, Called, crossedVars
    <2>. QED
        BY <1>0, <1>2, <1>3, <2>1, HandLeft DEF Stays
<1>4. CASE y = x
    <2>. SUFFICES HandAt(x)'
        BY <1>4
    <2>1. slot'[x] = slot[x] /\ slot[x] \in Nat /\ NoRecord \notin Records
          /\ (pc[x] # "forward" => pending[x] = <<>>)
        BY <1>2, Holds, CrossedAssumption DEF Stays
    <2>2. ASSUME NEW r \in Records, Begun(x, r) PROVE HandAt(x)'
        BY <1>0, <2>1, <2>2 DEF HandAt, Begun
    <2>3. CASE HasRead(x)
        BY <1>0, <2>1, <2>3 DEF HandAt, HasRead, crossedVars
    <2>4. CASE Appended(x)
        BY <1>0, <2>1, <2>4 DEF HandAt, Appended
    <2>5. CASE Decided(x)
        BY <1>0, <2>1, <2>5 DEF HandAt, Decided
    <2>6. CASE Passed(x)
        BY <1>0, <2>1, <2>6 DEF HandAt, Passed
    <2>7. CASE Swapped(x)
        BY <1>0, <2>1, <2>7 DEF HandAt, Swapped
    <2>8. CASE Flushed(x)
        BY <1>0, <2>1, <2>8 DEF HandAt, Flushed
    <2>9. CASE Cleared(x)
        BY <1>0, <2>1, <2>9 DEF HandAt, Cleared
    <2>10. CASE Forwarded(x)
        BY <1>0, <2>1, <2>10 DEF HandAt, Forwarded
    <2>11. CASE Called(x)
        BY <1>0, <2>1, <2>11 DEF HandAt, Called
    <2>. QED
        BY <2>2, <2>3, <2>4, <2>5, <2>6, <2>7, <2>8, <2>9, <2>10, <2>11, MovesDo
<1>. QED
    BY <1>3, <1>4

\* The types are inductive.
LEMMA TypedNext == Typed /\ [Next]_vars => Typed'
<1>. SUFFICES ASSUME Typed, [Next]_vars PROVE Typed'
    OBVIOUS
<1>1. CASE Next
    <2>1. PICK x \in Contexts : Moves(x) \/ Elsewhere(x)
        BY <1>1, NextIs
    <2>2. UnitInv(CrossedPhases)' /\ Stuff' /\ \A y \in Contexts : HandAt(y)'
        BY <2>1, UnitsKept, StuffKept, HandsKept
    <2>. QED
        BY <2>2 DEF Typed, TypeOK, UnitInv, UnitTyped, Stuff
<1>2. CASE UNCHANGED vars
    <2>1. UnitInv(CrossedPhases)'
        BY <1>2 DEF Typed, UnitInv, UnitTyped, UnitTypeOK, StatesAreOwn, PhasesAt,
                    vars, unitVars, flowVars, crossedVars
    <2>. QED
        BY <1>2, <2>1 DEF Typed, TypeOK, UnitInv, UnitTyped, HandAt, vars, unitVars, flowVars, crossedVars
<1>. QED
    BY <1>1, <1>2

\* So is it that no unit has two contexts, where none is shared.
LEMMA AloneNext == Typed /\ Alone /\ [Next]_vars => Alone'
<1>. SUFFICES ASSUME Typed, Alone, [Next]_vars PROVE Alone'
    OBVIOUS
<1>1. CASE Next
    <2>1. PICK x \in Contexts : Moves(x) \/ Elsewhere(x)
        BY <1>1, NextIs
    <2>. QED
        BY <2>1, UnitsKept
<1>2. CASE UNCHANGED vars
    BY <1>2 DEF Alone, SoloAt, OneState, vars, unitVars, flowVars
<1>. QED
    BY <1>1, <1>2

-----------------------------------------------------------------------------
(* Where the records of a unit are *)

\* What is in hand, in the buffer or in the batch of a context.
Near(x) == (IF rec[x] = NoRecord THEN {} ELSE {rec[x]}) \cup Range(buffer[mine[x]]) \cup Range(pending[x])

\* Records move within the reach of one context.
Flow(x) ==
    /\ story' = story
    /\ \A s \in States :
           Range(buffer'[s]) \subseteq Range(buffer[s]) \cup (IF s = mine[x] THEN Near(x) ELSE {})
    /\ \A y \in Contexts :
           /\ Range(pending'[y]) \subseteq Range(pending[y]) \cup (IF y = x THEN Near(x) ELSE {})
           /\ rec'[y] \in {rec[y], NoRecord}
    /\ Range(forwarded') \subseteq Range(forwarded) \cup Near(x)
    /\ dropped' \subseteq dropped \cup Near(x)

\* But for a new record, a step moves only what is near its context.
LEMMA Flows ==
    ASSUME Typed, NEW x \in Contexts, Moves(x), ~\E r \in Records : Begun(x, r)
    PROVE  Flow(x)
<1>0. /\ buffer \in [States -> Seq(Records)] /\ pending \in [Contexts -> Seq(Records)]
      /\ rec \in [Contexts -> Records \cup {NoRecord}] /\ forwarded \in Seq(Records)
      /\ Range(<<>>) = {}
    BY SortedEmpty DEF Typed, TypeOK
<1>1. CASE HasRead(x)
    BY <1>1 DEF HasRead, Flow, crossedVars
<1>2. CASE Appended(x)
    <2>1. /\ Range(Append(buffer[mine[x]], rec[x])) \subseteq Near(x)
          /\ buffer[mine[x]] # <<>> =>
                 /\ Range(Append(Tail(buffer[mine[x]]), rec[x])) \subseteq Near(x)
                 /\ Head(buffer[mine[x]]) \in Near(x)
        <3>. DEFINE b == buffer[mine[x]]
        <3>1. b \in Seq(Records) /\ rec[x] \in Records /\ rec[x] # NoRecord
            BY <1>2, CrossedAssumption DEF Appended
        <3>2. Range(Append(b, rec[x])) = Range(b) \cup {rec[x]}
            BY <3>1, RangeAppend
        <3>3. ASSUME b # <<>>
              PROVE  /\ Range(b) = {Head(b)} \cup Range(Tail(b))
                     /\ Range(Append(Tail(b), rec[x])) = Range(Tail(b)) \cup {rec[x]}
            <4>1. Tail(b) \in Seq(Records)
                BY <3>1, <3>3
            <4>. HIDE DEF b
            <4>2. Range(b) = {Head(b)} \cup Range(Tail(b))
                BY <3>1, <3>3, RangeTail
            <4>3. Range(Append(Tail(b), rec[x])) = Range(Tail(b)) \cup {rec[x]}
                BY <3>1, <4>1, RangeAppend
            <4>. QED
                BY <4>2, <4>3
        <3>. QED
            BY <3>1, <3>2, <3>3 DEF Near
    <2>. QED
        BY <1>0, <1>2, <2>1 DEF Appended, Flow
<1>3. CASE Decided(x)
    BY <1>0, <1>3 DEF Decided, Flow
<1>4. CASE Passed(x)
    <2>1. Range(Append(forwarded, rec[x])) = Range(forwarded) \cup {rec[x]} /\ rec[x] # NoRecord
        BY <1>0, <1>4, RangeAppend, CrossedAssumption DEF Passed
    <2>. QED
        BY <1>0, <1>4, <2>1 DEF Passed, Flow, Near
<1>5. CASE Swapped(x)
    BY <1>0, <1>5 DEF Swapped, Flow, Near
<1>6. CASE Flushed(x)
    <2>1. Range(Selected(buffer[mine[x]], Floor)) = Range(buffer[mine[x]]) \cap Floor
        BY <1>6, SelectedRange DEF Flushed
    <2>. QED
        BY <1>0, <1>6, <2>1 DEF Flushed, Flow, Near
<1>7. CASE Cleared(x)
    BY <1>0, <1>7 DEF Cleared, Flow, Near
<1>8. CASE Forwarded(x)
    <2>1. Range(forwarded \o pending[x]) = Range(forwarded) \cup Range(pending[x])
        BY <1>0, RangeConcatenation, Holds
    <2>. QED
        BY <1>0, <1>8, <2>1 DEF Forwarded, Flow, Near
<1>9. CASE Called(x)
    BY <1>0, <1>9 DEF Called, Flow
<1>. QED
    BY <1>1, <1>2, <1>3, <1>4, <1>5, <1>6, <1>7, <1>8, <1>9, MovesDo

\* A story grows by the record that is logged.
LEMMA StoryGrows ==
    ASSUME Typed, NEW x \in Contexts, NEW r \in Records, Begun(x, r)
    PROVE  /\ \A u \in Homes : Range(story'[u]) =
                  Range(story[u]) \cup (IF u = current[x] THEN {r} ELSE {})
           /\ \A u \in Homes : r \notin Range(story[u])
           /\ Logged' = Logged \cup {r}
<1>1. story \in [Homes -> Seq(Records)] /\ current[x] \in Homes
    BY Holds DEF Typed, TypeOK
<1>2. ASSUME NEW u \in Homes
      PROVE  /\ Range(story'[u]) = Range(story[u]) \cup (IF u = current[x] THEN {r} ELSE {})
             /\ r \notin Range(story[u])
    <2>1. Range(Append(story[u], r)) = Range(story[u]) \cup {r}
        BY <1>1, RangeAppend
    <2>2. r \notin Range(story[u])
        BY DEF Begun, Logged
    <2>. QED
        BY <1>1, <2>1, <2>2 DEF Begun
<1>. QED
    BY <1>1, <1>2 DEF Logged

\* No record has been logged: none is in the wrong home.
LEMMA HomelyInit == Init => Homely
<1>1. Range(<<>>) = {}
    BY SortedEmpty
<1>. QED
    BY <1>1, StateIsPair DEF Init, UnitInit, Homely, Homes, HomeOf

\* No step takes a record out of the story it was logged in.
LEMMA HomelyNext == Typed /\ Homely /\ [Next]_vars => Homely'
<1>. SUFFICES ASSUME Typed, Homely, [Next]_vars PROVE Homely'
    OBVIOUS
<1>0. /\ story \in [Homes -> Seq(Records)] /\ \A s \in States : HomeOf(s) \in Homes
      /\ rec \in [Contexts -> Records \cup {NoRecord}]
    BY StateIsPair DEF Typed, TypeOK, HomeOf, Homes
<1>1. ASSUME NEW x \in Contexts, Elsewhere(x) PROVE Homely'
    <2>1. Passes(x)
        BY <1>1, ElsewhereDoes
    <2>2. ASSUME NEW y \in Contexts, current'[y] # current[y]
          PROVE  pending[y] = <<>> /\ rec[y] = NoRecord
        BY <2>1, <2>2, Holds DEF Passes
    <2>3. ASSUME NEW y \in Contexts
          PROVE  /\ Range(pending[y]) \subseteq Range(story[current'[y]])
                 /\ rec[y] # NoRecord => rec[y] \in Range(story[current'[y]])
        BY <2>2, SortedEmpty DEF Homely
    <2>4. \A s \in States : HomeOf(s)' = HomeOf(s)
        BY DEF HomeOf
    <2>5. UNCHANGED <<story, buffer, pending, rec, forwarded, dropped>>
        BY <2>1 DEF Passes, crossedVars
    <2>. QED
        BY <2>3, <2>4, <2>5 DEF Homely, Logged
<1>2. ASSUME NEW x \in Contexts, Moves(x), NEW r \in Records, Begun(x, r) PROVE Homely'
    <2>1. current' = current
        BY <1>2, MovesDo DEF Stays
    <2>2. /\ \A u \in Homes : Range(story'[u]) =
                 Range(story[u]) \cup (IF u = current[x] THEN {r} ELSE {})
          /\ \A u \in Homes : r \notin Range(story[u])
          /\ Logged' = Logged \cup {r}
        BY <1>2, StoryGrows
    <2>3. /\ rec' = [rec EXCEPT ![x] = r] /\ UNCHANGED <<buffer, pending, forwarded, dropped>>
          /\ current[x] \in Homes
        BY <1>2 DEF Begun
    <2>4. \A y \in Contexts : current[y] \in Homes
        BY Holds
    <2>5. \A u, v \in Homes : u # v => Range(story'[u]) \cap Range(story'[v]) = {}
        BY <2>2 DEF Homely
    <2>6. /\ \A u \in Homes : Range(story[u]) \subseteq Range(story'[u])
          /\ r \in Range(story'[current[x]])
        BY <2>2, <2>3
    <2>7. /\ \A s \in States : Range(buffer'[s]) \subseteq Range(story'[HomeOf(s)])
          /\ \A y \in Contexts : Range(pending'[y]) \subseteq Range(story'[current'[y]])
          /\ \A y \in Contexts : rec'[y] # NoRecord => rec'[y] \in Range(story'[current'[y]])
        <3>1. ASSUME NEW s \in States PROVE Range(buffer'[s]) \subseteq Range(story'[HomeOf(s)])
            BY <1>0, <2>3, <2>6 DEF Homely
        <3>2. ASSUME NEW y \in Contexts PROVE Range(pending'[y]) \subseteq Range(story'[current'[y]])
            BY <2>1, <2>3, <2>4, <2>6 DEF Homely
        <3>3. ASSUME NEW y \in Contexts, rec'[y] # NoRecord
              PROVE  rec'[y] \in Range(story'[current'[y]])
            BY <1>0, <2>1, <2>3, <2>4, <2>6, <3>3 DEF Homely
        <3>. QED
            BY <3>1, <3>2, <3>3
    <2>8. Range(forwarded') \cup dropped' \subseteq Logged'
        BY <2>2, <2>3 DEF Homely
    <2>. QED
        BY <2>5, <2>6, <2>7, <2>8 DEF Homely, HomeOf
<1>3. ASSUME NEW x \in Contexts, Moves(x), ~\E r \in Records : Begun(x, r) PROVE Homely'
    <2>1. Flow(x) /\ current' = current /\ \A s \in States : HomeOf(s)' = HomeOf(s)
        BY <1>3, Flows, MovesDo DEF Stays, HomeOf
    <2>2. CASE Called(x)
        BY <2>1, <2>2 DEF Called, Homely, Logged
    <2>3. CASE ~Called(x)
        <3>1. Near(x) \subseteq Range(story[current[x]]) /\ HomeOf(mine[x]) = current[x]
            <4>1. pc[x] \in {"read", "append", "decide", "pass", "swap", "flush", "clear", "forward"}
                BY <1>3, <2>3, MovesDo
                   DEF HasRead, Appended, Decided, Passed, Swapped, Flushed, Cleared, Forwarded
            <4>2. HomeOf(mine[x]) = current[x]
                BY <4>1 DEF Typed, UnitInv, PhasesAt, Outside
            <4>3. /\ Range(buffer[mine[x]]) \subseteq Range(story[current[x]])
                  /\ Range(pending[x]) \subseteq Range(story[current[x]])
                  /\ rec[x] # NoRecord => rec[x] \in Range(story[current[x]])
                BY <4>2, Holds DEF Homely
            <4>. QED
                BY <4>2, <4>3 DEF Near
        <3>2. Near(x) \subseteq Logged
            BY <3>1, Holds DEF Logged
        <3>3. Logged' = Logged
            BY <2>1 DEF Flow, Logged
        <3>4. ASSUME NEW s \in States PROVE Range(buffer'[s]) \subseteq Range(story[HomeOf(s)])
            BY <2>1, <3>1 DEF Flow, Homely
        <3>5. ASSUME NEW y \in Contexts PROVE Range(pending'[y]) \subseteq Range(story[current[y]])
            BY <2>1, <3>1 DEF Flow, Homely
        <3>6. ASSUME NEW y \in Contexts, rec'[y] # NoRecord
              PROVE  rec'[y] \in Range(story[current[y]])
            BY <2>1, <3>6 DEF Flow, Homely
        <3>7. Range(forwarded') \cup dropped' \subseteq Logged'
            BY <2>1, <3>2, <3>3 DEF Flow, Homely
        <3>8. story' = story /\ \A u, v \in Homes : u # v => Range(story[u]) \cap Range(story[v]) = {}
            BY <2>1 DEF Flow, Homely
        <3>. QED
            BY <2>1, <3>4, <3>5, <3>6, <3>7, <3>8 DEF Homely
    <2>. QED
        BY <2>2, <2>3
<1>4. CASE UNCHANGED vars
    BY <1>4 DEF Homely, Logged, HomeOf, vars, unitVars, crossedVars
<1>. QED
    BY <1>1, <1>2, <1>3, <1>4, NextIs

\* A context in the code of the handler is in a state of its unit.
LEMMA AtHome ==
    ASSUME Typed, NEW x \in Contexts, pc[x] \notin Outside
    PROVE  HomeOf(mine[x]) = current[x]
  BY DEF Typed, UnitInv, PhasesAt

\* Nothing has been written before any alarm.
LEMMA QuietInit == Init => Quiet
<1>1. Range(<<>>) = {}
    BY SortedEmpty
<1>. QED
    BY <1>1 DEF Init, UnitInit, Quiet, SilentUnlessActivated

\* Nothing is written of a unit that was not activated.
LEMMA QuietNext == Typed /\ Homely /\ Quiet /\ [Next]_vars => Quiet'
<1>. SUFFICES ASSUME Typed, Homely, Quiet, [Next]_vars PROVE Quiet'
    OBVIOUS
<1>0. \A s \in States : HomeOf(s)' = HomeOf(s)
    BY DEF HomeOf
<1>15. /\ buffering \in [States -> BOOLEAN] /\ pending \in [Contexts -> Seq(Records)]
      /\ forwarded \in Seq(Records)
    BY DEF Typed, TypeOK
<1>1. ASSUME NEW x \in Contexts, Elsewhere(x) PROVE Quiet'
    <2>1. Passes(x)
        BY <1>1, ElsewhereDoes
    <2>2. ASSUME NEW y \in Contexts,
                 \/ pc'[y] \in {"pass", "swap"}
                 \/ pc'[y] \in {"create", "register"} /\ todo'[y] = "swap"
                 \/ ~(Range(pending[y]) \subseteq Floor)
          PROVE  current'[y] \in activated
        <3>1. current'[y] = current[y]
            BY <2>1, <2>2, Holds, SortedEmpty DEF Passes
        <3>2. \/ pc[y] \in {"pass", "swap"}
              \/ pc[y] \in {"create", "register"} /\ todo[y] = "swap"
              \/ ~(Range(pending[y]) \subseteq Floor)
            BY <2>1, <2>2 DEF Passes, Typed, HandAt
        <3>. QED
            BY <3>1, <3>2 DEF Quiet
    <2>. QED
        BY <1>0, <2>1, <2>2 DEF Quiet, SilentUnlessActivated, Passes, crossedVars
<1>. SUFFICES ASSUME NEW x \in Contexts, Moves(x) PROVE Quiet'
    <2>1. CASE UNCHANGED vars
        BY <2>1 DEF Quiet, SilentUnlessActivated, HomeOf, vars, unitVars, flowVars, crossedVars
    <2>. QED
        BY <1>1, <2>1, NextIs
<1>2. Stays(x) /\ current[x] \in Homes
    BY MovesDo, Holds
\* Only what the context does can disturb the first two parts.
<1>3. ASSUME /\ \A s \in States : ~buffering'[s] => ~buffering[s] \/ HomeOf(s) \in activated'
             /\ activated \subseteq activated'
             /\ \A y \in Contexts : y # x => pending'[y] = pending[y]
             /\ \/ pc'[x] \in {"pass", "swap"}
                \/ pc'[x] \in {"create", "register"} /\ todo'[x] = "swap"
                \/ ~(Range(pending'[x]) \subseteq Floor)
                => current[x] \in activated'
             /\ SilentUnlessActivated'
      PROVE  Quiet'
    <2>1. ASSUME NEW y \in Contexts,
                 \/ pc'[y] \in {"pass", "swap"}
                 \/ pc'[y] \in {"create", "register"} /\ todo'[y] = "swap"
                 \/ ~(Range(pending'[y]) \subseteq Floor)
          PROVE  current'[y] \in activated'
        <3>1. CASE y = x
            BY <1>2, <1>3, <2>1, <3>1 DEF Stays
        <3>2. CASE y # x
            BY <1>2, <1>3, <2>1, <3>2 DEF Stays, Quiet
        <3>. QED
            BY <3>1, <3>2
    <2>. QED
        BY <1>0, <1>3, <2>1 DEF Quiet
<1>4. ASSUME story' = story, activated \subseteq activated',
             \A r \in Records : r \in Range(forwarded') \ Floor =>
                 \/ r \in Range(forwarded)
                 \/ r \in Range(story[current[x]]) /\ current[x] \in activated
      PROVE  SilentUnlessActivated'
    <2>. SUFFICES ASSUME NEW u \in Homes, NEW r \in Range(story[u]) \ Floor, r \in Range(forwarded')
                  PROVE  u \in activated'
        BY <1>4 DEF SilentUnlessActivated
    <2>1. r \in Records
        BY DEF Typed, TypeOK, Range
    <2>2. CASE r \in Range(forwarded)
        BY <1>4, <2>2 DEF Quiet, SilentUnlessActivated
    <2>3. CASE r \in Range(story[current[x]]) /\ current[x] \in activated
        BY <1>2, <1>4, <2>3 DEF Homely
    <2>. QED
        BY <1>4, <2>1, <2>2, <2>3
<1>5. ASSUME NEW r \in Records, Begun(x, r) PROVE Quiet'
    <2>1. SilentUnlessActivated'
        <3>. SUFFICES ASSUME NEW u \in Homes, NEW q \in Range(story'[u]) \ Floor, q \in Range(forwarded')
                      PROVE  u \in activated'
            BY DEF SilentUnlessActivated
        <3>1. forwarded' = forwarded /\ activated' = activated
            BY <1>5 DEF Begun
        <3>2. q # r
            BY <1>5, <3>1 DEF Homely, Begun
        <3>3. q \in Range(story[u])
            BY <1>5, <3>2, StoryGrows
        <3>. QED
            BY <3>1, <3>3 DEF Quiet, SilentUnlessActivated
    <2>. QED
        BY <1>3, <1>5, <2>1, Holds, SortedEmpty DEF Begun
<1>6. CASE HasRead(x)
    <2>1. HomeOf(mine[x]) = current[x] /\ mine[x] \in States
        BY <1>6, AtHome, Holds DEF HasRead, Outside
    <2>2. SilentUnlessActivated'
        BY <1>4, <1>6 DEF HasRead, crossedVars
    <2>3. pending[x] = <<>>
        BY <1>6, Holds DEF HasRead
    <2>4. pc'[x] = "pass" => current[x] \in activated
        BY <1>6, <2>1 DEF HasRead, Quiet
    <2>5. pc'[x] \in {"append", "pass"} /\ UNCHANGED crossedVars
        BY <1>6 DEF HasRead
    <2>. QED
        BY <1>3, <2>2, <2>3, <2>4, <2>5, SortedEmpty DEF crossedVars
<1>7. CASE Appended(x)
    <2>1. SilentUnlessActivated'
        BY <1>4, <1>7 DEF Appended
    <2>2. pending[x] = <<>> /\ pc'[x] = "decide"
        BY <1>7, Holds DEF Appended, Typed, TypeOK
    <2>. QED
        BY <1>3, <1>7, <2>1, <2>2, SortedEmpty DEF Appended
<1>8. CASE Decided(x)
    <2>1. SilentUnlessActivated'
        BY <1>4, <1>8 DEF Decided
    <2>2. pending[x] = <<>>
        BY <1>8, Holds DEF Decided
    <2>. QED
        BY <1>3, <1>8, <2>1, <2>2, SortedEmpty DEF Decided
<1>9. CASE Passed(x)
    <2>1. current[x] \in activated /\ rec[x] \in Range(story[current[x]])
        BY <1>9, CrossedAssumption DEF Passed, Quiet, Homely
    <2>2. Range(forwarded') = Range(forwarded) \cup {rec[x]}
        BY <1>9, <1>15, RangeAppend DEF Passed
    <2>3. SilentUnlessActivated'
        BY <1>4, <1>9, <2>1, <2>2 DEF Passed
    <2>. QED
        BY <1>3, <1>9, <2>1, <2>3 DEF Passed
<1>10. CASE Swapped(x)
    <2>1. HomeOf(mine[x]) = current[x] /\ mine[x] \in States /\ current[x] \in activated
        BY <1>10, AtHome DEF Swapped, Outside, Quiet
    <2>2. SilentUnlessActivated'
        BY <1>4, <1>10 DEF Swapped
    <2>3. \A s \in States : ~buffering'[s] => ~buffering[s] \/ HomeOf(s) \in activated'
        BY <1>10, <1>15, <2>1 DEF Swapped
    <2>4. \A y \in Contexts : y # x => pending'[y] = pending[y]
        BY <1>10, <1>15 DEF Swapped
    <2>. QED
        BY <1>3, <1>10, <2>1, <2>2, <2>3, <2>4 DEF Swapped
<1>11. CASE Flushed(x)
    <2>1. SilentUnlessActivated'
        BY <1>4, <1>11 DEF Flushed
    <2>2. \A s \in States : ~buffering'[s] => ~buffering[s] \/ HomeOf(s) \in activated'
        BY <1>11, <1>15 DEF Flushed
    <2>3. /\ \A y \in Contexts : y # x => pending'[y] = pending[y]
          /\ pending'[x] = Selected(buffer[mine[x]], Floor)
        BY <1>11, <1>15 DEF Flushed
    <2>4. Range(Selected(buffer[mine[x]], Floor)) \subseteq Floor
        BY <1>11, SelectedRange DEF Flushed
    <2>5. pc'[x] \in {"forward", "idle", "ending"} /\ activated' = activated
        BY <1>11 DEF Flushed
    <2>. QED
        BY <1>3, <2>1, <2>2, <2>3, <2>4, <2>5
<1>12. CASE Cleared(x)
    <2>1. SilentUnlessActivated'
        BY <1>4, <1>12 DEF Cleared
    <2>2. \A s \in States : ~buffering'[s] => ~buffering[s] \/ HomeOf(s) \in activated'
        BY <1>12, <1>15 DEF Cleared
    <2>3. pending[x] = <<>>
        BY <1>12, Holds DEF Cleared
    <2>. QED
        BY <1>3, <1>12, <2>1, <2>2, <2>3, SortedEmpty DEF Cleared
<1>13. CASE Forwarded(x)
    <2>1. Range(forwarded') = Range(forwarded) \cup Range(pending[x])
        BY <1>13, <1>15, RangeConcatenation DEF Forwarded
    <2>2. \A r \in Range(pending[x]) \ Floor :
              r \in Range(story[current[x]]) /\ current[x] \in activated
        BY DEF Quiet, Homely
    <2>3. SilentUnlessActivated'
        BY <1>4, <1>13, <2>1, <2>2 DEF Forwarded
    <2>4. /\ \A y \in Contexts : y # x => pending'[y] = pending[y]
          /\ pending'[x] = <<>>
        BY <1>13, <1>15 DEF Forwarded
    <2>5. pc'[x] \in {"idle", "ending"} /\ activated' = activated /\ buffering' = buffering
        BY <1>13 DEF Forwarded
    <2>. QED
        BY <1>3, <2>3, <2>4, <2>5, SortedEmpty
<1>14. CASE Called(x)
    <2>1. activated \subseteq activated'
        BY <1>14 DEF Called
    <2>2. SilentUnlessActivated'
        BY <1>4, <1>14, <2>1 DEF Called
    <2>3. pending[x] = <<>>
        BY <1>14, Holds DEF Called
    <2>. QED
        BY <1>3, <1>14, <2>1, <2>2, <2>3, SortedEmpty DEF Called
<1>. QED
    BY <1>5, <1>6, <1>7, <1>8, <1>9, <1>10, <1>11, <1>12, <1>13, <1>14, MovesDo

-----------------------------------------------------------------------------
(* What is held back in a unit of one context *)

\* Two contexts do not meet in a state.
LEMMA OwnState ==
    ASSUME Typed, Alone, ~setup.sharing, NEW x \in Contexts
    PROVE  /\ current[x] # NoUnit => \A y \in Contexts : y # x => current[y] # current[x]
           /\ pc[x] \notin Outside =>
                  /\ current[x] \in Units /\ mine[x] = kept[current[x]] /\ mine[x] # Instance
                  /\ mine[x] \in UnitStates /\ mine[x][1] = current[x]
                  /\ \A u \in Units : u # current[x] => kept[u] # mine[x]
                  /\ \A y \in Contexts : y # x /\ pc[y] \notin Outside => mine[y] # mine[x]
<1>1. SoloAt(x) /\ \A y \in Contexts : SoloAt(y)
    BY DEF Alone
<1>2. \A u \in Units : kept[u] \in States /\ (kept[u] # Instance => kept[u][1] = u)
    BY DEF Typed, UnitInv, StatesAreOwn, UnitTyped, UnitTypeOK
<1>3. ASSUME pc[x] \notin Outside
      PROVE  /\ current[x] \in Units /\ mine[x] = kept[current[x]] /\ mine[x] # Instance
             /\ mine[x] \in UnitStates /\ mine[x][1] = current[x]
             /\ \A u \in Units : u # current[x] => kept[u] # mine[x]
             /\ current[x] # NoUnit
    BY <1>1, <1>2, <1>3, StateIsPair, UnitAssumption DEF SoloAt
<1>4. ASSUME pc[x] \notin Outside, NEW y \in Contexts, y # x, pc[y] \notin Outside
      PROVE  mine[y] # mine[x]
    <2>1. current[y] # current[x] /\ current[y] \in Units /\ mine[y] = kept[current[y]]
        BY <1>1, <1>3, <1>4 DEF SoloAt
    <2>. QED
        BY <1>3, <1>4, <2>1
<1>. QED
    BY <1>1, <1>3, <1>4 DEF SoloAt

\* Nothing is held back at the start.
LEMMA HeldBackInit == Init => HeldBack
  BY DEF Init, UnitInit, HeldBack

\* What HeldBack says of a state, and of a context.
HeldIn(s) ==
    /\ buffer[s] # <<>> => s # Instance /\ s = kept[s[1]] /\ \E x \in Contexts : current[x] = s[1]
    /\ ~buffering[s] => buffer[s] = <<>>

HeldBy(x) ==
    /\ pc[x] = "append" => buffering[mine[x]]
    /\ pc[x] = "pass" => ~buffering[mine[x]]
    /\ pc[x] = "forward" => buffer[mine[x]] = <<>>
    /\ pc[x] = "ending" /\ slot[x] > 1 /\ current[x] # NoUnit => buffer[kept[current[x]]] = <<>>

\* HeldBack is its two parts, state by state and context by context.
LEMMA HeldBackIs ==
    HeldBack <=> (~setup.sharing => (\A s \in States : HeldIn(s)) /\ (\A x \in Contexts : HeldBy(x)))
  BY DEF HeldBack, HeldIn, HeldBy

\* A context that leaves its unit leaves nothing held back in it.
LEMMA LeftEmpty ==
    ASSUME Typed, Alone, HeldBack, ~setup.sharing, NEW x \in Contexts, LeaveUnit(x),
           current[x] \in Units, NEW s \in States, buffer[s] # <<>>
    PROVE  s[1] # current[x]
<1>. SUFFICES ASSUME s[1] = current[x] PROVE FALSE
    OBVIOUS
<1>. DEFINE u == current[x]
<1>1. s # Instance /\ s = kept[u]
    BY DEF HeldBack
<1>2. pc[x] = "ending" /\ slot[x] > Len(callbacks[u]) /\ slot[x] \in Nat
    BY Holds, UnitAssumption DEF LeaveUnit, CallbacksLeft, Typed, TypeOK, UnitTypeOK
<1>3. ~\E y \in Contexts : pc[y] = "register" /\ current[y] = u
    BY <1>2, OwnState, UnitAssumption
<1>4. callbacks[u] = <<kept[u]>>
    BY <1>1, <1>3 DEF Alone, OneState
<1>5. slot[x] > 1
    BY <1>2, <1>4
<1>6. buffer[kept[u]] = <<>>
    BY <1>2, <1>5, UnitAssumption DEF HeldBack
<1>. QED
    BY <1>1, <1>6

\* A step of the units keeps it.
LEMMA HeldElsewhere ==
    ASSUME Typed, Alone, HeldBack, NEW x \in Contexts, Elsewhere(x) PROVE HeldBack'
<1>0. Passes(x)
    BY ElsewhereDoes
<1>. SUFFICES ASSUME ~setup.sharing
              PROVE  (\A s \in States : HeldIn(s)') /\ (\A y \in Contexts : HeldBy(y)')
    BY <1>0 DEF Passes, HeldBack, HeldIn, HeldBy
<1>1. /\ buffer' = buffer /\ buffering' = buffering
      /\ \A s \in States : HeldIn(s)
      /\ \A y \in Contexts : HeldBy(y)
    BY <1>0, HeldBackIs DEF Passes, crossedVars
<1>2. /\ kept \in [Units -> States] /\ current \in [Contexts -> Units \cup {NoUnit}]
      /\ mine \in [Contexts -> States] /\ slot \in [Contexts -> Nat]
      /\ pc \in [Contexts -> CrossedPhases]
      /\ \A s \in States : s # Instance => s[1] \in Units
    BY StateIsPair DEF Typed, TypeOK, UnitTypeOK
<1>3. \A y \in Contexts : current[y] # NoUnit => \A z \in Contexts : z # y => current[z] # current[y]
    BY OwnState
<1>4. CASE CreateState(x)
    <2>1. /\ pc[x] = "create" /\ current[x] \in Units /\ kept[current[x]] = Instance
          /\ UNCHANGED <<current, slot>>
          /\ mine' = [mine EXCEPT ![x] = <<current[x], x>>]
          /\ kept' = [kept EXCEPT ![current[x]] = <<current[x], x>>]
          /\ pc' = [pc EXCEPT ![x] = "register"]
        <3>1. current[x] \in Units
            BY <1>4 DEF Typed, UnitInv, PhasesAt, CreateState, Create
        <3>2. <<current[x], x>>[1] = current[x]
            BY <3>1, StateIsPair
        <3>. QED
            BY <1>4, <3>1, <3>2 DEF CreateState, Create, GoTo, Alone, SoloAt
    <2>2. ASSUME NEW s \in States PROVE HeldIn(s)'
        <3>1. buffer[s] # <<>> => s # Instance /\ s[1] \in Units /\ s[1] # current[x]
            BY <1>1, <1>2, <2>1 DEF HeldIn
        <3>. QED
            BY <1>1, <1>2, <2>1, <3>1 DEF HeldIn
    <2>3. ASSUME NEW y \in Contexts PROVE HeldBy(y)'
        <3>1. CASE y = x
            BY <1>2, <2>1, <3>1 DEF HeldBy
        <3>2. CASE y # x
            <4>1. current[y] # current[x]
                BY <1>3, <2>1, <3>2, UnitAssumption
            <4>2. current[y] # NoUnit => kept'[current[y]] = kept[current[y]]
                BY <1>2, <2>1, <4>1
            <4>3. pc'[y] = pc[y] /\ mine'[y] = mine[y]
                BY <1>2, <2>1, <3>2
            <4>. QED
                BY <1>1, <2>1, <4>2, <4>3 DEF HeldBy
        <3>. QED
            BY <3>1, <3>2
    <2>. QED
        BY <2>2, <2>3
<1>5. CASE RegisterState(x)
    <2>1. /\ UNCHANGED <<current, slot, kept, mine>>
          /\ \A y \in Contexts : pc'[y] = pc[y] \/ (y = x /\ pc'[y] \in {"read", "swap", "flush", "clear"})
        BY <1>2, <1>5 DEF RegisterState, GoTo, Typed, HandAt
    <2>. QED
        BY <1>1, <2>1 DEF HeldIn, HeldBy
<1>6. CASE NextCallback(x)
    <2>1. /\ UNCHANGED <<current, kept>>
          /\ \A y \in Contexts : \/ pc'[y] = pc[y] /\ mine'[y] = mine[y] /\ slot'[y] = slot[y]
                                 \/ pc'[y] = "flush"
        BY <1>2, <1>6 DEF NextCallback, GoTo
    <2>. QED
        BY <1>1, <2>1 DEF HeldIn, HeldBy
<1>7. CASE LeaveUnit(x)
    <2>1. /\ UNCHANGED <<kept, mine>>
          /\ \A y \in Contexts : \/ pc'[y] = "idle" /\ y = x
                                 \/ pc'[y] = pc[y] /\ slot'[y] = slot[y] /\ current'[y] = current[y]
        BY <1>2, <1>7 DEF LeaveUnit, GoTo
    <2>2. ASSUME NEW s \in States PROVE HeldIn(s)'
        <3>1. CASE buffer[s] = <<>>
            BY <1>1, <2>1, <3>1 DEF HeldIn
        <3>2. CASE buffer[s] # <<>>
            <4>1. PICK y \in Contexts : current[y] = s[1] /\ s # Instance /\ s = kept[s[1]]
                BY <1>1, <3>2 DEF HeldIn
            <4>2. y # x
                BY <1>2, <1>7, <3>2, <4>1, LeftEmpty
            <4>3. current'[y] = s[1]
                BY <1>2, <1>7, <4>1, <4>2 DEF LeaveUnit
            <4>. QED
                BY <1>1, <2>1, <4>1, <4>3 DEF HeldIn
        <3>. QED
            BY <3>1, <3>2
    <2>. QED
        BY <1>1, <2>1, <2>2 DEF HeldBy
<1>8. CASE \E u \in Units \cup {NoUnit} : BeginEnding(x, u)
    <2>1. /\ UNCHANGED <<current, kept, mine>>
          /\ \A y \in Contexts : \/ pc'[y] = "ending" /\ slot'[y] = 1
                                 \/ pc'[y] = pc[y] /\ slot'[y] = slot[y]
        BY <1>2, <1>8 DEF BeginEnding, GoTo
    <2>. QED
        BY <1>1, <2>1 DEF HeldIn, HeldBy
<1>. QED
    BY <1>4, <1>5, <1>6, <1>7, <1>8 DEF Elsewhere, UnitStep, UnitCall, CopyContext

\* So does a step of the handler.
LEMMA HeldMoves ==
    ASSUME Typed, Alone, HeldBack, NEW x \in Contexts, Moves(x) PROVE HeldBack'
<1>0. Stays(x)
    BY MovesDo
<1>. SUFFICES ASSUME ~setup.sharing
              PROVE  (\A s \in States : HeldIn(s)') /\ (\A y \in Contexts : HeldBy(y)')
    BY <1>0 DEF Stays, HeldBack, HeldIn, HeldBy
<1>1. (\A s \in States : HeldIn(s)) /\ (\A y \in Contexts : HeldBy(y))
    BY HeldBackIs
<1>2. /\ buffer \in [States -> Seq(Records)] /\ buffering \in [States -> BOOLEAN]
      /\ slot[x] \in Nat /\ mine[x] \in States
    BY Holds DEF Typed, TypeOK
\* A step that leaves the buffers alone.
<1>3. ASSUME UNCHANGED <<buffer, buffering>>, HeldBy(x)' PROVE HeldBack'
    BY <1>0, <1>1, <1>3 DEF Stays, HeldBack, HeldIn, HeldBy
\* A step that changes the buffer of its own unit.
<1>4. ASSUME pc[x] \notin Outside, NEW b \in Seq(Records), NEW f \in BOOLEAN,
             buffer' = [buffer EXCEPT ![mine[x]] = b],
             buffering' = [buffering EXCEPT ![mine[x]] = f],
             f \/ b = <<>>, HeldBy(x)'
      PROVE  HeldBack'
    <2>1. /\ current[x] \in Units /\ mine[x] = kept[current[x]] /\ mine[x] # Instance
          /\ mine[x][1] = current[x]
          /\ \A u \in Units : u # current[x] => kept[u] # mine[x]
          /\ \A y \in Contexts : y # x /\ pc[y] \notin Outside => mine[y] # mine[x]
          /\ \A y \in Contexts : y # x => current[y] # current[x]
        BY <1>4, OwnState, UnitAssumption
    <2>2. ASSUME NEW s \in States PROVE HeldIn(s)'
        <3>1. CASE s = mine[x]
            BY <1>0, <1>2, <1>4, <2>1, <3>1 DEF Stays, HeldIn
        <3>2. CASE s # mine[x]
            BY <1>0, <1>1, <1>2, <1>4, <3>2 DEF Stays, HeldIn
        <3>. QED
            BY <3>1, <3>2
    <2>3. ASSUME NEW y \in Contexts, y # x PROVE HeldBy(y)'
        <3>1. pc'[y] = pc[y] /\ mine'[y] = mine[y] /\ slot'[y] = slot[y] /\ current'[y] = current[y]
              /\ kept' = kept /\ HeldBy(y)
            BY <1>0, <1>1, <2>3 DEF Stays
        <3>2. /\ mine[y] \in States /\ (current[y] # NoUnit => current[y] \in Units /\ kept[current[y]] \in States)
            BY Holds DEF Typed, TypeOK, UnitTypeOK
        <3>3. pc[y] \in {"append", "pass", "forward"} =>
                  mine[y] # mine[x] /\ buffer'[mine[y]] = buffer[mine[y]] /\ buffering'[mine[y]] = buffering[mine[y]]
            BY <1>2, <1>4, <2>1, <2>3, <3>2 DEF Outside
        <3>4. current[y] # NoUnit => buffer'[kept[current[y]]] = buffer[kept[current[y]]]
            BY <1>2, <1>4, <2>1, <2>3, <3>2
        <3>. QED
            BY <3>1, <3>3, <3>4 DEF HeldBy
    <2>. QED
        BY <1>4, <2>2, <2>3 DEF HeldBack, HeldIn, HeldBy
<1>. SUFFICES HeldBack'
    BY <1>0 DEF Stays, HeldBack, HeldIn, HeldBy
<1>5. ASSUME NEW r \in Records, Begun(x, r) PROVE HeldBack'
    BY <1>3, <1>5 DEF Begun, HeldBy
<1>6. CASE HasRead(x)
    BY <1>3, <1>6 DEF HasRead, HeldBy, crossedVars
<1>7. CASE Appended(x)
    <2>1. PICK b \in Seq(Records) : buffer' = [buffer EXCEPT ![mine[x]] = b]
        <3>1. Append(buffer[mine[x]], rec[x]) \in Seq(Records)
              /\ (buffer[mine[x]] # <<>> => Append(Tail(buffer[mine[x]]), rec[x]) \in Seq(Records))
            BY <1>7 DEF Appended
        <3>. QED
            BY <1>7, <3>1 DEF Appended
    <2>2. /\ pc[x] = "append" /\ pc'[x] = "decide" /\ buffering[mine[x]] /\ buffering' = buffering
        BY <1>1, <1>7 DEF Appended, HeldBy, Typed, TypeOK
    <2>3. buffering' = [buffering EXCEPT ![mine[x]] = TRUE]
        BY <1>2, <2>2
    <2>4. HeldBy(x)'
        BY <2>2 DEF HeldBy
    <2>. QED
        BY <1>4, <2>1, <2>2, <2>3, <2>4 DEF Outside
<1>8. CASE Decided(x)
    BY <1>3, <1>8 DEF Decided, HeldBy
<1>9. CASE Passed(x)
    BY <1>3, <1>9 DEF Passed, HeldBy
<1>10. CASE Called(x)
    BY <1>3, <1>10 DEF Called, HeldBy
<1>11. <<>> \in Seq(Records)
    OBVIOUS
<1>12. CASE Swapped(x)
    <2>1. pc[x] = "swap" /\ pc'[x] = "forward" /\ mine' = mine
          /\ buffer' = [buffer EXCEPT ![mine[x]] = <<>>]
        BY <1>12 DEF Swapped
    <2>2. HeldBy(x)'
        BY <1>2, <2>1 DEF HeldBy
    <2>3. PICK f \in BOOLEAN : buffering' = [buffering EXCEPT ![mine[x]] = f]
        BY <1>12 DEF Swapped
    <2>. QED
        BY <1>4, <1>11, <2>1, <2>2, <2>3 DEF Outside
<1>13. CASE Flushed(x)
    <2>1. /\ pc[x] = "flush"
          /\ (pc'[x] = "forward" /\ mine' = mine) \/ pc'[x] \in {"idle", "ending"}
          /\ buffer' = [buffer EXCEPT ![mine[x]] = <<>>]
          /\ buffering' = [buffering EXCEPT ![mine[x]] = TRUE]
        BY <1>13 DEF Flushed
    <2>2. mine[x] = kept[current[x]]
        BY <2>1, OwnState DEF Outside
    <2>3. HeldBy(x)'
        BY <1>0, <1>2, <2>1, <2>2 DEF HeldBy, Stays
    <2>. QED
        BY <1>4, <1>11, <2>1, <2>3 DEF Outside
<1>14. CASE Cleared(x)
    <2>1. HeldBy(x)'
        BY <1>14 DEF HeldBy, Cleared
    <2>. QED
        BY <1>4, <1>11, <1>14, <2>1 DEF Cleared, Outside
<1>15. CASE Forwarded(x)
    <2>1. buffer[kept[current[x]]] = <<>>
        BY <1>1, <1>15, OwnState DEF Forwarded, HeldBy, Outside
    <2>2. HeldBy(x)'
        BY <1>0, <1>15, <2>1 DEF HeldBy, Forwarded, Stays
    <2>. QED
        BY <1>3, <1>15, <2>2 DEF Forwarded
<1>. QED
    BY <1>5, <1>6, <1>7, <1>8, <1>9, <1>10, <1>12, <1>13, <1>14, <1>15, MovesDo

\* HeldBack is inductive, where Alone is.
LEMMA HeldBackNext == Typed /\ Alone /\ HeldBack /\ [Next]_vars => HeldBack'
<1>. SUFFICES ASSUME Typed, Alone, HeldBack, [Next]_vars PROVE HeldBack'
    OBVIOUS
<1>1. CASE UNCHANGED vars
    BY <1>1 DEF HeldBack, vars, unitVars, flowVars, crossedVars
<1>. QED
    BY <1>1, NextIs, HeldElsewhere, HeldMoves

-----------------------------------------------------------------------------
(* Alarms *)

\* A full buffer that takes a record keeps the others but the oldest.
LEMMA RangeTailAppend ==
    ASSUME NEW T, NEW s \in Seq(T), NEW e \in T, s # <<>>
    PROVE  Range(Append(Tail(s), e)) = Range(Tail(s)) \cup {e}
<1>1. PICK t \in Seq(T) : t = Tail(s)
    BY HeadTailProperties
<1>2. Range(Append(t, e)) = Range(t) \cup {e}
    BY RangeAppend
<1>. QED
    BY <1>1, <1>2

\* A step of the handler touches one buffer, and one context's records.
LEMMA OnlyMine ==
    ASSUME Typed, NEW x \in Contexts, Moves(x)
    PROVE  /\ \A s \in States : s # mine[x] \/ pc[x] \in Outside => buffer'[s] = buffer[s]
           /\ \A y \in Contexts : y # x => rec'[y] = rec[y] /\ pending'[y] = pending[y]
<1>1. /\ buffer \in [States -> Seq(Records)] /\ pending \in [Contexts -> Seq(Records)]
      /\ rec \in [Contexts -> Records \cup {NoRecord}]
    BY DEF Typed, TypeOK
<1>. QED
    BY <1>1, MovesDo DEF Begun, HasRead, Appended, Decided, Passed, Swapped, Flushed, Cleared,
                         Forwarded, Called, crossedVars, Outside

\* No alarm has been logged.
LEMMA RungInit == Init => Rung
<1>1. Range(<<>>) = {}
    BY SortedEmpty
<1>. QED
    BY <1>1 DEF Init, Rung

\* An alarm on its way in another context goes on.
LEMMA OtherAlarms ==
    ASSUME Typed, Alone, ~setup.sharing, NEW x \in Contexts, Moves(x),
           NEW y \in Contexts, y # x, NEW r \in Records, OnItsWay(y, r)
    PROVE  OnItsWay(y, r)'
<1>1. /\ pc'[y] = pc[y] /\ mine'[y] = mine[y] /\ rec'[y] = rec[y] /\ pending'[y] = pending[y]
      /\ mine[y] \in States
    BY MovesDo, OnlyMine, Holds DEF Stays
<1>2. pc[y] \in {"decide", "swap"} => buffer'[mine[y]] = buffer[mine[y]]
    BY <1>1, OnlyMine, OwnState DEF Outside
<1>. QED
    BY <1>1, <1>2 DEF OnItsWay

\* An alarm of the context goes on, or arrives.
LEMMA OwnAlarms ==
    ASSUME Typed, Alone, ~setup.sharing, NEW x \in Contexts, Moves(x),
           NEW r \in Activating, OnItsWay(x, r)
    PROVE  r \in Range(forwarded') \/ OnItsWay(x, r)'
<1>0. /\ buffer \in [States -> Seq(Records)] /\ pending \in [Contexts -> Seq(Records)]
      /\ rec \in [Contexts -> Records \cup {NoRecord}] /\ forwarded \in Seq(Records)
      /\ pc \in [Contexts -> CrossedPhases]
      /\ r \in Records /\ r # NoRecord
    BY CrossedAssumption DEF Typed, TypeOK
<1>1. ASSUME NEW q \in Records, Begun(x, q) PROVE FALSE
    BY <1>0, <1>1 DEF Begun, OnItsWay
<1>2. CASE HasRead(x)
    BY <1>2 DEF HasRead, OnItsWay, crossedVars
<1>3. CASE Appended(x)
    <2>1. rec[x] = r /\ rec'[x] = r /\ mine' = mine
        BY <1>3 DEF Appended, OnItsWay
    <2>2. rec[x] \in Range(buffer'[mine[x]])
        <3>. DEFINE b == buffer[mine[x]]
        <3>1. b \in Seq(Records) /\ rec[x] \in Records
            BY <1>3 DEF Appended
        <3>2. \/ Append(b, rec[x]) = buffer'[mine[x]]
              \/ b # <<>> /\ Append(Tail(b), rec[x]) = buffer'[mine[x]]
            BY <1>0, <1>3 DEF Appended
        <3>. HIDE DEF b
        <3>3. Range(Append(b, rec[x])) = Range(b) \cup {rec[x]}
            BY <3>1, RangeAppend
        <3>4. b # <<>> => Range(Append(Tail(b), rec[x])) = Range(Tail(b)) \cup {rec[x]}
            BY <3>1, RangeTailAppend
        <3>. QED
            BY <3>2, <3>3, <3>4
    <2>. QED
        BY <2>1, <2>2 DEF OnItsWay
<1>4. CASE Decided(x)
    <2>1. rec[x] = r /\ r \in Range(buffer[mine[x]])
        BY <1>0, <1>4 DEF Decided, OnItsWay
    <2>2. current[x] \in Units /\ mine[x] = kept[current[x]] /\ mine[x] # Instance
        BY <1>4, OwnState DEF Decided, Outside
    <2>3. pc'[x] = "swap" /\ mine'[x] = mine[x] /\ buffer' = buffer
        BY <1>4, <2>1, <2>2 DEF Decided
    <2>. QED
        BY <2>1, <2>3 DEF OnItsWay
<1>5. CASE Passed(x)
    <2>1. rec[x] = r
        BY <1>5 DEF Passed, OnItsWay
    <2>2. r \in Range(Append(forwarded, r))
        BY <1>0, RangeAppend
    <2>. QED
        BY <1>5, <2>1, <2>2 DEF Passed
<1>6. CASE Swapped(x)
    BY <1>0, <1>6 DEF Swapped, OnItsWay
<1>7. CASE Flushed(x)
    BY <1>0, <1>7 DEF Flushed, OnItsWay
<1>8. CASE Cleared(x)
    BY <1>0, <1>8 DEF Cleared, OnItsWay
<1>9. CASE Forwarded(x)
    <2>1. r \in Range(pending[x])
        BY <1>0, <1>9 DEF Forwarded, OnItsWay
    <2>2. Range(forwarded \o pending[x]) = Range(forwarded) \cup Range(pending[x])
        BY <1>0, RangeConcatenation
    <2>. QED
        BY <1>9, <2>1, <2>2 DEF Forwarded
<1>10. CASE Called(x)
    BY <1>0, <1>10 DEF Called, OnItsWay
<1>. QED
    BY <1>1, <1>2, <1>3, <1>4, <1>5, <1>6, <1>7, <1>8, <1>9, <1>10, MovesDo

\* What has been written stays written.
LEMMA StaysWritten ==
    ASSUME Typed, NEW x \in Contexts, Moves(x)
    PROVE  Range(forwarded) \subseteq Range(forwarded')
<1>1. forwarded \in Seq(Records)
    BY DEF Typed, TypeOK
<1>2. CASE Passed(x)
    BY <1>1, <1>2, RangeAppend DEF Passed
<1>3. CASE Forwarded(x)
    BY <1>1, <1>3, RangeConcatenation DEF Forwarded
<1>. QED
    BY <1>2, <1>3, MovesDo DEF Begun, HasRead, Appended, Decided, Swapped, Flushed, Cleared,
                               Called, crossedVars

\* An alarm that is logged is written, or is still on its way.
LEMMA RungNext == Typed /\ Alone /\ Rung /\ [Next]_vars => Rung'
<1>. SUFFICES ASSUME Typed, Alone, Rung, [Next]_vars PROVE Rung'
    OBVIOUS
<1>0. Activating \subseteq Records
    BY CrossedAssumption
<1>1. ASSUME NEW x \in Contexts, Elsewhere(x) PROVE Rung'
    <2>1. Passes(x)
        BY <1>1, ElsewhereDoes
    <2>2. ASSUME NEW y \in Contexts, NEW r \in Records, OnItsWay(y, r)
          PROVE  OnItsWay(y, r)' /\ current'[y] = current[y]
        <3>1. pc[y] \notin {"idle", "ending"}
            BY <2>2, Holds, CrossedAssumption DEF OnItsWay
        <3>2. current'[y] = current[y]
            BY <2>1, <3>1 DEF Passes
        <3>3. CASE y # x
            <4>1. /\ pc'[y] = pc[y] /\ mine'[y] = mine[y]
                  /\ UNCHANGED <<rec, buffer, pending>>
                BY <2>1, <3>3 DEF Passes, crossedVars
            <4>. QED
                BY <2>2, <3>2, <4>1 DEF OnItsWay
        <3>4. CASE y = x
            <4>. SUFFICES OnItsWay(x, r)'
                BY <3>2, <3>4
            <4>1. pc[x] \in {"create", "register"} /\ rec[x] = r
                BY <2>1, <2>2, <3>1, <3>4 DEF Passes, OnItsWay
            <4>2. pc'[x] # "decide"
                BY <2>1, <4>1 DEF Passes, Typed, HandAt
            <4>. QED
                BY <2>1, <4>1, <4>2 DEF Passes, crossedVars, OnItsWay
        <3>. QED
            BY <3>2, <3>3, <3>4
    <2>3. UNCHANGED <<setup, story, forwarded>>
        BY <2>1 DEF Passes, crossedVars
    <2>. QED
        BY <1>0, <2>2, <2>3 DEF Rung
<1>2. ASSUME NEW x \in Contexts, Moves(x) PROVE Rung'
    <2>1. setup' = setup /\ current' = current
        BY <1>2, MovesDo DEF Stays
    <2>. SUFFICES ASSUME ~setup.sharing, NEW u \in Homes, NEW r \in Activating \cap Range(story'[u])
                  PROVE  r \in Range(forwarded') \/ \E y \in Contexts : current'[y] = u /\ OnItsWay(y, r)'
        BY <2>1 DEF Rung
    <2>2. CASE r \in Range(story[u])
        <3>1. CASE r \in Range(forwarded)
            BY <1>2, <3>1, StaysWritten
        <3>2. ASSUME NEW y \in Contexts, current[y] = u, OnItsWay(y, r)
              PROVE  r \in Range(forwarded') \/ OnItsWay(y, r)'
            BY <1>0, <1>2, <3>2, OwnAlarms, OtherAlarms
        <3>. QED
            BY <2>1, <2>2, <3>1, <3>2 DEF Rung
    <2>3. CASE r \notin Range(story[u])
        <3>1. PICK q \in Records : Begun(x, q)
            BY <1>2, <2>3, Flows DEF Flow
        <3>2. u = current[x] /\ r = q
            BY <2>3, <3>1, StoryGrows
        <3>3. rec'[x] = r /\ pc'[x] # "decide"
            BY <3>1, <3>2 DEF Begun, Typed, TypeOK
        <3>. QED
            BY <2>1, <3>2, <3>3 DEF OnItsWay
    <2>. QED
        BY <2>2, <2>3
<1>3. CASE UNCHANGED vars
    BY <1>3 DEF Rung, OnItsWay, vars, unitVars, flowVars, crossedVars
<1>. QED
    BY <1>1, <1>2, <1>3, NextIs

-----------------------------------------------------------------------------
(* No record is lost, none is written twice *)

\* The places of a record are those that the five sets name.
LEMMA PlacesAre ==
    ASSUME NEW r
    PROVE  Places(r) = Tagged(HandsOf(r), BuffersOf(r), BatchesOf(r), OutsOf(r), DropsOf(r))
<1>1. {<<"dropped", r>> : d \in {r} \cap dropped} = {<<"dropped", d>> : d \in {r} \cap dropped}
    OBVIOUS
<1>. QED
    BY <1>1 DEF Places, Tagged, HandsOf, BuffersOf, BatchesOf, OutsOf, DropsOf, Spots

\* A record that is logged has one place, another has none.
LEMMA PlacedIs ==
    ASSUME NEW r, Placed(r)
    PROVE  IF r \in Logged THEN Single(Places(r)) ELSE Places(r) = {}
  BY PlacesAre, TaggedOne, TaggedNone DEF Placed

\* A record that is not touched keeps its place.
LEMMA Untouched ==
    ASSUME NEW r, Placed(r), r \in Logged <=> r \in Logged',
           HandsOf(r)' = HandsOf(r), BuffersOf(r)' = BuffersOf(r), BatchesOf(r)' = BatchesOf(r),
           OutsOf(r)' = OutsOf(r), DropsOf(r)' = DropsOf(r)
    PROVE  Placed(r)'
  BY DEF Placed, Single, None

\* What is in one place is in no other.
LEMMA FromHand ==
    ASSUME NEW r, Placed(r), NEW x \in HandsOf(r)
    PROVE  /\ r \in Logged /\ HandsOf(r) = {x}
           /\ None(BuffersOf(r), BatchesOf(r), OutsOf(r), DropsOf(r))
  BY DEF Placed, Single, None

\* So is what is in a buffer,
LEMMA FromBuffer ==
    ASSUME NEW r, Placed(r), NEW s \in BuffersOf(r)
    PROVE  /\ r \in Logged /\ BuffersOf(r) = {s}
           /\ None(HandsOf(r), BatchesOf(r), OutsOf(r), DropsOf(r))
  BY DEF Placed, Single, None

\* and what is in a batch.
LEMMA FromBatch ==
    ASSUME NEW r, Placed(r), NEW x \in BatchesOf(r)
    PROVE  /\ r \in Logged /\ BatchesOf(r) = {x}
           /\ None(HandsOf(r), BuffersOf(r), OutsOf(r), DropsOf(r))
  BY DEF Placed, Single, None

\* A record joins its buffer: what stays of it keeps its order, what leaves came first.
LEMMA Adds ==
    ASSUME Typed, NEW x \in Contexts, Appended(x)
    PROVE  \E b \in Seq(Records), out \in SUBSET Records :
               /\ buffer' = [buffer EXCEPT ![mine[x]] = Append(b, rec[x])]
               /\ Range(b) \cup out = Range(buffer[mine[x]])
               /\ dropped' = dropped \cup out
               /\ \A R : Sorted(buffer[mine[x]], R) => Sorted(b, R) /\ Ahead(out, Range(b), R)
<1>. DEFINE all == buffer[mine[x]]
<1>1. all \in Seq(Records)
    BY DEF Appended
<1>2. CASE buffer' = [buffer EXCEPT ![mine[x]] = Append(all, rec[x])] /\ dropped' = dropped
    <2>. HIDE DEF all
    <2>1. \A R : Ahead({}, Range(all), R)
        BY DEF Ahead
    <2>2. Range(all) \cup {} = Range(all) /\ dropped' = dropped \cup {} /\ {} \in SUBSET Records
        BY <1>2
    <2>. QED
        BY <1>1, <1>2, <2>1, <2>2 DEF all
<1>3. CASE /\ all # <<>> /\ buffer' = [buffer EXCEPT ![mine[x]] = Append(Tail(all), rec[x])]
           /\ dropped' = dropped \cup {Head(all)}
    <2>. HIDE DEF all
    <2>1. PICK b \in Seq(Records) : b = Tail(all)
        BY <1>1, <1>3, HeadTailProperties
    <2>2. /\ {Head(all)} \in SUBSET Records /\ Range(b) \cup {Head(all)} = Range(all)
        BY <1>1, <1>3, <2>1, HeadTailProperties, RangeTail
    <2>3. \A R : Sorted(all, R) => Sorted(b, R) /\ Ahead({Head(all)}, Range(b), R)
        BY <1>1, <1>3, <2>1, SortedTail
    <2>. QED
        BY <1>3, <2>1, <2>2, <2>3 DEF all
<1>. QED
    BY <1>2, <1>3 DEF Appended

\* A buffer is emptied, into the batch of a context or away.
LEMMA Emptied ==
    ASSUME Typed, NEW x \in Contexts, NEW s \in States, NEW r, Placed(r),
           buffer' = [buffer EXCEPT ![s] = <<>>],
           Range(pending[x]) = {}, Range(pending'[x]) \subseteq Range(buffer[s]),
           \A y \in Contexts : y # x => pending'[y] = pending[y],
           dropped' = dropped \cup (Range(buffer[s]) \ Range(pending'[x])),
           forwarded' = forwarded, Logged' = Logged, HandsOf(r)' = HandsOf(r)
    PROVE  Placed(r)'
<1>. DEFINE taken == Range(pending'[x])
            gone == Range(buffer[s]) \ taken
<1>0. buffer \in [States -> Seq(Records)] /\ Range(<<>>) = {} /\ OutsOf(r)' = OutsOf(r)
    BY SortedEmpty DEF Typed, TypeOK, OutsOf
<1>1. CASE r \notin Range(buffer[s])
    <2>1. BuffersOf(r)' = BuffersOf(r)
        BY <1>0, <1>1 DEF BuffersOf
    <2>2. BatchesOf(r)' = BatchesOf(r) /\ DropsOf(r)' = DropsOf(r)
        BY <1>1 DEF BatchesOf, DropsOf
    <2>. QED
        BY <1>0, <2>1, <2>2, Untouched
<1>2. CASE r \in Range(buffer[s])
    <2>1. /\ r \in Logged /\ BuffersOf(r) = {s}
          /\ None(HandsOf(r), BatchesOf(r), OutsOf(r), DropsOf(r))
        BY <1>2, FromBuffer DEF BuffersOf
    <2>2. BuffersOf(r)' = {}
        <3>. SUFFICES ASSUME NEW t \in States PROVE r \notin Range(buffer'[t])
            BY DEF BuffersOf
        <3>1. CASE t = s
            BY <1>0, <3>1
        <3>2. CASE t # s
            BY <1>0, <2>1, <3>2 DEF BuffersOf
        <3>. QED
            BY <3>1, <3>2
    <2>3. CASE r \in taken
        <3>1. BatchesOf(r)' = {x} /\ DropsOf(r)' = {}
            BY <2>1, <2>3 DEF BatchesOf, DropsOf, None
        <3>. QED
            BY <1>0, <2>1, <2>2, <3>1 DEF Placed, Single, None
    <2>4. CASE r \in gone
        <3>1. BatchesOf(r)' = {} /\ DropsOf(r)' = {r}
            BY <2>1, <2>4 DEF BatchesOf, DropsOf, None
        <3>. QED
            BY <1>0, <2>1, <2>2, <3>1 DEF Placed, Single, None
    <2>. QED
        BY <1>2, <2>3, <2>4
<1>. QED
    BY <1>1, <1>2

\* A step of the handler moves a record from one place to one place.
LEMMA PlacedMoves ==
    ASSUME Typed, OnePlace, NEW x \in Contexts, Moves(x), NEW r \in Records
    PROVE  Placed(r)'
<1>0. /\ buffer \in [States -> Seq(Records)] /\ rec \in [Contexts -> Records \cup {NoRecord}]
      /\ pending \in [Contexts -> Seq(Records)] /\ forwarded \in Seq(Records)
      /\ pc \in [Contexts -> CrossedPhases]
      /\ Range(<<>>) = {} /\ r # NoRecord /\ Placed(r)
    BY SortedEmpty, CrossedAssumption DEF Typed, TypeOK, OnePlace
<1>1. Stays(x) /\ \A y \in Contexts : y # x => pc'[y] = pc[y] /\ rec'[y] = rec[y]
    BY MovesDo, OnlyMine DEF Stays
\* Only this context's hand can change.
<1>2. /\ (rec[x] = r /\ pc[x] # "decide" <=> rec'[x] = r /\ pc'[x] # "decide")
             => HandsOf(r)' = HandsOf(r)
      /\ ~(rec'[x] = r /\ pc'[x] # "decide") => HandsOf(r)' = HandsOf(r) \ {x}
    BY <1>1 DEF HandsOf
<1>3. story' = story => Logged' = Logged
    BY DEF Logged
<1>4. CASE \E q \in Records : Begun(x, q)
    <2>1. PICK q \in Records : Begun(x, q)
        BY <1>4
    <2>2. UNCHANGED <<buffer, pending, forwarded, dropped>>
        BY <2>1 DEF Begun
    <2>3. /\ BuffersOf(r)' = BuffersOf(r) /\ BatchesOf(r)' = BatchesOf(r)
          /\ OutsOf(r)' = OutsOf(r) /\ DropsOf(r)' = DropsOf(r)
        BY <2>2 DEF BuffersOf, BatchesOf, OutsOf, DropsOf
    <2>4. rec[x] = NoRecord /\ rec'[x] = q /\ pc'[x] # "decide" /\ q \notin Logged /\ Logged' = Logged \cup {q}
        BY <1>0, <2>1, StoryGrows DEF Begun
    <2>5. CASE r = q
        <3>1. HandsOf(r)' = HandsOf(r) \cup {x}
            BY <1>1, <2>4, <2>5 DEF HandsOf
        <3>. QED
            BY <1>0, <2>3, <2>4, <2>5, <3>1 DEF Placed, Single, None
    <2>6. CASE r # q
        <3>1. HandsOf(r)' = HandsOf(r)
            BY <1>0, <1>2, <2>4, <2>6
        <3>. QED
            BY <1>0, <2>3, <2>4, <2>6, <3>1, Untouched
    <2>. QED
        BY <2>5, <2>6
\* A step that moves no record.
<1>5. ASSUME UNCHANGED <<buffer, pending, forwarded, dropped, story>>, HandsOf(r)' = HandsOf(r)
      PROVE  Placed(r)'
    <2>1. /\ BuffersOf(r)' = BuffersOf(r) /\ BatchesOf(r)' = BatchesOf(r)
          /\ OutsOf(r)' = OutsOf(r) /\ DropsOf(r)' = DropsOf(r)
        BY <1>5 DEF BuffersOf, BatchesOf, OutsOf, DropsOf
    <2>. QED
        BY <1>0, <1>3, <1>5, <2>1, Untouched
<1>6. CASE HasRead(x)
    <2>1. rec' = rec /\ pc[x] # "decide" /\ pc'[x] # "decide"
        BY <1>6 DEF HasRead, crossedVars
    <2>. QED
        BY <1>2, <1>5, <1>6, <2>1 DEF HasRead, crossedVars
<1>7. CASE Called(x)
    <2>1. rec' = rec /\ rec[x] # r
        BY <1>0, <1>7 DEF Called
    <2>. QED
        BY <1>2, <1>5, <1>7, <2>1 DEF Called
<1>8. CASE Decided(x)
    <2>1. pc[x] = "decide" /\ rec'[x] # r
        BY <1>0, <1>8 DEF Decided
    <2>. QED
        BY <1>2, <1>5, <1>8, <2>1 DEF Decided
<1>9. CASE Appended(x)
    <2>. DEFINE s == mine[x]
    <2>1. PICK b \in Seq(Records), out \in SUBSET Records :
              /\ buffer' = [buffer EXCEPT ![s] = Append(b, rec[x])]
              /\ Range(b) \cup out = Range(buffer[s])
              /\ dropped' = dropped \cup out
              /\ \A R : Sorted(buffer[s], R) => Sorted(b, R) /\ Ahead(out, Range(b), R)
        BY <1>9, Adds
    <2>2. /\ s \in States /\ rec[x] \in Records /\ pc[x] = "append" /\ pc'[x] = "decide"
          /\ UNCHANGED <<rec, pending, forwarded, story>>
        BY <1>0, <1>9 DEF Appended
    <2>. HIDE DEF s
    <2>3. BatchesOf(r)' = BatchesOf(r) /\ OutsOf(r)' = OutsOf(r) /\ Logged' = Logged
        BY <1>3, <2>2 DEF BatchesOf, OutsOf
    <2>4. out \cap Range(b) = {}
        <3>1. Ahead(out, Range(b), Distinct(Records))
            BY <2>1, <2>2 DEF OnePlace
        <3>. QED
            BY <3>1 DEF Ahead, Distinct
    <2>5. /\ Range(buffer'[s]) = Range(b) \cup {rec[x]}
          /\ \A t \in States : t # s => buffer'[t] = buffer[t]
        <3>1. Range(Append(b, rec[x])) = Range(b) \cup {rec[x]}
            BY <2>2, RangeAppend
        <3>. QED
            BY <1>0, <2>1, <2>2, <3>1
    <2>6. CASE r = rec[x]
        <3>1. /\ r \in Logged /\ HandsOf(r) = {x}
              /\ None(BuffersOf(r), BatchesOf(r), OutsOf(r), DropsOf(r))
            BY <1>0, <2>2, <2>6, FromHand DEF HandsOf
        <3>2. HandsOf(r)' = {}
            BY <1>2, <2>2, <3>1
        <3>3. r \notin Range(buffer[s])
            BY <2>2, <3>1 DEF BuffersOf, None
        <3>4. BuffersOf(r)' = {s}
            BY <2>2, <2>5, <2>6, <3>1 DEF BuffersOf, None
        <3>5. DropsOf(r)' = {}
            BY <2>1, <3>1, <3>3 DEF DropsOf, None
        <3>. QED
            BY <2>3, <3>1, <3>2, <3>4, <3>5 DEF Placed, Single, None
    <2>7. ASSUME r # rec[x] PROVE HandsOf(r)' = HandsOf(r)
        BY <1>2, <2>2, <2>7
    <2>8. CASE r # rec[x] /\ r \in out
        <3>1. /\ r \in Logged /\ BuffersOf(r) = {s}
              /\ None(HandsOf(r), BatchesOf(r), OutsOf(r), DropsOf(r))
            BY <1>0, <2>1, <2>2, <2>8, FromBuffer DEF BuffersOf
        <3>2. BuffersOf(r)' = {}
            BY <2>4, <2>5, <2>8, <3>1 DEF BuffersOf
        <3>3. DropsOf(r)' = {r}
            BY <2>1, <2>8 DEF DropsOf
        <3>. QED
            BY <2>3, <2>7, <2>8, <3>1, <3>2, <3>3 DEF Placed, Single, None
    <2>9. CASE r # rec[x] /\ r \notin out
        <3>1. r \in Range(buffer'[s]) <=> r \in Range(buffer[s])
            BY <2>1, <2>5, <2>9
        <3>2. BuffersOf(r)' = BuffersOf(r)
            BY <2>2, <2>5, <3>1 DEF BuffersOf
        <3>3. DropsOf(r)' = DropsOf(r)
            BY <2>1, <2>9 DEF DropsOf
        <3>. QED
            BY <1>0, <2>3, <2>7, <2>9, <3>2, <3>3, Untouched
    <2>. QED
        BY <2>6, <2>8, <2>9
<1>10. CASE Passed(x)
    <2>1. /\ rec[x] \in Records /\ pc[x] = "pass" /\ rec'[x] = NoRecord
          /\ forwarded' = Append(forwarded, rec[x])
          /\ UNCHANGED <<buffer, pending, dropped, story>>
        BY <1>0, <1>10 DEF Passed
    <2>2. /\ BuffersOf(r)' = BuffersOf(r) /\ BatchesOf(r)' = BatchesOf(r)
          /\ DropsOf(r)' = DropsOf(r) /\ Logged' = Logged
        BY <1>3, <2>1 DEF BuffersOf, BatchesOf, DropsOf
    <2>3. OutsOf(r)' = OutsOf(r) \cup (IF r = rec[x] THEN {Len(forwarded) + 1} ELSE {})
        <3>1. Spots(Append(forwarded, rec[x]), r) =
                  Spots(forwarded, r) \cup (IF r = rec[x] THEN {Len(forwarded) + 1} ELSE {})
            BY <1>0, <2>1, SpotsAppend
        <3>. QED
            BY <2>1, <3>1 DEF OutsOf
    <2>4. CASE r = rec[x]
        <3>1. /\ r \in Logged /\ HandsOf(r) = {x}
              /\ None(BuffersOf(r), BatchesOf(r), OutsOf(r), DropsOf(r))
            BY <1>0, <2>1, <2>4, FromHand DEF HandsOf
        <3>2. HandsOf(r)' = {}
            BY <1>0, <1>2, <2>1, <3>1
        <3>. QED
            BY <2>2, <2>3, <2>4, <3>1, <3>2 DEF Placed, Single, None
    <2>5. CASE r # rec[x]
        <3>1. HandsOf(r)' = HandsOf(r)
            BY <1>0, <1>2, <2>1, <2>5
        <3>2. OutsOf(r)' = OutsOf(r)
            BY <2>3, <2>5
        <3>. QED
            BY <1>0, <2>2, <3>1, <3>2, Untouched
    <2>. QED
        BY <2>4, <2>5
\* A step that empties a buffer has no record in hand.
<1>11. CASE Swapped(x)
    <2>1. /\ mine[x] \in States /\ rec[x] = NoRecord /\ pc[x] = "swap"
          /\ buffer' = [buffer EXCEPT ![mine[x]] = <<>>]
          /\ pending' = [pending EXCEPT ![x] = buffer[mine[x]]]
          /\ UNCHANGED <<rec, forwarded, dropped, story>>
        BY <1>11 DEF Swapped
    <2>2. pending[x] = <<>> /\ HandsOf(r)' = HandsOf(r) /\ Logged' = Logged
        BY <1>0, <1>2, <1>3, <2>1, Holds
    <2>3. \A y \in Contexts : y # x => pending'[y] = pending[y]
        BY <1>0, <2>1
    <2>4. /\ Range(pending[x]) = {} /\ Range(pending'[x]) \subseteq Range(buffer[mine[x]])
          /\ dropped' = dropped \cup (Range(buffer[mine[x]]) \ Range(pending'[x]))
        BY <1>0, <2>1, <2>2
    <2>. QED
        BY <1>0, <2>1, <2>2, <2>3, <2>4, Emptied
<1>12. CASE Flushed(x)
    <2>1. /\ mine[x] \in States /\ rec[x] = NoRecord /\ pc[x] = "flush"
          /\ buffer[mine[x]] \in Seq(Records)
          /\ buffer' = [buffer EXCEPT ![mine[x]] = <<>>]
          /\ pending' = [pending EXCEPT ![x] = Selected(buffer[mine[x]], Floor)]
          /\ dropped' = dropped \cup (Range(buffer[mine[x]]) \ Floor)
          /\ UNCHANGED <<rec, forwarded, story>>
        BY <1>12 DEF Flushed
    <2>2. pending[x] = <<>> /\ HandsOf(r)' = HandsOf(r) /\ Logged' = Logged
        BY <1>0, <1>2, <1>3, <2>1, Holds
    <2>3. \A y \in Contexts : y # x => pending'[y] = pending[y]
        BY <1>0, <2>1
    <2>4. /\ Range(pending[x]) = {} /\ Range(pending'[x]) = Range(buffer[mine[x]]) \cap Floor
        BY <1>0, <2>1, <2>2, SelectedRange
    <2>5. /\ Range(pending'[x]) \subseteq Range(buffer[mine[x]])
          /\ dropped' = dropped \cup (Range(buffer[mine[x]]) \ Range(pending'[x]))
        BY <2>1, <2>4
    <2>. QED
        BY <1>0, <2>1, <2>2, <2>3, <2>4, <2>5, Emptied
<1>13. CASE Cleared(x)
    <2>1. /\ mine[x] \in States /\ rec[x] = NoRecord /\ pc[x] = "clear"
          /\ buffer' = [buffer EXCEPT ![mine[x]] = <<>>]
          /\ dropped' = dropped \cup Range(buffer[mine[x]])
          /\ UNCHANGED <<rec, pending, forwarded, story>>
        BY <1>13 DEF Cleared
    <2>2. pending[x] = <<>> /\ HandsOf(r)' = HandsOf(r) /\ Logged' = Logged
        BY <1>0, <1>2, <1>3, <2>1, Holds
    <2>3. /\ Range(pending[x]) = {} /\ Range(pending'[x]) \subseteq Range(buffer[mine[x]])
          /\ dropped' = dropped \cup (Range(buffer[mine[x]]) \ Range(pending'[x]))
        BY <1>0, <2>1, <2>2
    <2>. QED
        BY <1>0, <2>1, <2>2, <2>3, Emptied
<1>14. CASE Forwarded(x)
    <2>1. /\ rec[x] = NoRecord /\ pending[x] \in Seq(Records)
          /\ forwarded' = forwarded \o pending[x] /\ pending' = [pending EXCEPT ![x] = <<>>]
          /\ UNCHANGED <<buffer, rec, dropped, story>>
        BY <1>14 DEF Forwarded
    <2>2. /\ HandsOf(r)' = HandsOf(r) /\ Logged' = Logged
          /\ BuffersOf(r)' = BuffersOf(r) /\ DropsOf(r)' = DropsOf(r)
        BY <1>0, <1>2, <1>3, <2>1 DEF BuffersOf, DropsOf
    <2>3. OutsOf(r)' = OutsOf(r) \cup {Len(forwarded) + j : j \in Spots(pending[x], r)}
        <3>1. Spots(forwarded \o pending[x], r) =
                  Spots(forwarded, r) \cup {Len(forwarded) + j : j \in Spots(pending[x], r)}
            BY <1>0, <2>1, SpotsConcat
        <3>. QED
            BY <2>1, <3>1 DEF OutsOf
    <2>4. BatchesOf(r)' = BatchesOf(r) \ {x}
        BY <1>0, <2>1 DEF BatchesOf
    <2>5. CASE r \in Range(pending[x])
        <3>1. /\ r \in Logged /\ BatchesOf(r) = {x}
              /\ None(HandsOf(r), BuffersOf(r), OutsOf(r), DropsOf(r))
            BY <1>0, <2>5, FromBatch DEF BatchesOf
        <3>2. PICK i : Spots(pending[x], r) = {i}
            BY <2>1, <2>5, SpotsRange DEF OnePlace
        <3>3. OutsOf(r)' = {Len(forwarded) + i}
            BY <2>3, <3>1, <3>2 DEF None
        <3>. QED
            BY <2>2, <2>4, <3>1, <3>3 DEF Placed, Single, None
    <2>6. CASE r \notin Range(pending[x])
        <3>1. Spots(pending[x], r) = {}
            BY <2>1, <2>6, SpotsRange
        <3>2. OutsOf(r)' = OutsOf(r)
            BY <2>3, <3>1
        <3>3. BatchesOf(r)' = BatchesOf(r)
            BY <2>4, <2>6 DEF BatchesOf
        <3>. QED
            BY <1>0, <2>2, <3>2, <3>3, Untouched
    <2>. QED
        BY <2>5, <2>6
<1>. QED
    BY <1>4, <1>6, <1>7, <1>8, <1>9, <1>10, <1>11, <1>12, <1>13, <1>14, MovesDo

\* No step puts a record in a buffer or a batch twice.
LEMMA DistinctMoves ==
    ASSUME Typed, OnePlace, NEW x \in Contexts, Moves(x)
    PROVE  /\ \A s \in States : Sorted(buffer'[s], Distinct(Records))
           /\ \A y \in Contexts : Sorted(pending'[y], Distinct(Records))
<1>0. /\ buffer \in [States -> Seq(Records)] /\ pending \in [Contexts -> Seq(Records)]
      /\ \A R : Sorted(<<>>, R)
      /\ \A s \in States : Sorted(buffer[s], Distinct(Records))
      /\ \A y \in Contexts : Sorted(pending[y], Distinct(Records))
    BY SortedEmpty DEF Typed, TypeOK, OnePlace
<1>1. CASE Appended(x)
    <2>. DEFINE s == mine[x]
    <2>1. PICK b \in Seq(Records), out \in SUBSET Records :
              /\ buffer' = [buffer EXCEPT ![s] = Append(b, rec[x])]
              /\ Range(b) \cup out = Range(buffer[s])
              /\ dropped' = dropped \cup out
              /\ \A R : Sorted(buffer[s], R) => Sorted(b, R) /\ Ahead(out, Range(b), R)
        BY <1>1, Adds
    <2>2. s \in States /\ rec[x] \in Records /\ pc[x] = "append" /\ pending' = pending
        BY <1>1 DEF Appended
    <2>. HIDE DEF s
    <2>3. rec[x] \notin Range(buffer[s])
        <3>1. None(BuffersOf(rec[x]), BatchesOf(rec[x]), OutsOf(rec[x]), DropsOf(rec[x]))
            BY <2>2, FromHand DEF HandsOf, OnePlace
        <3>. QED
            BY <2>2, <3>1 DEF BuffersOf, None
    <2>4. Range(b) \subseteq Records
        BY DEF Range
    <2>5. Sorted(b, Distinct(Records)) /\ Ahead(Range(b), {rec[x]}, Distinct(Records))
        BY <1>0, <2>1, <2>2, <2>3, <2>4 DEF Ahead, Distinct
    <2>6. Sorted(Append(b, rec[x]), Distinct(Records))
        BY <2>2, <2>5, SortedAppend
    <2>. QED
        BY <1>0, <2>1, <2>2, <2>6
<1>2. CASE Swapped(x)
    BY <1>0, <1>2 DEF Swapped
<1>3. CASE Flushed(x)
    <2>1. mine[x] \in States /\ buffer[mine[x]] \in Seq(Records)
          /\ Sorted(buffer[mine[x]], Distinct(Records))
        BY <1>0, <1>3 DEF Flushed
    <2>2. Sorted(Selected(buffer[mine[x]], Floor), Distinct(Records))
        BY <2>1, SortedSelected
    <2>. QED
        BY <1>0, <1>3, <2>2 DEF Flushed
<1>4. CASE Cleared(x)
    BY <1>0, <1>4 DEF Cleared
<1>5. CASE Forwarded(x)
    BY <1>0, <1>5 DEF Forwarded
<1>. QED
    BY <1>0, <1>1, <1>2, <1>3, <1>4, <1>5, MovesDo
       DEF Begun, HasRead, Decided, Passed, Called, crossedVars

\* No record has been logged: none has a place.
LEMMA OnePlaceInit == Init => OnePlace
<1>. SUFFICES ASSUME Init PROVE OnePlace
    OBVIOUS
<1>1. Range(<<>>) = {} /\ \A R : Sorted(<<>>, R)
    BY SortedEmpty
<1>2. ASSUME NEW r \in Records PROVE Placed(r)
    <2>1. /\ HandsOf(r) = {} /\ BuffersOf(r) = {} /\ BatchesOf(r) = {} /\ DropsOf(r) = {}
          /\ r \notin Logged
        BY <1>1, CrossedAssumption DEF Init, UnitInit, HandsOf, BuffersOf, BatchesOf, DropsOf, Logged
    <2>2. OutsOf(r) = {}
        BY <1>1, EmptySeq, SpotsRange DEF Init, OutsOf
    <2>. QED
        BY <2>1, <2>2 DEF Placed, None
<1>. QED
    BY <1>1, <1>2 DEF Init, OnePlace

\* Each step moves each record from one place to one place.
LEMMA OnePlaceNext == Typed /\ OnePlace /\ [Next]_vars => OnePlace'
<1>. SUFFICES ASSUME Typed, OnePlace, [Next]_vars PROVE OnePlace'
    OBVIOUS
<1>1. ASSUME UNCHANGED crossedVars,
             \A x \in Contexts : pc'[x] = pc[x] \/ (pc[x] # "decide" /\ pc'[x] # "decide")
      PROVE  OnePlace'
    <2>1. UNCHANGED <<buffer, rec, pending, forwarded, dropped, story>>
        BY <1>1 DEF crossedVars
    <2>2. ASSUME NEW r \in Records PROVE Placed(r)'
        <3>1. /\ BuffersOf(r)' = BuffersOf(r) /\ BatchesOf(r)' = BatchesOf(r)
              /\ OutsOf(r)' = OutsOf(r) /\ DropsOf(r)' = DropsOf(r) /\ Logged' = Logged
            BY <2>1 DEF BuffersOf, BatchesOf, OutsOf, DropsOf, Logged
        <3>2. HandsOf(r)' = HandsOf(r)
            BY <1>1, <2>1 DEF HandsOf
        <3>. QED
            BY <3>1, <3>2, Untouched DEF OnePlace
    <2>. QED
        BY <2>1, <2>2 DEF OnePlace
<1>2. ASSUME NEW x \in Contexts, Elsewhere(x) PROVE OnePlace'
    <2>1. Passes(x)
        BY <1>2, ElsewhereDoes
    <2>2. pc[x] # "decide" /\ pc'[x] # "decide"
        BY <2>1 DEF Passes, Typed, HandAt
    <2>. QED
        BY <1>1, <2>1, <2>2 DEF Passes
<1>3. ASSUME NEW x \in Contexts, Moves(x) PROVE OnePlace'
    BY <1>3, PlacedMoves, DistinctMoves DEF OnePlace
<1>4. CASE UNCHANGED vars
    BY <1>1, <1>4 DEF vars, flowVars
<1>. QED
    BY <1>2, <1>3, <1>4, NextIs

-----------------------------------------------------------------------------
(* The order of a story *)

\* Nothing is out of order in the empty story.
LEMMA InTurnInit == Init => InTurn
<1>. SUFFICES ASSUME Init PROVE InTurn
    OBVIOUS
<1>1. Range(<<>>) = {} /\ \A R : Sorted(<<>>, R)
    BY SortedEmpty
<1>. QED
    BY <1>1 DEF Init, UnitInit, InTurn, TurnIn, TurnBy, Ahead

\* Records of two units do not come after one another.
LEMMA Crossing ==
    ASSUME Typed, Homely, NEW u \in Homes, NEW v \in Homes, u # v,
           NEW a \in Range(story[u]), NEW b \in Range(story[v])
    PROVE  <<a, b>> \in NotAfter
<1>1. /\ \A w \in Homes : story[w] \in Seq(Records)
      /\ \A w \in Homes : \A k \in DOMAIN story[w] : story[w][k] \in Range(story[w])
      /\ \A w \in Homes : w # u => a \notin Range(story[w])
      /\ \A w \in Homes : w # v => b \notin Range(story[w])
    BY DEF Typed, TypeOK, Homely, Range
<1>2. a \in Records /\ b \in Records /\ a # b
    BY <1>1 DEF Range
<1>3. ASSUME NEW w \in Homes, NEW k \in DOMAIN story[w], NEW l \in DOMAIN story[w],
             story[w][k] = a, story[w][l] = b
      PROVE  k < l
    BY <1>1, <1>3
<1>. QED
    BY <1>2, <1>3 DEF NotAfter

\* A new record comes after all, and changes nothing between the others.
LEMMA NewIsLast ==
    ASSUME Typed, NEW x \in Contexts, NEW q \in Records, Begun(x, q), NEW a \in Records, a # q
    PROVE  /\ <<a, q>> \in NotAfter'
           /\ \A b : <<a, b>> \in NotAfter => <<a, b>> \in NotAfter'
<1>1. /\ story \in [Homes -> Seq(Records)] /\ current[x] \in Homes
      /\ story' = [story EXCEPT ![current[x]] = Append(story[current[x]], q)]
      /\ \A u \in Homes : q \notin Range(story[u])
    BY StoryGrows DEF Typed, TypeOK, Begun
<1>2. ASSUME NEW u \in Homes, NEW k \in DOMAIN story'[u]
      PROVE  \/ k \in DOMAIN story[u] /\ story'[u][k] = story[u][k] /\ story[u][k] # q
                /\ (\A l \in DOMAIN story'[u] : story'[u][l] = q => k < l)
             \/ story'[u][k] = q
    <2>1. Len(story[u]) \in Nat /\ DOMAIN story[u] = 1 .. Len(story[u])
          /\ story[u] \in Seq(Records)
        BY <1>1
    <2>2. CASE u = current[x]
        <3>1. story'[u] = Append(story[u], q)
            BY <1>1, <2>2
        <3>2. /\ DOMAIN story'[u] = 1 .. Len(story[u]) + 1 /\ story'[u][Len(story[u]) + 1] = q
              /\ \A l \in 1 .. Len(story[u]) : story'[u][l] = story[u][l] /\ story[u][l] # q
            BY <1>1, <2>1, <3>1 DEF Range
        <3>. QED
            BY <1>2, <2>1, <3>2
    <2>3. CASE u # current[x]
        <3>1. story'[u] = story[u] /\ \A l \in DOMAIN story[u] : story[u][l] # q
            BY <1>1, <2>3 DEF Range
        <3>. QED
            BY <1>2, <2>1, <3>1
    <2>. QED
        BY <2>2, <2>3
<1>3. <<a, q>> \in NotAfter'
    <2>1. ASSUME NEW u \in Homes, NEW k \in DOMAIN story'[u], NEW l \in DOMAIN story'[u],
                 story'[u][k] = a, story'[u][l] = q
          PROVE  k < l
        BY <1>2, <2>1
    <2>. QED
        BY <2>1 DEF NotAfter
<1>4. ASSUME NEW b, <<a, b>> \in NotAfter PROVE <<a, b>> \in NotAfter'
    <2>1. CASE b = q
        BY <1>3, <2>1
    <2>2. CASE b # q
        <3>1. ASSUME NEW u \in Homes, NEW k \in DOMAIN story'[u], NEW l \in DOMAIN story'[u],
                     story'[u][k] = a, story'[u][l] = b
              PROVE  k < l
            <4>1. /\ k \in DOMAIN story[u] /\ story[u][k] = a
                  /\ l \in DOMAIN story[u] /\ story[u][l] = b
                BY <1>2, <2>2, <3>1
            <4>. QED
                BY <1>4, <4>1 DEF NotAfter
        <3>. QED
            BY <1>4, <3>1 DEF NotAfter
    <2>. QED
        BY <2>1, <2>2
<1>. QED
    BY <1>3, <1>4

\* What a context is about to write is all its unit has.
LEMMA NothingLeft ==
    ASSUME Typed, Alone, Homely, HeldBack, ~setup.sharing,
           NEW x \in Contexts, pc[x] \in {"pass", "forward"}, NEW a \in Range(story[current[x]])
    PROVE  /\ \A s \in States : Ahead({a}, Range(buffer[s]), NotAfter)
           /\ \A y \in Contexts : y # x =>
                  /\ Ahead({a}, Range(pending[y]), NotAfter)
                  /\ rec[y] # NoRecord => Ahead({a}, {rec[y]}, NotAfter)
<1>1. /\ current[x] \in Homes /\ current[x] # NoUnit /\ mine[x] = kept[current[x]]
      /\ \A y \in Contexts : y # x => current[y] # current[x] /\ current[y] \in Homes
    BY OwnState, Holds, UnitAssumption DEF Outside
<1>2. ASSUME NEW v \in Homes, v # current[x], NEW b \in Range(story[v]) PROVE <<a, b>> \in NotAfter
    BY <1>1, <1>2, Crossing
<1>3. ASSUME NEW s \in States PROVE Ahead({a}, Range(buffer[s]), NotAfter)
    <2>1. HomeOf(s) \in Homes /\ Range(buffer[s]) \subseteq Range(story[HomeOf(s)])
        BY StateIsPair DEF Homely, HomeOf, Homes
    <2>2. CASE HomeOf(s) # current[x]
        BY <1>2, <2>1, <2>2 DEF Ahead
    <2>3. CASE HomeOf(s) = current[x]
        <3>1. buffer[s] # <<>> => s = mine[x]
            BY <1>1, <2>3 DEF HeldBack, HomeOf
        <3>2. buffer[mine[x]] = <<>>
            BY Holds DEF HeldBack
        <3>. QED
            BY <3>1, <3>2, SortedEmpty DEF Ahead
    <2>. QED
        BY <2>2, <2>3
<1>4. ASSUME NEW y \in Contexts, y # x
      PROVE  /\ Ahead({a}, Range(pending[y]), NotAfter)
             /\ rec[y] # NoRecord => Ahead({a}, {rec[y]}, NotAfter)
    <2>1. current[y] \in Homes /\ current[y] # current[x]
        BY <1>1, <1>4
    <2>2. /\ Range(pending[y]) \subseteq Range(story[current[y]])
          /\ rec[y] # NoRecord => rec[y] \in Range(story[current[y]])
        BY DEF Homely
    <2>. QED
        BY <1>2, <2>1, <2>2 DEF Ahead
<1>. QED
    BY <1>3, <1>4

\* Ahead, of unions and of the empty set.
LEMMA AheadBoth ==
    ASSUME NEW R, NEW S, NEW T, NEW A
    PROVE  /\ Ahead(S \cup T, A, R) <=> Ahead(S, A, R) /\ Ahead(T, A, R)
           /\ Ahead(A, S \cup T, R) <=> Ahead(A, S, R) /\ Ahead(A, T, R)
           /\ Ahead({}, A, R) /\ Ahead(A, {}, R)
  BY DEF Ahead

\* A new record of a story.
LEMMA TurnBegun ==
    ASSUME Typed, Homely, InTurn, NEW x \in Contexts, NEW q \in Records, Begun(x, q), Moves(x)
    PROVE  InTurn'
<1>0. /\ story \in [Homes -> Seq(Records)] /\ current[x] \in Homes
      /\ rec \in [Contexts -> Records \cup {NoRecord}]
      /\ setup' = setup /\ current' = current /\ \A y \in Contexts : y # x => pc'[y] = pc[y]
      /\ \A s \in States : HomeOf(s)' = HomeOf(s)
    BY MovesDo DEF Typed, TypeOK, Begun, Stays, HomeOf
<1>1. /\ story' = [story EXCEPT ![current[x]] = Append(story[current[x]], q)]
      /\ rec' = [rec EXCEPT ![x] = q] /\ UNCHANGED <<buffer, pending, forwarded>>
    BY DEF Begun
<1>2. /\ Range(forwarded) \subseteq Records \ {q}
      /\ \A s \in States : Range(buffer[s]) \subseteq Records \ {q}
      /\ \A y \in Contexts : Range(pending[y]) \subseteq Records \ {q}
      /\ \A y \in Contexts : rec[y] # q
    <2>1. /\ Range(forwarded) \subseteq Records
          /\ \A s \in States : Range(buffer[s]) \subseteq Records
          /\ \A y \in Contexts : Range(pending[y]) \subseteq Records
        BY DEF Typed, TypeOK, Range
    <2>2. \A u \in Homes : q \notin Range(story[u])
        BY StoryGrows
    <2>3. /\ \A s \in States : HomeOf(s) \in Homes
          /\ \A y \in Contexts : current[y] \in Homes
        BY StateIsPair, Holds DEF HomeOf, Homes
    <2>4. q \notin Range(forwarded) /\ q # NoRecord
        BY CrossedAssumption DEF Homely, Begun
    <2>. QED
        BY <2>1, <2>2, <2>3, <2>4 DEF Homely
<1>3. \A a \in Records \ {q} : <<a, q>> \in NotAfter' /\ \A b : <<a, b>> \in NotAfter => <<a, b>> \in NotAfter'
    BY NewIsLast
<1>4. \A S, T : S \subseteq Records \ {q} /\ Ahead(S, T, NotAfter) => Ahead(S, T, NotAfter')
    BY <1>3 DEF Ahead
<1>5. \A s : Range(s) \subseteq Records \ {q} /\ Sorted(s, NotAfter) => Sorted(s, NotAfter')
    BY <1>3 DEF Sorted, Range
<1>6. \A S : S \subseteq Records \ {q} => Ahead(S, {q}, NotAfter')
    BY <1>3 DEF Ahead
<1>7. ASSUME NEW u \in Homes PROVE Sorted(story'[u], Distinct(Records))
    <2>1. Sorted(story[u], Distinct(Records)) /\ story[u] \in Seq(Records) /\ q \notin Range(story[u])
        BY <1>0, StoryGrows DEF InTurn
    <2>2. Ahead(Range(story[u]), {q}, Distinct(Records))
        BY <2>1 DEF Ahead, Distinct, Range
    <2>3. Sorted(Append(story[u], q), Distinct(Records))
        BY <2>1, <2>2, SortedAppend
    <2>. QED
        BY <1>0, <1>1, <2>1, <2>3
<1>8. ASSUME ~setup.sharing
      PROVE  /\ Sorted(forwarded', NotAfter')
             /\ \A s \in States : TurnIn(s)'
             /\ \A y \in Contexts : TurnBy(y)'
    <2>1. Sorted(forwarded, NotAfter) /\ (\A s \in States : TurnIn(s)) /\ (\A y \in Contexts : TurnBy(y))
        BY <1>8 DEF InTurn
    <2>2. Sorted(forwarded', NotAfter') /\ \A s \in States : TurnIn(s)'
        BY <1>1, <1>2, <1>4, <1>5, <2>1 DEF TurnIn
    <2>3. ASSUME NEW y \in Contexts PROVE TurnBy(y)'
        <3>1. Sorted(pending[y], NotAfter') /\ Ahead(Range(forwarded), Range(pending[y]), NotAfter')
            BY <1>2, <1>4, <1>5, <2>1 DEF TurnBy
        <3>2. CASE y = x
            BY <1>0, <1>1, <1>2, <1>6, <3>1, <3>2 DEF TurnBy
        <3>3. CASE y # x
            <4>1. rec'[y] = rec[y] /\ pc'[y] = pc[y] /\ current'[y] = current[y]
                BY <1>0, <1>1, <3>3
            <4>2. rec[y] # NoRecord /\ pc[y] # "decide" =>
                      /\ Ahead(Range(forwarded), {rec[y]}, NotAfter')
                      /\ \A s \in States : HomeOf(s) = current[y] => Ahead(Range(buffer[s]), {rec[y]}, NotAfter')
                BY <1>2, <1>4, <2>1 DEF TurnBy
            <4>. QED
                BY <1>0, <1>1, <3>1, <4>1, <4>2 DEF TurnBy
        <3>. QED
            BY <3>2, <3>3
    <2>. QED
        BY <2>2, <2>3
<1>. QED
    BY <1>0, <1>7, <1>8 DEF InTurn

\* What is written by a context precedes what it and the others have left.
LEMMA TurnWritten ==
    ASSUME Typed, Alone, Homely, HeldBack, InTurn, ~setup.sharing,
           NEW x \in Contexts, Stays(x), pc[x] \in {"pass", "forward"}, NEW t \in Seq(Records),
           Sorted(t, NotAfter), Ahead(Range(forwarded), Range(t), NotAfter),
           Range(t) \subseteq Range(story[current[x]]),
           forwarded' = forwarded \o t, story' = story, buffer' = buffer,
           rec'[x] = NoRecord, pending'[x] = <<>>,
           \A y \in Contexts : y # x => rec'[y] = rec[y] /\ pending'[y] = pending[y]
    PROVE  InTurn'
<1>0. /\ forwarded \in Seq(Records) /\ NotAfter' = NotAfter
      /\ Range(forwarded') = Range(forwarded) \cup Range(t)
      /\ Sorted(<<>>, NotAfter) /\ Range(<<>>) = {}
      /\ \A s \in States : HomeOf(s)' = HomeOf(s)
    BY RangeConcatenation, SortedEmpty DEF Typed, TypeOK, NotAfter, HomeOf
<1>1. /\ setup' = setup /\ current' = current
      /\ \A y \in Contexts : y # x => pc'[y] = pc[y]
    BY DEF Stays
<1>2. Sorted(forwarded, NotAfter) /\ (\A s \in States : TurnIn(s)) /\ (\A y \in Contexts : TurnBy(y))
    BY DEF InTurn
<1>3. /\ \A s \in States : Ahead(Range(t), Range(buffer[s]), NotAfter)
      /\ \A y \in Contexts : y # x =>
             /\ Ahead(Range(t), Range(pending[y]), NotAfter)
             /\ rec[y] # NoRecord => Ahead(Range(t), {rec[y]}, NotAfter)
    <2>1. ASSUME NEW a \in Range(t)
          PROVE  /\ \A s \in States : Ahead({a}, Range(buffer[s]), NotAfter)
                 /\ \A y \in Contexts : y # x =>
                        /\ Ahead({a}, Range(pending[y]), NotAfter)
                        /\ rec[y] # NoRecord => Ahead({a}, {rec[y]}, NotAfter)
        BY <2>1, NothingLeft
    <2>. QED
        BY <2>1 DEF Ahead
<1>4. Sorted(forwarded', NotAfter)
    BY <1>0, <1>2, SortedConcat
<1>5. ASSUME NEW s \in States PROVE TurnIn(s)'
    <2>1. Ahead(Range(forwarded'), Range(buffer[s]), NotAfter)
        BY <1>0, <1>2, <1>3, AheadBoth DEF TurnIn
    <2>. QED
        BY <1>0, <1>2, <2>1 DEF TurnIn
<1>6. ASSUME NEW y \in Contexts PROVE TurnBy(y)'
    <2>1. CASE y = x
        <3>1. Ahead(Range(forwarded'), {}, NotAfter)
            BY AheadBoth
        <3>. QED
            BY <1>0, <2>1, <3>1 DEF TurnBy
    <2>2. CASE y # x
        <3>1. /\ Ahead(Range(forwarded'), Range(pending[y]), NotAfter)
              /\ rec[y] # NoRecord /\ pc[y] # "decide" => Ahead(Range(forwarded'), {rec[y]}, NotAfter)
            BY <1>0, <1>2, <1>3, <2>2, AheadBoth DEF TurnBy
        <3>2. rec'[y] = rec[y] /\ pending'[y] = pending[y] /\ pc'[y] = pc[y]
            BY <1>1, <2>2
        <3>. QED
            BY <1>0, <1>1, <1>2, <3>1, <3>2 DEF TurnBy
    <2>. QED
        BY <2>1, <2>2
<1>. QED
    BY <1>0, <1>1, <1>4, <1>5, <1>6 DEF InTurn

\* A step that writes nothing: each buffer and each batch is in order after it.
LEMMA TurnKept ==
    ASSUME Typed, InTurn, ~setup.sharing, NEW x \in Contexts, Stays(x),
           story' = story, forwarded' = forwarded, rec'[x] \in {rec[x], NoRecord},
           \A y \in Contexts : y # x => rec'[y] = rec[y] /\ pending'[y] = pending[y],
           pc[x] # "decide" \/ rec'[x] = NoRecord,
           \A s \in States : TurnIn(s)',
           \A s \in States : Range(buffer'[s]) \subseteq Range(buffer[s])
                             \/ \A y \in Contexts : rec'[y] # NoRecord /\ pc'[y] # "decide" => HomeOf(s) # current[y],
           Sorted(pending'[x], NotAfter), Ahead(Range(forwarded), Range(pending'[x]), NotAfter)
    PROVE  InTurn'
<1>0. /\ NotAfter' = NotAfter /\ setup' = setup /\ current' = current
      /\ \A y \in Contexts : y # x => pc'[y] = pc[y]
      /\ \A s \in States : HomeOf(s)' = HomeOf(s)
    BY DEF NotAfter, Stays, HomeOf
<1>1. \A y \in Contexts : TurnBy(y)
    BY DEF InTurn
<1>2. ASSUME NEW y \in Contexts PROVE TurnBy(y)'
    <2>1. Sorted(pending'[y], NotAfter) /\ Ahead(Range(forwarded), Range(pending'[y]), NotAfter)
        BY <1>1 DEF TurnBy
    <2>2. ASSUME rec'[y] # NoRecord, pc'[y] # "decide"
          PROVE  /\ Ahead(Range(forwarded), {rec'[y]}, NotAfter)
                 /\ \A s \in States : HomeOf(s) = current[y] => Ahead(Range(buffer'[s]), {rec'[y]}, NotAfter)
        <3>1. rec'[y] = rec[y] /\ pc[y] # "decide"
            BY <1>0, <2>2
        <3>2. /\ Ahead(Range(forwarded), {rec[y]}, NotAfter)
              /\ \A s \in States : HomeOf(s) = current[y] => Ahead(Range(buffer[s]), {rec[y]}, NotAfter)
            BY <1>1, <2>2, <3>1 DEF TurnBy
        <3>. QED
            BY <2>2, <3>1, <3>2 DEF Ahead
    <2>. QED
        BY <1>0, <2>1, <2>2 DEF TurnBy
<1>. QED
    BY <1>0, <1>2 DEF InTurn

\* Each step of the handler keeps the order of the story.
LEMMA TurnMoves ==
    ASSUME Typed, Alone, Homely, HeldBack, InTurn, NEW x \in Contexts, Moves(x)
    PROVE  InTurn'
<1>0. /\ buffer \in [States -> Seq(Records)] /\ rec \in [Contexts -> Records \cup {NoRecord}]
      /\ pending \in [Contexts -> Seq(Records)] /\ forwarded \in Seq(Records)
      /\ pc \in [Contexts -> CrossedPhases] /\ \A R : Sorted(<<>>, R)
      /\ Range(<<>>) = {}
    BY SortedEmpty DEF Typed, TypeOK
<1>1. Stays(x) /\ \A y \in Contexts : y # x => rec'[y] = rec[y] /\ pending'[y] = pending[y]
    BY MovesDo, OnlyMine
<1>2. ASSUME NEW q \in Records, Begun(x, q) PROVE InTurn'
    BY <1>2, TurnBegun
<1>. SUFFICES ASSUME ~\E q \in Records : Begun(x, q) PROVE InTurn'
    BY <1>2
<1>3. story' = story /\ NotAfter' = NotAfter /\ setup' = setup
    BY <1>1, Flows DEF Flow, NotAfter, Stays
<1>. SUFFICES ASSUME ~setup.sharing PROVE InTurn'
    BY <1>3 DEF InTurn
<1>4. (\A s \in States : TurnIn(s)) /\ TurnBy(x) /\ current[x] \in Homes
    BY Holds DEF InTurn
\* A step that leaves the buffers and the batches alone, and takes no new record.
<1>5. ASSUME UNCHANGED <<buffer, forwarded>>, pending'[x] = pending[x], rec'[x] \in {rec[x], NoRecord},
             pc[x] # "decide" \/ rec'[x] = NoRecord
      PROVE  InTurn'
    <2>1. \A s \in States : TurnIn(s)'
        BY <1>3, <1>4, <1>5 DEF TurnIn
    <2>2. Sorted(pending'[x], NotAfter) /\ Ahead(Range(forwarded), Range(pending'[x]), NotAfter)
        BY <1>4, <1>5 DEF TurnBy
    <2>. QED
        BY <1>1, <1>3, <1>5, <2>1, <2>2, TurnKept
\* A step that empties a buffer into its batch.
<1>6. ASSUME NEW s \in States, buffer' = [buffer EXCEPT ![s] = <<>>], rec[x] = NoRecord,
             UNCHANGED <<rec, forwarded>>,
             Sorted(pending'[x], NotAfter), Ahead(Range(forwarded), Range(pending'[x]), NotAfter)
      PROVE  InTurn'
    <2>1. \A t \in States : buffer'[t] \in {buffer[t], <<>>} /\ Range(buffer'[t]) \subseteq Range(buffer[t])
        BY <1>0, <1>6
    <2>2. ASSUME NEW t \in States PROVE TurnIn(t)'
        <3>1. Sorted(buffer'[t], NotAfter) /\ Ahead(Range(forwarded), Range(buffer'[t]), NotAfter)
            BY <1>0, <1>4, <2>1, AheadBoth DEF TurnIn
        <3>. QED
            BY <1>3, <1>6, <3>1 DEF TurnIn
    <2>. QED
        BY <1>1, <1>3, <1>6, <2>1, <2>2, TurnKept
<1>7. CASE HasRead(x)
    BY <1>5, <1>7 DEF HasRead, crossedVars
<1>8. CASE Decided(x)
    BY <1>0, <1>5, <1>8 DEF Decided
<1>9. CASE Called(x)
    BY <1>5, <1>9 DEF Called
<1>10. CASE Appended(x)
    <2>. DEFINE s == mine[x]
    <2>1. PICK b \in Seq(Records), out \in SUBSET Records :
              /\ buffer' = [buffer EXCEPT ![s] = Append(b, rec[x])]
              /\ Range(b) \cup out = Range(buffer[s])
              /\ dropped' = dropped \cup out
              /\ \A R : Sorted(buffer[s], R) => Sorted(b, R) /\ Ahead(out, Range(b), R)
        BY <1>10, Adds
    <2>2. /\ s \in States /\ rec[x] \in Records /\ pc[x] = "append" /\ pc'[x] = "decide"
          /\ UNCHANGED <<rec, pending, forwarded>>
        BY <1>0, <1>10 DEF Appended
    <2>3. HomeOf(s) = current[x] /\ rec[x] # NoRecord /\ current[x] # NoUnit
          /\ \A y \in Contexts : y # x => current[y] # current[x]
        BY <2>2, AtHome, OwnState, CrossedAssumption, UnitAssumption DEF Outside
    <2>. HIDE DEF s
    <2>4. Ahead(Range(forwarded), {rec[x]}, NotAfter) /\ Ahead(Range(buffer[s]), {rec[x]}, NotAfter)
        BY <1>4, <2>2, <2>3 DEF TurnBy
    <2>5. Sorted(buffer[s], NotAfter) /\ Ahead(Range(forwarded), Range(buffer[s]), NotAfter)
        BY <1>4, <2>2 DEF TurnIn
    <2>6. Sorted(b, NotAfter) /\ Ahead(Range(b), {rec[x]}, NotAfter) /\ Ahead(Range(forwarded), Range(b), NotAfter)
        BY <2>1, <2>4, <2>5, AheadBoth
    <2>7. Sorted(Append(b, rec[x]), NotAfter) /\ Range(Append(b, rec[x])) = Range(b) \cup {rec[x]}
        BY <2>2, <2>6, SortedAppend, RangeAppend
    <2>8. Ahead(Range(forwarded), Range(Append(b, rec[x])), NotAfter)
        BY <2>4, <2>6, <2>7, AheadBoth
    <2>9. ASSUME NEW t \in States PROVE TurnIn(t)'
        <3>1. Sorted(buffer'[t], NotAfter) /\ Ahead(Range(forwarded), Range(buffer'[t]), NotAfter)
            BY <1>0, <1>4, <2>1, <2>2, <2>7, <2>8 DEF TurnIn
        <3>. QED
            BY <1>3, <2>2, <3>1 DEF TurnIn
    <2>10. ASSUME NEW t \in States
           PROVE  \/ Range(buffer'[t]) \subseteq Range(buffer[t])
                  \/ \A y \in Contexts : rec'[y] # NoRecord /\ pc'[y] # "decide" => HomeOf(t) # current[y]
        BY <1>0, <2>1, <2>2, <2>3
    <2>11. Sorted(pending'[x], NotAfter) /\ Ahead(Range(forwarded), Range(pending'[x]), NotAfter)
        BY <1>4, <2>2 DEF TurnBy
    <2>. QED
        BY <1>1, <1>3, <2>2, <2>9, <2>10, <2>11, TurnKept
<1>11. CASE Swapped(x)
    <2>1. /\ mine[x] \in States /\ rec[x] = NoRecord /\ UNCHANGED <<rec, forwarded>>
          /\ buffer' = [buffer EXCEPT ![mine[x]] = <<>>] /\ pending'[x] = buffer[mine[x]]
        BY <1>0, <1>11 DEF Swapped
    <2>2. TurnIn(mine[x])
        BY <1>4, <2>1
    <2>. QED
        BY <1>6, <2>1, <2>2 DEF TurnIn
<1>12. CASE Flushed(x)
    <2>1. /\ mine[x] \in States /\ rec[x] = NoRecord /\ UNCHANGED <<rec, forwarded>>
          /\ buffer[mine[x]] \in Seq(Records)
          /\ buffer' = [buffer EXCEPT ![mine[x]] = <<>>]
          /\ pending'[x] = Selected(buffer[mine[x]], Floor)
        BY <1>0, <1>12 DEF Flushed
    <2>2. Sorted(buffer[mine[x]], NotAfter) /\ Ahead(Range(forwarded), Range(buffer[mine[x]]), NotAfter)
        BY <1>4, <2>1 DEF TurnIn
    <2>3. /\ Sorted(pending'[x], NotAfter)
          /\ Range(pending'[x]) = Range(buffer[mine[x]]) \cap Floor
        BY <2>1, <2>2, SortedSelected, SelectedRange
    <2>4. Ahead(Range(forwarded), Range(pending'[x]), NotAfter)
        BY <2>2, <2>3 DEF Ahead
    <2>. QED
        BY <1>6, <2>1, <2>3, <2>4
<1>13. CASE Cleared(x)
    <2>1. /\ mine[x] \in States /\ rec[x] = NoRecord /\ UNCHANGED <<rec, forwarded, pending>>
          /\ buffer' = [buffer EXCEPT ![mine[x]] = <<>>]
        BY <1>13 DEF Cleared
    <2>. QED
        BY <1>4, <1>6, <2>1 DEF TurnBy
<1>14. CASE Passed(x)
    <2>1. /\ rec[x] \in Records /\ pc[x] = "pass" /\ forwarded' = Append(forwarded, rec[x])
          /\ UNCHANGED <<buffer, pending>> /\ rec'[x] = NoRecord
        BY <1>0, <1>14 DEF Passed
    <2>2. PICK t \in Seq(Records) : /\ forwarded' = forwarded \o t
                                    /\ Range(t) = {rec[x]} /\ Sorted(t, NotAfter)
        <3>1. <<rec[x]>> \in Seq(Records) /\ Append(forwarded, rec[x]) = forwarded \o <<rec[x]>>
            BY <1>0, <2>1
        <3>2. Range(<<rec[x]>>) = {rec[x]} /\ Sorted(<<rec[x]>>, NotAfter)
            BY DEF Range, Sorted
        <3>. QED
            BY <2>1, <3>1, <3>2
    <2>3. rec[x] # NoRecord /\ pending'[x] = <<>>
        BY <2>1, Holds, CrossedAssumption
    <2>4. Ahead(Range(forwarded), Range(t), NotAfter) /\ Range(t) \subseteq Range(story[current[x]])
        BY <1>4, <2>1, <2>2, <2>3 DEF TurnBy, Homely
    <2>. QED
        BY <1>1, <1>3, <2>1, <2>2, <2>3, <2>4, TurnWritten
<1>15. CASE Forwarded(x)
    <2>1. /\ pc[x] = "forward" /\ rec'[x] = NoRecord /\ pending[x] \in Seq(Records)
          /\ forwarded' = forwarded \o pending[x] /\ pending'[x] = <<>> /\ buffer' = buffer
        BY <1>0, <1>15 DEF Forwarded
    <2>2. /\ Sorted(pending[x], NotAfter) /\ Ahead(Range(forwarded), Range(pending[x]), NotAfter)
          /\ Range(pending[x]) \subseteq Range(story[current[x]])
        BY <1>4 DEF TurnBy, Homely
    <2>. QED
        BY <1>1, <1>3, <2>1, <2>2, TurnWritten
<1>. QED
    BY <1>7, <1>8, <1>9, <1>10, <1>11, <1>12, <1>13, <1>14, <1>15, MovesDo

\* And so do the steps elsewhere.
LEMMA InTurnNext == Typed /\ Alone /\ Homely /\ HeldBack /\ InTurn /\ [Next]_vars => InTurn'
<1>. SUFFICES ASSUME Typed, Alone, Homely, HeldBack, InTurn, [Next]_vars PROVE InTurn'
    OBVIOUS
<1>1. ASSUME NEW x \in Contexts, Elsewhere(x) PROVE InTurn'
    <2>1. Passes(x)
        BY <1>1, ElsewhereDoes
    <2>2. /\ UNCHANGED <<buffer, rec, pending, forwarded, story>> /\ setup' = setup
          /\ NotAfter' = NotAfter /\ \A s \in States : HomeOf(s)' = HomeOf(s)
        BY <2>1 DEF Passes, crossedVars, NotAfter, HomeOf
    <2>3. ASSUME NEW y \in Contexts, TurnBy(y) PROVE TurnBy(y)'
        <3>1. CASE rec[y] = NoRecord
            BY <2>2, <2>3, <3>1 DEF TurnBy
        <3>2. CASE rec[y] # NoRecord
            <4>1. pc[y] \notin {"idle", "ending"}
                BY <3>2, Holds
            <4>2. current'[y] = current[y] /\ (pc[y] = "decide" => pc'[y] = "decide")
                BY <2>1, <4>1 DEF Passes
            <4>. QED
                BY <2>2, <2>3, <4>2 DEF TurnBy
        <3>. QED
            BY <3>1, <3>2
    <2>4. ASSUME NEW s \in States, TurnIn(s) PROVE TurnIn(s)'
        BY <2>2, <2>4 DEF TurnIn
    <2>. QED
        BY <2>2, <2>3, <2>4 DEF InTurn
<1>2. CASE UNCHANGED vars
    <2>1. /\ UNCHANGED <<buffer, rec, pending, forwarded, story, setup, current, pc>>
          /\ NotAfter' = NotAfter /\ \A s \in States : HomeOf(s)' = HomeOf(s)
        BY <1>2 DEF vars, unitVars, flowVars, crossedVars, NotAfter, HomeOf
    <2>. QED
        BY <2>1 DEF InTurn, TurnIn, TurnBy
<1>. QED
    BY <1>1, <1>2, TurnMoves, NextIs

-----------------------------------------------------------------------------
(* What follows from the invariants *)

\* What is in turn is in order.
LEMMA OrderFollows == Typed /\ InTurn => InOrder
<1>. SUFFICES ASSUME Typed, InTurn, ~setup.sharing, NEW u \in Homes,
                     NEW k \in DOMAIN story[u], NEW l \in DOMAIN story[u],
                     NEW i \in DOMAIN forwarded, NEW j \in DOMAIN forwarded,
                     story[u][k] = forwarded[i], story[u][l] = forwarded[j]
              PROVE  k < l <=> i < j
    BY DEF InOrder
<1>1. /\ Sorted(forwarded, NotAfter) /\ Sorted(story[u], Distinct(Records))
      /\ forwarded \in Seq(Records) /\ story[u] \in Seq(Records)
    BY DEF InTurn, Typed, TypeOK
<1>2. i \in Nat /\ j \in Nat /\ k \in Nat /\ l \in Nat
    BY <1>1
<1>3. i < j => k < l
    BY <1>1 DEF Sorted, NotAfter
<1>4. j < i => l < k
    BY <1>1 DEF Sorted, NotAfter
<1>5. k < l => forwarded[i] # forwarded[j]
    BY <1>1 DEF Sorted, Distinct
<1>. QED
    BY <1>2, <1>3, <1>4, <1>5

\* One place is one.
LEMMA ConservedFollows == Typed /\ OnePlace => Conserved
<1>. SUFFICES ASSUME Typed, OnePlace, NEW r \in Logged PROVE Cardinality(Places(r)) = 1
    BY DEF Conserved
<1>1. r \in Records
    BY DEF Typed, TypeOK, Logged, Range
<1>2. PICK p : Places(r) = {p}
    BY <1>1, PlacedIs DEF OnePlace, Single
<1>. QED
    BY <1>2, FS_Singleton

\* What is on its way is in the hands of a context that is at work.
LEMMA AlarmsFollow == Typed /\ Rung => AlarmsArrive
<1>. SUFFICES ASSUME Typed, Rung, ~setup.sharing, NEW u \in Homes,
                     NEW r \in Activating \cap Range(story[u]), r \notin Range(forwarded)
              PROVE  \E x \in Contexts : pc[x] # "idle" /\ current[x] = u
    BY DEF AlarmsArrive
<1>1. PICK x \in Contexts : current[x] = u /\ OnItsWay(x, r)
    BY DEF Rung
<1>2. r # NoRecord
    BY CrossedAssumption
<1>3. pc[x] # "idle"
    BY <1>1, <1>2, Holds DEF OnItsWay
<1>. QED
    BY <1>1, <1>3

\* A state that no longer buffers holds nothing.
LEMMA ReleaseFollows == HeldBack => ReleasedIsEmpty
  BY DEF HeldBack, ReleasedIsEmpty, Released

\* A unit that has ended holds nothing.
LEMMA EndFollows == HeldBack => EndedIsFlushed
  BY DEF HeldBack, EndedIsFlushed, States

-----------------------------------------------------------------------------
(* The inductive invariant, and the theorems *)

CrossedInv == Typed /\ Alone /\ Homely /\ Quiet /\ HeldBack /\ Rung /\ OnePlace /\ InTurn

\* The invariant holds at the start.
LEMMA CrossedInit == Init => CrossedInv
<1>1. Init => Alone
    BY AloneInit DEF Init
<1>. QED
    BY <1>1, TypedInit, HomelyInit, QuietInit, HeldBackInit, RungInit, OnePlaceInit, InTurnInit
       DEF CrossedInv

\* Every step preserves it, each part from itself and those before it.
LEMMA CrossedNext == CrossedInv /\ [Next]_vars => CrossedInv'
  BY TypedNext, AloneNext, HomelyNext, QuietNext, HeldBackNext, RungNext, OnePlaceNext, InTurnNext
     DEF CrossedInv

\* The promises of the handler follow from it.
LEMMA CrossedFollow ==
    CrossedInv => /\ TypeOK /\ Conserved /\ SilentUnlessActivated /\ AlarmsArrive
                  /\ ReleasedIsEmpty /\ EndedIsFlushed /\ InOrder
  BY ConservedFollows, AlarmsFollow, ReleaseFollows, EndFollows, OrderFollows
     DEF CrossedInv, Typed, Quiet

\* However contexts share units and interleave, the invariant holds: no record
\* is lost or written twice, none is released by another unit's trouble; and
\* where each unit has one context, alarms arrive, what was held back goes with
\* them or at the end of the unit, and the story is written in its order.
THEOREM CrossedInvariant == Spec => []CrossedInv
<1>1. Init => CrossedInv
    BY CrossedInit
<1>2. CrossedInv /\ [Next]_vars => CrossedInv'
    BY CrossedNext
<1>. QED
    BY <1>1, <1>2, PTL DEF Spec

\* Hence all the promises of the handler, of every behaviour.
THEOREM CrossedHolds ==
    Spec => [](/\ TypeOK /\ Conserved /\ SilentUnlessActivated /\ AlarmsArrive
               /\ ReleasedIsEmpty /\ EndedIsFlushed /\ InOrder)
  BY CrossedInvariant, CrossedFollow, PTL

-----------------------------------------------------------------------------
(* The owners of state together *)

\* Each owner keeps its own invariant.
UnitsInv ==
    \/ Crossed /\ CrossedInv
    \/ Buffer /\ B!BufferInv
    \/ Uid /\ U!UidInv

unitsVars == <<owner, vars, closing, U!uidVars>>

\* The setups of the instances meet the assumptions of their modules.
LEMMA SetupsAreSound == B!UnitAssumption /\ B!BufferAssumption /\ U!UnitAssumption
<1>1. B!BufferAssumption
    BY UnitsAssumption
<1>2. B!UnitAssumption
    BY UnitAssumption
       DEF B!UnitAssumption, B!UnitStates, UnitStates, AllBuffers, SoloBuffer, SharedBuffer,
           PushingEcho, NestedEcho
<1>3. U!UnitAssumption
    BY UnitAssumption DEF U!UnitAssumption, U!UnitStates, UnitStates, BothUids
<1>. QED
    BY <1>1, <1>2, <1>3

\* No owner is another.
LEMMA OneOwner == ~(Crossed /\ Buffer) /\ ~(Crossed /\ Uid) /\ ~(Buffer /\ Uid)
  BY DEF Crossed, Buffer, Uid

\* Whichever owner a behaviour is of, its invariant holds at first.
LEMMA UnitsBegin == UnitsInit => UnitsInv
  BY CrossedInit, B!BufferInit, U!UidInit, SetupsAreSound DEF UnitsInit, UnitsInv

\* A step is one of the owner, or leaves all as it is.
LEMMA UnitsStep == UnitsInv /\ [UnitsNext]_unitsVars => UnitsInv'
<1>. SUFFICES ASSUME UnitsInv, [UnitsNext]_unitsVars PROVE UnitsInv'
    OBVIOUS
<1>1. CASE UNCHANGED unitsVars
    <2>1. UNCHANGED <<owner, vars, B!vars, U!vars>>
        BY <1>1 DEF unitsVars, vars, unitVars, flowVars, crossedVars, B!vars, B!unitVars, B!flowVars,
            B!bufferVars, U!vars, U!unitVars, U!flowVars, U!uidVars
    <2>. QED
        BY <2>1, CrossedNext, B!BufferNext, U!UidNext, SetupsAreSound
           DEF UnitsInv, Crossed, Buffer, Uid
<1>2. CASE Crossed /\ Next /\ owner' = owner
    <2>1. CrossedInv
        BY <1>2, OneOwner DEF UnitsInv
    <2>. QED
        BY <1>2, <2>1, CrossedNext DEF UnitsInv, Crossed
<1>3. CASE Buffer /\ B!Next /\ owner' = owner
    <2>1. B!BufferInv
        BY <1>3, OneOwner DEF UnitsInv
    <2>. QED
        BY <1>3, <2>1, B!BufferNext, SetupsAreSound DEF UnitsInv, Buffer
<1>4. CASE Uid /\ U!Next /\ owner' = owner
    <2>1. U!UidInv
        BY <1>4, OneOwner DEF UnitsInv
    <2>. QED
        BY <1>4, <2>1, U!UidNext, SetupsAreSound DEF UnitsInv, Uid
<1>. QED
    BY <1>1, <1>2, <1>3, <1>4 DEF UnitsNext

\* What it implies.
LEMMA UnitsFollow ==
    UnitsInv => /\ UnitsTypeOK /\ NothingLost /\ OrderIsKept /\ NothingIsLeft
                /\ AlarmsRelease /\ TiedTogether
<1>1. CASE Crossed /\ CrossedInv
    <2>1. TypeOK /\ Conserved /\ InOrder /\ EndedIsFlushed /\ ReleasedIsEmpty
          /\ AlarmsArrive /\ SilentUnlessActivated
        BY <1>1, CrossedFollow
    <2>. QED
        BY <1>1, <2>1, OneOwner DEF UnitsTypeOK, NothingLost, OrderIsKept, NothingIsLeft,
            AlarmsRelease, TiedTogether
<1>2. CASE Buffer /\ B!BufferInv
    <2>1. B!TypeOK /\ B!Conserved /\ B!OldestGoFirst /\ B!InOrder /\ B!EndedIsFlushed
        BY <1>2, B!BufferFollow, SetupsAreSound
    <2>. QED
        BY <1>2, <2>1, OneOwner DEF UnitsTypeOK, NothingLost, OrderIsKept, NothingIsLeft,
            AlarmsRelease, TiedTogether
<1>3. CASE Uid /\ U!UidInv
    <2>1. U!TypeOK /\ U!TiedTogether
        BY <1>3, U!UidFollow, SetupsAreSound
    <2>. QED
        BY <1>3, <2>1, OneOwner DEF UnitsTypeOK, NothingLost, OrderIsKept, NothingIsLeft,
            AlarmsRelease, TiedTogether
<1>. QED
    BY <1>1, <1>2, <1>3 DEF UnitsInv

\* Whichever owner of state it is of, a behaviour keeps that owner's invariant.
THEOREM UnitsInvariant == UnitsSpec => []UnitsInv
<1>1. UnitsInit => UnitsInv
    BY UnitsBegin
<1>2. UnitsInv /\ [UnitsNext]_unitsVars => UnitsInv'
    BY UnitsStep
<1>. QED
    BY <1>1, <1>2, PTL DEF UnitsSpec, unitsVars

\* The variables of each owner are of their types.
THEOREM UnitsAreTyped == UnitsSpec => []UnitsTypeOK
  BY UnitsInvariant, UnitsFollow, PTL

\* However contexts and units interleave with the buffers being filled, evicted
\* from, cleared, released and flushed, a record that was logged is in one place.
THEOREM NoneIsLost == UnitsSpec => []NothingLost
  BY UnitsInvariant, UnitsFollow, PTL

\* What is written of a unit in one context is in the order of its story, unless
\* the handler a BufferHandler wraps logs and overflow flushes, and what such a
\* unit dropped of a buffer came before what it still holds.
THEOREM NoneIsSwapped == UnitsSpec => []OrderIsKept
  BY UnitsInvariant, UnitsFollow, PTL

\* Nothing is held for a unit of one context that has ended, unless the handler a
\* BufferHandler wraps logs into it, or was released.
THEOREM NoneIsForgotten == UnitsSpec => []NothingIsLeft
  BY UnitsInvariant, UnitsFollow, PTL

\* In a unit of one context an alarm is on its way or written, and nothing that
\* is below the floor is written for a unit without one.
THEOREM AlarmsDoRelease == UnitsSpec => []AlarmsRelease
  BY UnitsInvariant, UnitsFollow, PTL

\* An id ties together the records of one unit and era, and no others.
THEOREM IdsTie == UnitsSpec => []TiedTogether
  BY UnitsInvariant, UnitsFollow, PTL
=============================================================================
