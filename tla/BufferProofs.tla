---------------------------- MODULE BufferProofs ----------------------------
(***************************************************************************)
(* BufferHandler, proved for any contexts, units, records and setups: its  *)
(* types, that what is logged is in one place however calls interleave,    *)
(* and, where each unit has one context, which records a full buffer       *)
(* loses, the order of the story, and that the end of a unit is a flush.   *)
(***************************************************************************)
EXTENDS BufferHandler, LogUnitProofs, SelectionProofs, FiniteSetTheorems

-----------------------------------------------------------------------------
(* The invariants *)

\* A record is in the hands of a context from handle() to the buffer, a batch
\* only while it is forwarded, and end_unit() goes through nothing but the flush,
\* as close() does on its way to the wrapped handler.
HandAt(x) ==
    /\ rec[x] # NoRecord <=>
           \/ pc[x] = "add"
           \/ pc[x] \in {"create", "register"} /\ todo[x] = "add"
    /\ pc[x] \in {"create", "register"} => todo[x] \in {"add", "flush", "clear"}
    /\ pending[x] # <<>> => pc[x] = "forward"
    /\ slot[x] > 0 => pc[x] \in {"ending", "flush", "forward"}
    /\ closing[x] =>
           /\ slot[x] = 0
           /\ \/ pc[x] \in {"flush", "forward", "closeWrapped"}
              \/ pc[x] \in {"create", "register"} /\ todo[x] = "flush"

Typed ==
    /\ BufferAssumption
    /\ TypeOK /\ UnitInv(BufferPhases) /\ \A x \in Contexts : HandAt(x)

\* A record is logged in one unit, and is kept where that unit's state is.
Homely ==
    /\ \A u, v \in Homes : u # v => Range(story[u]) \cap Range(story[v]) = {}
    /\ \A s \in States : Range(buffer[s]) \subseteq Range(story[HomeOf(s)])
    /\ \A x \in Contexts : Range(pending[x]) \subseteq Range(story[current[x]])
    /\ \A x \in Contexts : rec[x] # NoRecord => rec[x] \in Range(story[current[x]])
    /\ Range(forwarded) \cup dropped \subseteq Logged

\* A unit used by one context: only the state it keeps holds anything; and, if
\* the wrapped handler logs nothing, only while the context is in it, which goes
\* on from the flush of a unit's end with an empty buffer.
HeldBack == ~setup.sharing =>
    /\ \A s \in States : buffer[s] # <<>> => s # Instance /\ s = kept[s[1]]
    /\ ~setup.echo =>
           /\ \A s \in States : buffer[s] # <<>> => \E x \in Contexts : current[x] = s[1]
           /\ \A x \in Contexts :
                  /\ pc[x] = "forward" /\ slot[x] > 0 => buffer[mine[x]] = <<>>
                  /\ pc[x] = "ending" /\ slot[x] > 1 /\ current[x] # NoUnit =>
                         buffer[kept[current[x]]] = <<>>

\* The records that do not come after one another in the story of a unit.
NotAfter ==
    {p \in Records \X Records :
        /\ p[1] # p[2]
        /\ \A u \in Homes : \A k, l \in DOMAIN story[u] :
               story[u][k] = p[1] /\ story[u][l] = p[2] => k < l}

\* Where a record is, kind by kind.
HandsOf(r) == {x \in Contexts : rec[x] = r}
BuffersOf(r) == {s \in States : r \in Range(buffer[s])}
BatchesOf(r) == {x \in Contexts : r \in Range(pending[x])}
OutsOf(r) == Spots(forwarded, r)
DropsOf(r) == {r} \cap dropped

\* A record that was logged is in one place, one that was not is in none.
Placed(r) ==
    \/ r \notin Logged /\ None(HandsOf(r), BuffersOf(r), BatchesOf(r), OutsOf(r)) /\ DropsOf(r) = {}
    \/ r \in Logged /\ Single(HandsOf(r)) /\ None(BuffersOf(r), BatchesOf(r), OutsOf(r), DropsOf(r))
    \/ r \in Logged /\ Single(BuffersOf(r)) /\ None(HandsOf(r), BatchesOf(r), OutsOf(r), DropsOf(r))
    \/ r \in Logged /\ Single(BatchesOf(r)) /\ None(HandsOf(r), BuffersOf(r), OutsOf(r), DropsOf(r))
    \/ r \in Logged /\ Single(OutsOf(r)) /\ None(HandsOf(r), BuffersOf(r), BatchesOf(r), DropsOf(r))
    \/ r \in Logged /\ Single(DropsOf(r)) /\ None(HandsOf(r), BuffersOf(r), BatchesOf(r), OutsOf(r))

OnePlace ==
    /\ \A r \in Records : Placed(r)
    /\ \A s \in States : Sorted(buffer[s], Distinct(Records))
    /\ \A x \in Contexts : Sorted(pending[x], Distinct(Records))

\* Whether batches are written in turn: what the wrapped handler logs may
\* overflow in the middle of one.
Straight == ~(setup.echo /\ setup.flush)

\* A story is told in its order, if batches B are to be written after F, D was
\* dropped, H is held and C has just come in.
TurnIn(s, H, F, D) ==
    /\ Sorted(H[s], NotAfter)
    /\ Ahead(Range(F) \cup D, Range(H[s]), NotAfter)

TurnBy(x, H, B, F, D, C) ==
    /\ Straight => Sorted(B[x], NotAfter) /\ Ahead(Range(F), Range(B[x]), NotAfter)
    /\ \A s \in States : HomeOf(s) = current[x] => Ahead(Range(B[x]), Range(H[s]), NotAfter)
    /\ C[x] # NoRecord =>
           /\ Ahead(Range(F) \cup D, {C[x]}, NotAfter)
           /\ \A s \in States : HomeOf(s) = current[x] => Ahead(Range(H[s]), {C[x]}, NotAfter)

Turn(H, B, F, D, C) ==
    /\ Straight => Sorted(F, NotAfter)
    /\ \A s \in States : TurnIn(s, H, F, D)
    /\ \A x \in Contexts : TurnBy(x, H, B, F, D, C)

InTurn ==
    /\ \A u \in Homes : Sorted(story[u], Distinct(Records))
    /\ ~setup.sharing => Turn(buffer, pending, forwarded, dropped, rec)

-----------------------------------------------------------------------------
(* Types *)

\* The steps of a context in the code of the handler, save the records that the
\* wrapped handler logs.
Moves(x) == HandlerStep(x) \/ (\E r \in Records : BeginHandle(x, r)) \/ CallHandler(x)

\* The variables are of their types at first.
LEMMA TypedInit == BufferAssumption /\ Init => Typed
<1>. SUFFICES ASSUME BufferAssumption, Init PROVE Typed
    OBVIOUS
<1>1. UnitInv(BufferPhases)
    BY UnitInvInit DEF Init, BufferPhases
<1>2. TypeOK
    <2>1. \A s \in States : buffer[s] = <<>> /\ Len(buffer[s]) = 0
        BY DEF Init
    <2>2. \A s \in States : setup.limit > 0 => Len(buffer[s]) <= setup.limit
        BY <2>1 DEF Init, UnitInit, BufferAssumption
    <2>. QED
        BY <1>1, <2>2 DEF TypeOK, UnitInv, UnitTyped, Init
<1>3. \A x \in Contexts : HandAt(x)
    BY DEF Init, UnitInit, HandAt
<1>. QED
    BY <1>1, <1>2, <1>3 DEF Typed

\* Each step of the handler is one that LogUnitProofs provides for, but for a
\* record given, which moves no context.
LEMMA MovesAre ==
    ASSUME Typed, NEW x \in Contexts, Moves(x), ~Give(x) PROVE HandlerMoves(BufferPhases, x)
<1>1. slot[x] \in Nat /\ (pc[x] \notin {"ending", "flush", "forward"} => slot[x] = 0)
    BY DEF Typed, HandAt, UnitInv, UnitTyped, UnitTypeOK
<1>2. {"add", "flush", "clear", "forward", "closeWrapped"} \subseteq BufferPhases \ Outside
    BY DEF BufferPhases, Outside
<1>3. CASE \E r \in Records : BeginHandle(x, r)
    <2>1. /\ pc[x] = "idle" /\ (setup.sharing \/ current[x] # NoUnit) /\ LookupThen(x, "add")
          /\ UNCHANGED unitVars
        BY <1>3 DEF BeginHandle
    <2>. QED
        BY <1>1, <1>2, <2>1 DEF HandlerMoves, unitVars
<1>4. CASE AddRecord(x)
    BY <1>2, <1>4 DEF AddRecord, HandlerMoves, unitVars, Outside
<1>5. CASE FlushState(x)
    BY <1>2, <1>5 DEF FlushState, AfterFlush, HandlerMoves, unitVars, Outside
<1>6. CASE ClearState(x)
    BY <1>2, <1>6 DEF ClearState, HandlerMoves, unitVars, Outside
<1>7. CASE EndForward(x)
    BY <1>2, <1>7 DEF EndForward, AfterFlush, HandlerMoves, unitVars, Outside
<1>10. CASE ForwardFails(x)
    <2>1. (slot[x] > 0) \in BOOLEAN
        BY <1>1
    <2>2. /\ failed' = [failed EXCEPT ![x] = slot[x] > 0] /\ Return(x) /\ pc[x] = "forward"
          /\ UNCHANGED <<setup, current, opened, kept, callbacks, slot, next, todo>>
        BY <1>10 DEF ForwardFails
    <2>3. \E b \in BOOLEAN : (b => slot[x] > 0) /\ failed' = [failed EXCEPT ![x] = b]
        BY <2>1, <2>2, Zenon
    <2>. QED
        BY <2>2, <2>3 DEF HandlerMoves, Outside
<1>8. CASE CloseWrapped(x)
    BY <1>2, <1>8 DEF CloseWrapped, HandlerMoves, unitVars, Outside
<1>9. CASE CallHandler(x)
    <2>1. /\ pc[x] = "idle" /\ (setup.sharing \/ current[x] # NoUnit) /\ UNCHANGED unitVars
          /\ LookupThen(x, "flush") \/ LookupThen(x, "clear")
        BY <1>9 DEF CallHandler
    <2>. QED
        BY <1>1, <1>2, <2>1 DEF HandlerMoves, unitVars
<1>. QED
    BY <1>3, <1>4, <1>5, <1>6, <1>7, <1>8, <1>9, <1>10 DEF Moves, HandlerStep

\* A step is one of the handler, or one of the units that it does not notice, or
\* a record of the wrapped handler.
Elsewhere(x) == (UnitStep(x) \/ UnitCall(x)) /\ UNCHANGED bufferVars
Echoes(x) == \E r \in Records : EchoRecord(x, r)

-----------------------------------------------------------------------------
(* What the steps do, without their detail *)

\* handle() begins: the record is new to the story.
Begun(x, r) ==
    /\ r \notin Logged /\ current[x] \in Homes /\ story[current[x]] \in Seq(Records)
    /\ setup.sharing \/ current[x] # NoUnit
    /\ pc[x] = "idle" /\ rec[x] = NoRecord
    /\ story' = [story EXCEPT ![current[x]] = Append(story[current[x]], r)]
    /\ rec' = [rec EXCEPT ![x] = r]
    /\ (pc'[x] = "create" /\ todo'[x] = "add") \/ pc'[x] = "add"
    /\ UNCHANGED <<buffer, pending, closing, forwarded, dropped, failed>>

\* A record joins a buffer, in the place of the first if it is full.
Joins(s, r) ==
    \/ /\ buffer' = [buffer EXCEPT ![s] = Append(buffer[s], r)]
       /\ setup.limit > 0 => Len(Append(buffer[s], r)) <= setup.limit
       /\ dropped' = dropped
    \/ /\ buffer[s] # <<>>
       /\ buffer' = [buffer EXCEPT ![s] = Append(Tail(buffer[s]), r)]
       /\ Len(Append(Tail(buffer[s]), r)) = Len(buffer[s])
       /\ dropped' = dropped \cup {Head(buffer[s])}

\* The buffer is taken whole, before what is left of a batch, and the record
\* starts the next.
Takes(x, s, r) ==
    /\ setup.flush /\ setup.limit > 0
    /\ pending' = [pending EXCEPT ![x] = buffer[s] \o pending[x]]
    /\ buffer' = [buffer EXCEPT ![s] = <<r>>]
    /\ dropped' = dropped

\* A record of the wrapped handler is new to the story, and goes to the buffer.
Echoed(x, r) ==
    LET u == current[x]
    IN  /\ r \notin Logged /\ u \in Homes /\ story[u] \in Seq(Records)
        /\ pc[x] = "forward" /\ setup.echo /\ pending[x] \in Seq(Records)
        /\ \E s \in States :
               /\ HomeOf(s) = u /\ buffer[s] \in Seq(Records)
               /\ u # NoUnit => s = kept[u]
               /\ Takes(x, s, r) \/ (Joins(s, r) /\ pending' = pending)
        /\ story' = [story EXCEPT ![u] = Append(story[u], r)]
        /\ UNCHANGED <<unitVars, flowVars, rec, closing, forwarded>>

\* The record is added.
Added(x) ==
    LET s == mine[x]
        r == rec[x]
    IN  /\ s \in States /\ buffer[s] \in Seq(Records) /\ r \in Records
        /\ pc[x] = "add" /\ slot[x] = 0 /\ pc'[x] = "idle"
        /\ Joins(s, r)
        /\ rec' = [rec EXCEPT ![x] = NoRecord]
        /\ UNCHANGED <<todo, pending, closing, forwarded, story, failed>>

\* It does not fit.
Overflowed(x) ==
    LET s == mine[x]
        r == rec[x]
    IN  /\ s \in States /\ buffer[s] \in Seq(Records) /\ r \in Records
        /\ pc[x] = "add" /\ slot[x] = 0 /\ pc'[x] = "forward"
        /\ setup.limit > 0
        /\ pending' = [pending EXCEPT ![x] = buffer[s]]
        /\ buffer' = [buffer EXCEPT ![s] = <<r>>]
        /\ rec' = [rec EXCEPT ![x] = NoRecord]
        /\ UNCHANGED <<todo, mine, closing, forwarded, dropped, story, failed>>

\* The call goes on when a flush is over.
Over(x) ==
    \/ closing[x] /\ pc'[x] = "closeWrapped" /\ mine' = mine
    \/ ~closing[x] /\ pc'[x] = IF slot[x] = 0 THEN "idle" ELSE "ending"

\* The buffer is taken, to be forwarded if there is anything in it.
Flushed(x) ==
    LET s == mine[x]
    IN  /\ s \in States /\ pc[x] = "flush" /\ rec[x] = NoRecord /\ buffer[s] \in Seq(Records)
        /\ \/ pc'[x] = "forward" /\ mine' = mine
           \/ buffer[s] = <<>> /\ Over(x)
        /\ pending' = [pending EXCEPT ![x] = buffer[s]]
        /\ buffer' = [buffer EXCEPT ![s] = <<>>]
        /\ UNCHANGED <<rec, closing, forwarded, dropped, story, failed>>

\* All is dropped.
Cleared(x) ==
    LET s == mine[x]
    IN  /\ s \in States /\ pc[x] = "clear" /\ slot[x] = 0 /\ pc'[x] = "idle"
        /\ rec[x] = NoRecord /\ buffer[s] \in Seq(Records)
        /\ buffer' = [buffer EXCEPT ![s] = <<>>]
        /\ dropped' = dropped \cup Range(buffer[s])
        /\ UNCHANGED <<rec, pending, closing, forwarded, story, failed>>

\* The first record of a batch is written.
Given(x) ==
    /\ pc[x] = "forward" /\ rec[x] = NoRecord /\ pending[x] \in Seq(Records) /\ pending[x] # <<>>
    /\ forwarded' = Append(forwarded, Head(pending[x]))
    /\ pending' = [pending EXCEPT ![x] = Tail(pending[x])]
    /\ UNCHANGED <<buffer, rec, closing, dropped, story, pc, mine>>

\* The batch is over;
Ended(x) ==
    /\ pc[x] = "forward" /\ rec[x] = NoRecord /\ pending[x] = <<>> /\ Over(x)
    /\ UNCHANGED <<buffer, rec, pending, closing, forwarded, dropped, story>>

\* or the wrapped handler raises, and the rest goes with it.
Failed(x) ==
    /\ pc[x] = "forward" /\ rec[x] = NoRecord /\ pending[x] \in Seq(Records)
    /\ pc'[x] = IF slot[x] = 0 THEN "idle" ELSE "ending"
    /\ closing' = [closing EXCEPT ![x] = FALSE]
    /\ dropped' = dropped \cup Range(pending[x]) /\ pending' = [pending EXCEPT ![x] = <<>>]
    /\ UNCHANGED <<buffer, rec, forwarded, story>>

\* close() is over.
Closed(x) ==
    /\ pc[x] = "closeWrapped" /\ slot[x] = 0 /\ pc'[x] = "idle" /\ rec[x] = NoRecord
    /\ closing' = [closing EXCEPT ![x] = FALSE]
    /\ UNCHANGED <<buffer, rec, pending, forwarded, dropped, story, failed>>

\* A call from outside looks the state up.
Called(x) ==
    /\ pc[x] = "idle" /\ slot[x] = 0 /\ rec[x] = NoRecord
    /\ \E there \in {"flush", "clear"} :
           /\ (pc'[x] = "create" /\ todo'[x] = there) \/ pc'[x] = there
           /\ \/ closing' = closing
              \/ there = "flush" /\ closing' = [closing EXCEPT ![x] = TRUE]
    /\ UNCHANGED <<buffer, rec, pending, forwarded, dropped, story, failed>>

\* The units, and the other contexts, are left as they are.
Stays(x) ==
    /\ UNCHANGED <<setup, current, opened, kept, callbacks, slot, next>>
    /\ \A y \in Contexts : y # x => pc'[y] = pc[y] /\ todo'[y] = todo[y] /\ mine'[y] = mine[y]

\* A step of the units: a context that changes its unit holds nothing.
Passes(x) ==
    /\ UNCHANGED bufferVars /\ setup' = setup
    /\ \A y \in Contexts : y # x =>
           pc'[y] = pc[y] /\ todo'[y] = todo[y] /\ slot'[y] = slot[y] /\ mine'[y] = mine[y]
    /\ \A y \in Contexts :
           current'[y] # current[y] => pc[y] \in {"idle", "ending"} /\ pc'[y] = "idle"
    /\ \/ pc[x] = "create" /\ pc'[x] = "register" /\ todo'[x] = todo[x] /\ slot'[x] = 0
       \/ pc[x] = "register" /\ pc'[x] = todo[x] /\ slot'[x] = 0
       \/ pc[x] = "ending" /\ pc'[x] = "flush"
       \/ pc[x] = "ending" /\ pc'[x] = "idle" /\ slot'[x] = 0
       \/ pc[x] = "idle" /\ pc'[x] = "ending"
       \/ pc[x] = "idle" /\ pc'[x] = "idle" /\ slot'[x] = slot[x]

\* What a context holds.
LEMMA Holds ==
    ASSUME Typed, NEW x \in Contexts
    PROVE  /\ mine[x] \in States /\ buffer[mine[x]] \in Seq(Records)
           /\ current[x] \in Homes /\ pending[x] \in Seq(Records) /\ slot[x] \in Nat
           /\ NoRecord \notin Records
           /\ pc[x] \notin {"ending", "flush", "forward"} => slot[x] = 0
           /\ pc[x] = "add" => rec[x] \in Records
           /\ pc[x] \notin {"add", "create", "register"} => rec[x] = NoRecord
           /\ pc[x] # "forward" => pending[x] = <<>>
           /\ rec[x] # NoRecord => rec[x] \in Records
           /\ closing[x] \in BOOLEAN
<1>1. slot[x] \in Nat /\ HandAt(x)
    BY DEF Typed, TypeOK, UnitTypeOK
<1>2. pc[x] \notin {"ending", "flush", "forward"} => slot[x] = 0
    BY <1>1 DEF HandAt
<1>3. /\ mine[x] \in States /\ buffer[mine[x]] \in Seq(Records)
      /\ current[x] \in Homes /\ pending[x] \in Seq(Records)
      /\ rec[x] \in Records \cup {NoRecord} /\ NoRecord \notin Records
      /\ closing[x] \in BOOLEAN
    BY DEF Typed, TypeOK, UnitTypeOK, Homes, BufferAssumption
<1>. QED
    BY <1>1, <1>2, <1>3 DEF HandAt

\* BeginHandle, without its detail.
LEMMA BeginHandleDoes ==
    ASSUME Typed, NEW x \in Contexts, NEW r \in Records, BeginHandle(x, r)
    PROVE  Begun(x, r)
<1>1. current[x] \in Homes
    BY DEF Typed, TypeOK, UnitTypeOK, Homes
<1>2. story[current[x]] \in Seq(Records) /\ rec[x] = NoRecord
    BY <1>1 DEF Typed, TypeOK, HandAt, BeginHandle
<1>3. (pc'[x] = "create" /\ todo'[x] = "add") \/ pc'[x] = "add"
    BY DEF BeginHandle, LookupThen, GoTo, Typed, TypeOK
<1>. QED
    BY <1>1, <1>2, <1>3 DEF BeginHandle, unitVars, Begun

\* Place, without its detail.
LEMMA PlaceDoes ==
    ASSUME Typed, NEW x \in Contexts, NEW s \in States, NEW r \in Records, Place(x, s, r)
    PROVE  /\ buffer[s] \in Seq(Records)
           /\ IF Full(s) /\ setup.flush THEN Takes(x, s, r) ELSE Joins(s, r) /\ pending' = pending
<1>1. /\ buffer[s] \in Seq(Records) /\ Len(buffer[s]) \in Nat /\ setup.limit \in Nat
      /\ setup.limit > 0 => Len(buffer[s]) <= setup.limit
    BY DEF Typed, TypeOK, UnitTypeOK, BufferAssumption
<1>2. CASE Full(s) /\ setup.flush /\ TakeOverflow(x, s, r)
    BY <1>1, <1>2 DEF TakeOverflow, Full, Takes
<1>3. CASE Full(s) /\ ~setup.flush /\ PushOldestOut(s, r) /\ UNCHANGED pending
    <2>1. Len(buffer[s]) = setup.limit /\ setup.limit > 0 /\ buffer[s] # <<>>
        BY <1>1, <1>3 DEF Full
    <2>2. Len(Append(Tail(buffer[s]), r)) = Len(buffer[s])
        BY <1>1, <2>1
    <2>. QED
        BY <1>1, <1>3, <2>1, <2>2 DEF PushOldestOut, Joins
<1>4. CASE ~Full(s) /\ Hold(s, r) /\ UNCHANGED pending
    <2>1. Len(Append(buffer[s], r)) = Len(buffer[s]) + 1
        BY <1>1
    <2>2. setup.limit > 0 => Len(Append(buffer[s], r)) <= setup.limit
        BY <1>1, <1>4, <2>1 DEF Full
    <2>. QED
        BY <1>1, <1>4, <2>2 DEF Hold, Joins
<1>. QED
    BY <1>2, <1>3, <1>4 DEF Place

\* EchoRecord, without its detail.
LEMMA EchoRecordDoes ==
    ASSUME Typed, NEW x \in Contexts, NEW r \in Records, EchoRecord(x, r)
    PROVE  Echoed(x, r)
<1>. DEFINE u == current[x]
            s == IF u = NoUnit THEN Instance ELSE kept[u]
<1>1. u \in Homes /\ story[u] \in Seq(Records) /\ pending[x] \in Seq(Records)
    BY DEF Typed, TypeOK, UnitTypeOK, Homes
<1>2. s \in States /\ HomeOf(s) = u /\ (u # NoUnit => s = kept[u])
    <2>1. CASE u = NoUnit
        BY <2>1 DEF HomeOf, States
    <2>2. CASE u # NoUnit
        BY <1>1, <2>2 DEF EchoRecord, HomeOf, Homes, Typed, TypeOK, UnitTypeOK, UnitInv, StatesAreOwn
    <2>. QED
        BY <2>1, <2>2
<1>3. /\ Place(x, s, r)
      /\ story' = [story EXCEPT ![u] = Append(story[u], r)]
      /\ UNCHANGED <<unitVars, flowVars, rec, closing, forwarded>>
      /\ pc[x] = "forward" /\ setup.echo /\ r \notin Logged
    BY DEF EchoRecord
<1>. HIDE DEF s
<1>4. buffer[s] \in Seq(Records) /\ (Takes(x, s, r) \/ (Joins(s, r) /\ pending' = pending))
    BY <1>2, <1>3, PlaceDoes
<1>. QED
    BY <1>1, <1>2, <1>3, <1>4 DEF Echoed

\* AddRecord, without its detail.
LEMMA AddRecordDoes ==
    ASSUME Typed, NEW x \in Contexts, AddRecord(x)
    PROVE  Added(x) \/ Overflowed(x)
<1>. DEFINE s == mine[x]
            r == rec[x]
<1>1. /\ s \in States /\ r \in Records /\ pc[x] = "add" /\ slot[x] = 0 /\ pending[x] = <<>>
    BY Holds DEF AddRecord
<1>2. /\ rec' = [rec EXCEPT ![x] = NoRecord]
      /\ UNCHANGED <<todo, closing, forwarded, story, failed>>
      /\ pc \in [Contexts -> BufferPhases]
    BY DEF AddRecord, unitVars, Typed, TypeOK
<1>3. /\ buffer[s] \in Seq(Records)
      /\ IF Full(s) /\ setup.flush THEN Takes(x, s, r) ELSE Joins(s, r) /\ pending' = pending
    BY <1>1, PlaceDoes DEF AddRecord
<1>4. CASE Full(s) /\ setup.flush
    <2>1. GoTo(x, "forward") /\ UNCHANGED mine
        BY <1>4 DEF AddRecord
    <2>2. buffer[s] \o pending[x] = buffer[s]
        BY <1>1, <1>3
    <2>. QED
        BY <1>1, <1>2, <1>3, <1>4, <2>1, <2>2 DEF Takes, GoTo, Overflowed
<1>5. CASE ~(Full(s) /\ setup.flush)
    <2>1. Return(x)
        BY <1>5 DEF AddRecord
    <2>. QED
        BY <1>1, <1>2, <1>3, <1>5, <2>1 DEF Return, GoTo, Added
<1>. QED
    BY <1>4, <1>5

\* AfterFlush, without its detail.
LEMMA AfterFlushDoes ==
    ASSUME Typed, NEW x \in Contexts, AfterFlush(x) PROVE Over(x)
  BY DEF AfterFlush, Return, GoTo, Typed, TypeOK, Over

\* FlushState, without its detail.
LEMMA FlushStateDoes ==
    ASSUME Typed, NEW x \in Contexts, FlushState(x)
    PROVE  Flushed(x)
<1>1. mine[x] \in States /\ buffer[mine[x]] \in Seq(Records) /\ pc[x] = "flush" /\ rec[x] = NoRecord
    BY Holds DEF FlushState
<1>2. \/ pc'[x] = "forward" /\ mine' = mine
      \/ buffer[mine[x]] = <<>> /\ Over(x)
    BY AfterFlushDoes DEF FlushState, GoTo, Typed, TypeOK
<1>. QED
    BY <1>1, <1>2 DEF FlushState, unitVars, Flushed

\* ClearState, without its detail.
LEMMA ClearStateDoes ==
    ASSUME Typed, NEW x \in Contexts, ClearState(x)
    PROVE  Cleared(x)
<1>1. /\ mine[x] \in States /\ buffer[mine[x]] \in Seq(Records)
      /\ pc[x] = "clear" /\ slot[x] = 0 /\ rec[x] = NoRecord
    BY Holds DEF ClearState
<1>. QED
    BY <1>1 DEF ClearState, Return, GoTo, unitVars, Typed, TypeOK, Cleared

\* The steps of a batch, without their detail.
LEMMA ForwardDoes ==
    ASSUME Typed, NEW x \in Contexts, Give(x) \/ EndForward(x) \/ ForwardFails(x)
    PROVE  Given(x) \/ Ended(x) \/ Failed(x)
<1>1. pc[x] = "forward" /\ rec[x] = NoRecord /\ pending[x] \in Seq(Records)
    BY Holds DEF Give, EndForward, ForwardFails
<1>2. CASE Give(x)
    BY <1>1, <1>2 DEF Give, flowVars, Given
<1>3. CASE EndForward(x)
    BY <1>1, <1>3, AfterFlushDoes DEF EndForward, bufferVars, Ended
<1>4. CASE ForwardFails(x)
    BY <1>1, <1>4 DEF ForwardFails, EndClose, Return, GoTo, Typed, TypeOK, Failed
<1>. QED
    BY <1>2, <1>3, <1>4

\* CloseWrapped, without its detail.
LEMMA CloseWrappedDoes ==
    ASSUME Typed, NEW x \in Contexts, CloseWrapped(x)
    PROVE  Closed(x)
<1>1. pc[x] = "closeWrapped" /\ slot[x] = 0 /\ rec[x] = NoRecord
    BY Holds DEF CloseWrapped
<1>. QED
    BY <1>1 DEF CloseWrapped, EndClose, Return, GoTo, unitVars, Typed, TypeOK, Closed

\* CallHandler, without its detail.
LEMMA CallHandlerDoes ==
    ASSUME Typed, NEW x \in Contexts, CallHandler(x)
    PROVE  Called(x)
<1>1. pc[x] = "idle" /\ slot[x] = 0 /\ rec[x] = NoRecord
    BY Holds DEF CallHandler
<1>2. UNCHANGED <<buffer, rec, pending, forwarded, dropped, story, failed>>
    BY DEF CallHandler, unitVars
<1>3. \A there : LookupThen(x, there) =>
          (pc'[x] = "create" /\ todo'[x] = there) \/ pc'[x] = there
    BY DEF LookupThen, GoTo, Typed, TypeOK
<1>4. \/ LookupThen(x, "flush") /\ closing' = closing
      \/ LookupThen(x, "flush") /\ closing' = [closing EXCEPT ![x] = TRUE]
      \/ LookupThen(x, "clear") /\ closing' = closing
    BY DEF CallHandler
<1>. QED
    BY <1>1, <1>2, <1>3, <1>4 DEF Called

\* A step of the handler is one of these, in one context.
LEMMA MovesDo ==
    ASSUME Typed, NEW x \in Contexts, Moves(x)
    PROVE  /\ Stays(x)
           /\ \/ \E r \in Records : Begun(x, r)
              \/ Added(x) \/ Overflowed(x) \/ Flushed(x) \/ Cleared(x)
              \/ Given(x) \/ Ended(x) \/ Failed(x) \/ Closed(x) \/ Called(x)
<1>1. CASE Give(x)
    BY <1>1, ForwardDoes DEF Give, unitVars, flowVars, Stays
<1>2. ASSUME ~Give(x) PROVE Stays(x)
    <2>1. HandlerMoves(BufferPhases, x)
        BY <1>2, MovesAre
    <2>2. pc \in [Contexts -> BufferPhases] /\ todo \in [Contexts -> BufferPhases]
          /\ mine \in [Contexts -> States]
        BY DEF Typed, TypeOK, UnitTypeOK
    <2>. QED
        BY <2>1, <2>2 DEF HandlerMoves, LookupThen, Return, GoTo, Stays
<1>. QED
    BY <1>1, <1>2, BeginHandleDoes, AddRecordDoes, FlushStateDoes, ClearStateDoes, ForwardDoes,
       CloseWrappedDoes, CallHandlerDoes
       DEF Moves, HandlerStep

\* A step of the units, without its detail.
LEMMA ElsewhereDoes ==
    ASSUME Typed, NEW x \in Contexts, Elsewhere(x)
    PROVE  Passes(x)
<1>0. /\ pc \in [Contexts -> BufferPhases] /\ todo \in [Contexts -> BufferPhases]
      /\ mine \in [Contexts -> States]
      /\ slot \in [Contexts -> Nat] /\ current \in [Contexts -> Units \cup {NoUnit}]
      /\ pc[x] # "ending" => slot[x] = 0 \/ pc[x] \in {"flush", "forward"}
    BY Holds DEF Typed, TypeOK, UnitTypeOK
<1>1. UNCHANGED bufferVars
    BY DEF Elsewhere
<1>2. CASE CreateState(x)
    BY <1>0, <1>1, <1>2 DEF CreateState, Create, GoTo, Passes
<1>3. CASE RegisterState(x)
    BY <1>0, <1>1, <1>3 DEF RegisterState, GoTo, Passes
<1>4. CASE NextCallback(x)
    BY <1>0, <1>1, <1>4 DEF NextCallback, GoTo, Passes
<1>5. CASE LeaveUnit(x)
    BY <1>0, <1>1, <1>5 DEF LeaveUnit, GoTo, Passes
<1>6. CASE \E u \in Units \cup {NoUnit} : BeginEnding(x, u)
    BY <1>0, <1>1, <1>6 DEF BeginEnding, GoTo, Passes
<1>7. CASE \E y \in Contexts : CopyContext(x, y)
    BY <1>0, <1>1, <1>7 DEF CopyContext, flowVars, Passes
<1>. QED
    BY <1>2, <1>3, <1>4, <1>5, <1>6, <1>7 DEF Elsewhere, UnitStep, UnitCall

\* Every step is of one context.
LEMMA NextIs == Next => \E x \in Contexts : Moves(x) \/ Elsewhere(x) \/ Echoes(x)
  BY DEF Next, Step, Moves, Elsewhere, Echoes

\* A record of the wrapped handler moves no context.
LEMMA EchoesDo ==
    ASSUME Typed, NEW x \in Contexts, Echoes(x)
    PROVE  /\ UNCHANGED <<unitVars, flowVars>> /\ Stays(x)
           /\ \E r \in Records : Echoed(x, r)
  BY EchoRecordDoes DEF Echoes, Echoed, unitVars, flowVars, Stays

\* The invariants of the units are kept.
LEMMA UnitsKept ==
    ASSUME Typed, NEW x \in Contexts, Moves(x) \/ Elsewhere(x) \/ Echoes(x)
    PROVE  UnitInv(BufferPhases)' /\ (Alone => Alone')
<1>0. UnitInv(BufferPhases) /\ {"idle", "create", "register", "ending", "flush"} \subseteq BufferPhases
    BY DEF Typed, BufferPhases
<1>1. CASE Moves(x) /\ ~Give(x)
    BY <1>0, <1>1, MovesAre, MoveKeeps, AloneMoves
<1>2. CASE CreateState(x)
    BY <1>0, <1>2, CreateKeeps, AloneCreate
<1>3. CASE RegisterState(x)
    BY <1>0, <1>3, RegisterKeeps, AloneRegister
<1>4. CASE NextCallback(x)
    BY <1>0, <1>4, CallbackKeeps, AloneCallback
<1>5. CASE LeaveUnit(x)
    BY <1>0, <1>5, LeaveKeeps, AloneLeave
<1>6. CASE UnitCall(x)
    BY <1>0, <1>6, CallKeeps, AloneCall
<1>7. CASE Echoes(x) \/ Give(x)
    <2>1. UNCHANGED <<unitVars, flowVars>>
        BY <1>7, EchoesDo DEF Give
    <2>2. UnitInv(BufferPhases)'
        BY <1>0, <2>1 DEF UnitInv, UnitTyped, UnitTypeOK, StatesAreOwn, PhasesAt, unitVars, flowVars
    <2>. QED
        BY <2>1, <2>2 DEF Alone, SoloAt, OneState, unitVars, flowVars
<1>. QED
    BY <1>1, <1>2, <1>3, <1>4, <1>5, <1>6, <1>7 DEF Elsewhere, UnitStep

-----------------------------------------------------------------------------
(* Types, by the step *)

\* A context left alone keeps what it has in hand.
LEMMA HandLeft ==
    ASSUME NEW y \in Contexts, HandAt(y), pc'[y] = pc[y], todo'[y] = todo[y],
           rec'[y] = rec[y], pending'[y] = pending[y], slot'[y] = slot[y],
           closing'[y] = closing[y]
    PROVE  HandAt(y)'
  BY DEF HandAt

\* The types of the records in their places.
Stuff ==
    /\ buffer \in [States -> Seq(Records)]
    /\ \A s \in States : setup.limit > 0 => Len(buffer[s]) <= setup.limit
    /\ rec \in [Contexts -> Records \cup {NoRecord}]
    /\ pending \in [Contexts -> Seq(Records)] /\ closing \in [Contexts -> BOOLEAN]
    /\ forwarded \in Seq(Records) /\ dropped \subseteq Records
    /\ story \in [Homes -> Seq(Records)]

\* They are kept: no buffer grows over its limit.
LEMMA StuffKept ==
    ASSUME Typed, NEW x \in Contexts, Moves(x) \/ Elsewhere(x) \/ Echoes(x)
    PROVE  Stuff'
<1>0. Stuff
    BY DEF Typed, TypeOK, Stuff
<1>1. CASE Elsewhere(x)
    <2>1. Passes(x)
        BY <1>1, ElsewhereDoes
    <2>. QED
        BY <1>0, <2>1 DEF Stuff, Passes, bufferVars
<1>2. setup' = setup
    BY MovesDo, EchoesDo, ElsewhereDoes DEF Stays, Passes
<1>3. ASSUME NEW s \in States, NEW r \in Records, Joins(s, r)
      PROVE  /\ buffer' \in [States -> Seq(Records)] /\ dropped' \subseteq Records
             /\ \A t \in States : setup.limit > 0 => Len(buffer'[t]) <= setup.limit
    <2>1. PICK q \in Seq(Records) :
              /\ buffer' = [buffer EXCEPT ![s] = q]
              /\ setup.limit > 0 => Len(q) <= setup.limit
              /\ dropped' \subseteq Records
        <3>1. Append(buffer[s], r) \in Seq(Records)
            BY <1>0 DEF Stuff
        <3>2. buffer[s] # <<>> =>
                  /\ Append(Tail(buffer[s]), r) \in Seq(Records)
                  /\ Head(buffer[s]) \in Records
            BY <1>0 DEF Stuff
        <3>3. dropped \subseteq Records
              /\ (setup.limit > 0 => Len(buffer[s]) <= setup.limit)
            BY <1>0 DEF Stuff
        <3>. QED
            BY <1>3, <3>1, <3>2, <3>3 DEF Joins
    <2>. QED
        BY <1>0, <2>1 DEF Stuff
<1>9. setup.limit \in Nat
    BY DEF Typed, TypeOK, UnitTypeOK, BufferAssumption
<1>16. CASE Echoes(x)
    <2>1. PICK r \in Records : Echoed(x, r)
        BY <1>16, EchoesDo
    <2>2. PICK s \in States : Takes(x, s, r) \/ (Joins(s, r) /\ pending' = pending)
        BY <2>1 DEF Echoed
    <2>3. Append(story[current[x]], r) \in Seq(Records) /\ <<r>> \in Seq(Records) /\ Len(<<r>>) = 1
          /\ buffer[s] \o pending[x] \in Seq(Records)
        BY <1>0, <2>1 DEF Echoed, Stuff
    <2>4. CASE Takes(x, s, r)
        BY <1>0, <1>2, <1>9, <2>1, <2>3, <2>4 DEF Stuff, Echoed, Takes
    <2>5. CASE Joins(s, r) /\ pending' = pending
        BY <1>0, <1>2, <1>3, <2>1, <2>3, <2>5 DEF Stuff, Echoed
    <2>. QED
        BY <2>2, <2>4, <2>5
<1>. SUFFICES ASSUME Moves(x) PROVE Stuff'
    BY <1>1, <1>16
<1>4. ASSUME NEW r \in Records, Begun(x, r) PROVE Stuff'
    <2>1. Append(story[current[x]], r) \in Seq(Records)
        BY <1>4 DEF Begun
    <2>. QED
        BY <1>0, <1>2, <1>4, <2>1 DEF Stuff, Begun
<1>5. CASE Added(x)
    <2>1. /\ mine[x] \in States /\ rec[x] \in Records /\ Joins(mine[x], rec[x])
          /\ rec' = [rec EXCEPT ![x] = NoRecord] /\ UNCHANGED <<pending, closing, forwarded, story>>
        BY <1>5 DEF Added
    <2>. QED
        BY <1>0, <1>2, <1>3, <2>1 DEF Stuff
<1>8. <<>> \in Seq(Records) /\ Len(<<>>) = 0
    OBVIOUS
<1>10. CASE Overflowed(x)
    <2>1. <<rec[x]>> \in Seq(Records) /\ Len(<<rec[x]>>) = 1
        BY <1>10 DEF Overflowed
    <2>. QED
        BY <1>0, <1>2, <1>9, <1>10, <2>1 DEF Stuff, Overflowed
<1>11. CASE Flushed(x)
    BY <1>0, <1>2, <1>8, <1>9, <1>11 DEF Stuff, Flushed
<1>12. CASE Cleared(x)
    <2>1. Range(buffer[mine[x]]) \subseteq Records
        BY <1>12 DEF Cleared, Range
    <2>. QED
        BY <1>0, <1>2, <1>8, <1>9, <1>12, <2>1 DEF Stuff, Cleared
<1>13. CASE Given(x)
    <2>1. Append(forwarded, Head(pending[x])) \in Seq(Records) /\ Tail(pending[x]) \in Seq(Records)
        BY <1>0, <1>13 DEF Stuff, Given
    <2>. QED
        BY <1>0, <1>2, <1>13, <2>1 DEF Stuff, Given
<1>17. CASE Ended(x)
    BY <1>0, <1>2, <1>17 DEF Stuff, Ended
<1>18. CASE Failed(x)
    <2>1. Range(pending[x]) \subseteq Records
        BY <1>18 DEF Failed, Range
    <2>. QED
        BY <1>0, <1>2, <1>8, <1>18, <2>1 DEF Stuff, Failed
<1>14. CASE Closed(x)
    BY <1>0, <1>2, <1>14 DEF Stuff, Closed
<1>15. CASE Called(x)
    BY <1>0, <1>2, <1>15 DEF Stuff, Called
<1>. QED
    BY <1>4, <1>5, <1>10, <1>11, <1>12, <1>13, <1>14, <1>15, <1>17, <1>18, MovesDo

\* What each context has in hand is kept in step with where it is.
LEMMA HandsKept ==
    ASSUME Typed, NEW x \in Contexts, Moves(x) \/ Elsewhere(x) \/ Echoes(x), NEW y \in Contexts
    PROVE  HandAt(y)'
<1>0. /\ rec \in [Contexts -> Records \cup {NoRecord}] /\ pending \in [Contexts -> Seq(Records)]
      /\ pc \in [Contexts -> BufferPhases] /\ closing \in [Contexts -> BOOLEAN]
      /\ HandAt(x) /\ HandAt(y)
    BY DEF Typed, TypeOK
<1>1. CASE Elsewhere(x)
    <2>1. Passes(x)
        BY <1>1, ElsewhereDoes
    <2>2. CASE y # x
        BY <1>0, <2>1, <2>2, HandLeft DEF Passes, bufferVars
    <2>3. HandAt(x)'
        <3>1. slot[x] \in Nat
            BY Holds
        <3>. QED
            BY <1>0, <2>1, <3>1 DEF HandAt, Passes, bufferVars
    <2>. QED
        BY <2>2, <2>3
<1>5. CASE Echoes(x)
    <2>1. /\ UNCHANGED <<unitVars, flowVars, rec, closing>> /\ pc[x] = "forward"
          /\ \A z \in Contexts : z # x => pending'[z] = pending[z]
        BY <1>0, <1>5, EchoesDo DEF Echoed, Takes
    <2>2. CASE y # x
        BY <1>0, <2>1, <2>2, HandLeft DEF unitVars, flowVars
    <2>3. CASE y = x
        BY <1>0, <2>1, <2>3 DEF HandAt, unitVars, flowVars
    <2>. QED
        BY <2>2, <2>3
<1>. SUFFICES ASSUME Moves(x) PROVE HandAt(y)'
    BY <1>1, <1>5
<1>2. Stays(x)
    BY MovesDo
<1>3. CASE y # x
    <2>1. rec'[y] = rec[y] /\ pending'[y] = pending[y] /\ closing'[y] = closing[y]
        BY <1>0, <1>3, MovesDo
           DEF Begun, Added, Overflowed, Flushed, Cleared, Given, Ended, Failed, Closed, Called
    <2>. QED
        BY <1>0, <1>2, <1>3, <2>1, HandLeft DEF Stays
<1>4. CASE y = x
    <2>. SUFFICES HandAt(x)'
        BY <1>4
    <2>1. slot'[x] = slot[x] /\ slot[x] \in Nat /\ NoRecord \notin Records
          /\ (pc[x] # "forward" => pending[x] = <<>>)
        BY <1>2, Holds DEF Stays
    <2>2. ASSUME NEW r \in Records, Begun(x, r) PROVE HandAt(x)'
        BY <1>0, <2>1, <2>2 DEF HandAt, Begun
    <2>3. CASE Added(x)
        BY <1>0, <2>1, <2>3 DEF HandAt, Added
    <2>4. CASE Overflowed(x)
        BY <1>0, <2>1, <2>4 DEF HandAt, Overflowed
    <2>5. CASE Flushed(x)
        BY <1>0, <2>1, <2>5 DEF HandAt, Flushed, Over
    <2>6. CASE Cleared(x)
        BY <1>0, <2>1, <2>6 DEF HandAt, Cleared
    <2>7. CASE Given(x)
        BY <1>0, <2>1, <2>7 DEF HandAt, Given
    <2>10. CASE Ended(x)
        BY <1>0, <2>1, <2>10 DEF HandAt, Ended, Over
    <2>11. CASE Failed(x)
        BY <1>0, <2>1, <2>11 DEF HandAt, Failed
    <2>8. CASE Closed(x)
        BY <1>0, <2>1, <2>8 DEF HandAt, Closed
    <2>9. CASE Called(x)
        <3>1. PICK there \in {"flush", "clear"} :
                  /\ (pc'[x] = "create" /\ todo'[x] = there) \/ pc'[x] = there
                  /\ closing'[x] => closing[x] \/ there = "flush"
            BY <1>0, <2>9 DEF Called
        <3>2. pc[x] = "idle" /\ slot[x] = 0 /\ rec[x] = NoRecord /\ UNCHANGED <<rec, pending>>
            BY <2>9 DEF Called
        <3>3. ~closing[x]
            BY <1>0, <3>2 DEF HandAt
        <3>. QED
            BY <1>0, <2>1, <3>1, <3>2, <3>3 DEF HandAt
    <2>. QED
        BY <2>2, <2>3, <2>4, <2>5, <2>6, <2>7, <2>8, <2>9, <2>10, <2>11, MovesDo
<1>. QED
    BY <1>3, <1>4

\* The variables keep their types.
LEMMA TypedNext == Typed /\ [Next]_vars => Typed'
<1>. SUFFICES ASSUME Typed, [Next]_vars PROVE Typed'
    OBVIOUS
<1>0. BufferAssumption'
    BY DEF Typed, BufferAssumption
<1>1. CASE Next
    <2>1. PICK x \in Contexts : Moves(x) \/ Elsewhere(x) \/ Echoes(x)
        BY <1>1, NextIs
    <2>2. UnitInv(BufferPhases)' /\ Stuff' /\ \A y \in Contexts : HandAt(y)'
        BY <2>1, UnitsKept, StuffKept, HandsKept
    <2>. QED
        BY <1>0, <2>2 DEF Typed, TypeOK, UnitInv, UnitTyped, Stuff
<1>2. CASE UNCHANGED vars
    <2>1. UnitInv(BufferPhases)'
        BY <1>2 DEF Typed, UnitInv, UnitTyped, UnitTypeOK, StatesAreOwn, PhasesAt,
                    vars, unitVars, flowVars, bufferVars
    <2>. QED
        BY <1>0, <1>2, <2>1 DEF Typed, TypeOK, UnitInv, UnitTyped, HandAt, vars, unitVars, flowVars, bufferVars
<1>. QED
    BY <1>1, <1>2

\* Where no context shares a unit, each stays alone.
LEMMA AloneNext == Typed /\ Alone /\ [Next]_vars => Alone'
<1>. SUFFICES ASSUME Typed, Alone, [Next]_vars PROVE Alone'
    OBVIOUS
<1>1. CASE Next
    <2>1. PICK x \in Contexts : Moves(x) \/ Elsewhere(x) \/ Echoes(x)
        BY <1>1, NextIs
    <2>. QED
        BY <2>1, UnitsKept
<1>2. CASE UNCHANGED vars
    BY <1>2 DEF Alone, SoloAt, OneState, vars, unitVars, flowVars
<1>. QED
    BY <1>1, <1>2

-----------------------------------------------------------------------------
(* Where the records of a unit are *)

\* What is in hand, in the buffer or in the batch of a context.
Near(x) == (IF rec[x] = NoRecord THEN {} ELSE {rec[x]}) \cup Range(buffer[mine[x]]) \cup Range(pending[x])

\* Records move within the reach of one context.
Flow(x) ==
    /\ story' = story
    /\ \A s \in States :
           Range(buffer'[s]) \subseteq Range(buffer[s]) \cup (IF s = mine[x] THEN Near(x) ELSE {})
    /\ \A y \in Contexts :
           /\ Range(pending'[y]) \subseteq Range(pending[y]) \cup (IF y = x THEN Near(x) ELSE {})
           /\ rec'[y] \in {rec[y], NoRecord}
    /\ Range(forwarded') \subseteq Range(forwarded) \cup Near(x)
    /\ dropped' \subseteq dropped \cup Near(x)

\* A record joins a buffer: what stays of it keeps its order, what leaves came first.
LEMMA Adds ==
    ASSUME Typed, NEW s \in States, NEW r \in Records, Joins(s, r)
    PROVE  \E b \in Seq(Records), out \in SUBSET Records :
               /\ buffer' = [buffer EXCEPT ![s] = Append(b, r)]
               /\ Range(b) \cup out = Range(buffer[s])
               /\ dropped' = dropped \cup out
               /\ \A R : Sorted(buffer[s], R) => Sorted(b, R) /\ Ahead(out, Range(b), R)
<1>. DEFINE all == buffer[s]
<1>1. all \in Seq(Records)
    BY DEF Typed, TypeOK
<1>2. CASE buffer' = [buffer EXCEPT ![s] = Append(all, r)] /\ dropped' = dropped
    <2>. HIDE DEF all
    <2>1. \A R : Ahead({}, Range(all), R)
        BY DEF Ahead
    <2>2. Range(all) \cup {} = Range(all) /\ dropped' = dropped \cup {} /\ {} \in SUBSET Records
        BY <1>2
    <2>. QED
        BY <1>1, <1>2, <2>1, <2>2 DEF all
<1>3. CASE /\ all # <<>> /\ buffer' = [buffer EXCEPT ![s] = Append(Tail(all), r)]
           /\ dropped' = dropped \cup {Head(all)}
    <2>. HIDE DEF all
    <2>1. PICK b \in Seq(Records) : b = Tail(all)
        BY <1>1, <1>3, HeadTailProperties
    <2>2. /\ {Head(all)} \in SUBSET Records /\ Range(b) \cup {Head(all)} = Range(all)
        BY <1>1, <1>3, <2>1, HeadTailProperties, RangeTail
    <2>3. \A R : Sorted(all, R) => Sorted(b, R) /\ Ahead({Head(all)}, Range(b), R)
        BY <1>1, <1>3, <2>1, SortedTail
    <2>. QED
        BY <1>3, <2>1, <2>2, <2>3 DEF all
<1>. QED
    BY <1>2, <1>3 DEF Joins

\* The members of what it leaves.
LEMMA JoinsRange ==
    ASSUME Typed, NEW s \in States, NEW r \in Records, Joins(s, r)
    PROVE  /\ \A t \in States : t # s => buffer'[t] = buffer[t]
           /\ Range(buffer'[s]) \subseteq Range(buffer[s]) \cup {r}
           /\ dropped' \subseteq dropped \cup Range(buffer[s])
<1>1. PICK b \in Seq(Records), out \in SUBSET Records :
          /\ buffer' = [buffer EXCEPT ![s] = Append(b, r)]
          /\ Range(b) \cup out = Range(buffer[s])
          /\ dropped' = dropped \cup out
    BY Adds
<1>2. Range(Append(b, r)) = Range(b) \cup {r} /\ buffer \in [States -> Seq(Records)]
    BY RangeAppend DEF Typed, TypeOK
<1>. QED
    BY <1>1, <1>2

\* The members of a sequence, by its first.
LEMMA RangeHead ==
    ASSUME NEW T, NEW q \in Seq(T), q # <<>>
    PROVE  /\ Tail(q) \in Seq(T) /\ Head(q) \in T
           /\ Range(q) = {Head(q)} \cup Range(Tail(q))
           /\ \A f \in Seq(T) : Range(Append(f, Head(q))) = Range(f) \cup {Head(q)}
<1>1. Tail(q) \in Seq(T) /\ Head(q) \in T
    BY HeadTailProperties
<1>2. ASSUME NEW f \in Seq(T) PROVE Range(Append(f, Head(q))) = Range(f) \cup {Head(q)}
    BY <1>1, RangeAppend
<1>. QED
    BY <1>1, <1>2, RangeTail

\* A step of the handler that logs nothing moves records so.
LEMMA Flows ==
    ASSUME Typed, NEW x \in Contexts, Moves(x), ~\E r \in Records : Begun(x, r)
    PROVE  Flow(x)
<1>0. /\ buffer \in [States -> Seq(Records)] /\ pending \in [Contexts -> Seq(Records)]
      /\ rec \in [Contexts -> Records \cup {NoRecord}] /\ forwarded \in Seq(Records)
      /\ NoRecord \notin Records /\ Range(<<>>) = {}
    BY SortedEmpty, Holds DEF Typed, TypeOK
<1>1. CASE Added(x)
    <2>1. mine[x] \in States /\ rec[x] \in Records /\ rec[x] # NoRecord /\ Joins(mine[x], rec[x])
        BY <1>0, <1>1 DEF Added
    <2>2. /\ \A t \in States : t # mine[x] => buffer'[t] = buffer[t]
          /\ Range(buffer'[mine[x]]) \subseteq Near(x) /\ dropped' \subseteq dropped \cup Near(x)
        BY <2>1, JoinsRange DEF Near
    <2>. QED
        BY <1>0, <1>1, <2>2 DEF Added, Flow
<1>2. CASE Overflowed(x)
    <2>1. Range(<<rec[x]>>) = {rec[x]} /\ rec[x] # NoRecord
        BY <1>0, <1>2 DEF Range, Overflowed
    <2>. QED
        BY <1>0, <1>2, <2>1 DEF Overflowed, Flow, Near
<1>3. CASE Flushed(x)
    BY <1>0, <1>3 DEF Flushed, Flow, Near
<1>4. CASE Cleared(x)
    BY <1>0, <1>4 DEF Cleared, Flow, Near
<1>5. CASE Given(x)
    <2>1. /\ Range(pending[x]) = {Head(pending[x])} \cup Range(Tail(pending[x]))
          /\ Range(Append(forwarded, Head(pending[x]))) = Range(forwarded) \cup {Head(pending[x])}
        BY <1>0, <1>5, RangeHead DEF Given
    <2>. QED
        BY <1>0, <1>5, <2>1 DEF Given, Flow, Near
<1>8. CASE Ended(x)
    BY <1>0, <1>8 DEF Ended, Flow
<1>9. CASE Failed(x)
    BY <1>0, <1>9 DEF Failed, Flow, Near
<1>6. CASE Closed(x)
    BY <1>0, <1>6 DEF Closed, Flow
<1>7. CASE Called(x)
    BY <1>0, <1>7 DEF Called, Flow
<1>. QED
    BY <1>1, <1>2, <1>3, <1>4, <1>5, <1>6, <1>7, <1>8, <1>9, MovesDo

\* A record is told: the story of a unit grows by it.
Tells(x, r) ==
    /\ r \notin Logged /\ current[x] \in Homes
    /\ story' = [story EXCEPT ![current[x]] = Append(story[current[x]], r)]

\* A story grows by the record that is logged.
LEMMA StoryGrows ==
    ASSUME Typed, NEW x \in Contexts, NEW r \in Records, Tells(x, r)
    PROVE  /\ \A u \in Homes : Range(story'[u]) =
                  Range(story[u]) \cup (IF u = current[x] THEN {r} ELSE {})
           /\ \A u \in Homes : r \notin Range(story[u])
           /\ Logged' = Logged \cup {r}
<1>1. story \in [Homes -> Seq(Records)] /\ current[x] \in Homes
    BY Holds DEF Typed, TypeOK
<1>2. ASSUME NEW u \in Homes
      PROVE  /\ Range(story'[u]) = Range(story[u]) \cup (IF u = current[x] THEN {r} ELSE {})
             /\ r \notin Range(story[u])
    <2>1. Range(Append(story[u], r)) = Range(story[u]) \cup {r}
        BY <1>1, RangeAppend
    <2>2. r \notin Range(story[u])
        BY DEF Tells, Logged
    <2>. QED
        BY <1>1, <2>1, <2>2 DEF Tells
<1>. QED
    BY <1>1, <1>2 DEF Logged

\* Nothing is logged at first.
LEMMA HomelyInit == Init => Homely
<1>1. Range(<<>>) = {}
    BY SortedEmpty
<1>. QED
    BY <1>1, StateIsPair DEF Init, UnitInit, Homely, Homes, HomeOf

\* Records stay in the unit they are logged in.
LEMMA HomelyNext == Typed /\ Homely /\ [Next]_vars => Homely'
<1>. SUFFICES ASSUME Typed, Homely, [Next]_vars PROVE Homely'
    OBVIOUS
<1>0. /\ story \in [Homes -> Seq(Records)] /\ \A s \in States : HomeOf(s) \in Homes
      /\ rec \in [Contexts -> Records \cup {NoRecord}]
      /\ buffer \in [States -> Seq(Records)]
    BY StateIsPair DEF Typed, TypeOK, HomeOf, Homes
<1>1. ASSUME NEW x \in Contexts, Elsewhere(x) PROVE Homely'
    <2>1. Passes(x)
        BY <1>1, ElsewhereDoes
    <2>2. ASSUME NEW y \in Contexts, current'[y] # current[y]
          PROVE  pending[y] = <<>> /\ rec[y] = NoRecord
        BY <2>1, <2>2, Holds DEF Passes
    <2>3. ASSUME NEW y \in Contexts
          PROVE  /\ Range(pending[y]) \subseteq Range(story[current'[y]])
                 /\ rec[y] # NoRecord => rec[y] \in Range(story[current'[y]])
        BY <2>2, SortedEmpty DEF Homely
    <2>4. \A s \in States : HomeOf(s)' = HomeOf(s)
        BY DEF HomeOf
    <2>5. UNCHANGED <<story, buffer, pending, rec, forwarded, dropped>>
        BY <2>1 DEF Passes, bufferVars
    <2>. QED
        BY <2>3, <2>4, <2>5 DEF Homely, Logged
\* A record is told: it is in hand, or in the buffer of its own unit.
<1>2. ASSUME NEW x \in Contexts, Stays(x), NEW r \in Records, Tells(x, r),
             \A s \in States : Range(buffer'[s]) \subseteq
                 Range(buffer[s]) \cup (IF HomeOf(s) = current[x] THEN {r} ELSE {}),
             \A y \in Contexts : rec'[y] = rec[y] \/ (y = x /\ rec'[y] = r),
             \A y \in Contexts : Range(pending'[y]) \subseteq
                 Range(pending[y]) \cup (IF y = x THEN Range(story[current[x]]) ELSE {}),
             forwarded' = forwarded, dropped' \subseteq dropped \cup Range(story[current[x]])
      PROVE  Homely'
    <2>1. current' = current
        BY <1>2 DEF Stays
    <2>2. /\ \A u \in Homes : Range(story'[u]) =
                 Range(story[u]) \cup (IF u = current[x] THEN {r} ELSE {})
          /\ \A u \in Homes : r \notin Range(story[u])
          /\ Logged' = Logged \cup {r}
        BY <1>2, StoryGrows
    <2>4. \A y \in Contexts : current[y] \in Homes
        BY Holds
    <2>5. \A u, v \in Homes : u # v => Range(story'[u]) \cap Range(story'[v]) = {}
        BY <2>2 DEF Homely
    <2>6. /\ \A u \in Homes : Range(story[u]) \subseteq Range(story'[u])
          /\ r \in Range(story'[current[x]])
        BY <2>2, <2>4
    <2>7. ASSUME NEW s \in States PROVE Range(buffer'[s]) \subseteq Range(story'[HomeOf(s)])
        <3>1. Range(buffer[s]) \subseteq Range(story'[HomeOf(s)])
            BY <1>0, <2>6 DEF Homely
        <3>. QED
            BY <1>2, <2>6, <3>1
    <2>8. ASSUME NEW y \in Contexts PROVE Range(pending'[y]) \subseteq Range(story'[current'[y]])
        BY <1>2, <2>1, <2>4, <2>6 DEF Homely
    <2>9. ASSUME NEW y \in Contexts, rec'[y] # NoRecord
          PROVE  rec'[y] \in Range(story'[current'[y]])
        BY <1>2, <2>1, <2>4, <2>6, <2>9 DEF Homely
    <2>10. Range(forwarded') \cup dropped' \subseteq Logged'
        <3>1. Range(story[current[x]]) \subseteq Logged
            BY <2>4 DEF Logged
        <3>. QED
            BY <1>2, <2>2, <3>1 DEF Homely
    <2>. QED
        BY <2>5, <2>7, <2>8, <2>9, <2>10 DEF Homely, HomeOf
<1>3. ASSUME NEW x \in Contexts, Moves(x), NEW r \in Records, Begun(x, r) PROVE Homely'
    <2>1. Stays(x) /\ Tells(x, r)
        BY <1>3, MovesDo DEF Begun, Tells
    <2>2. \A y \in Contexts : rec'[y] = rec[y] \/ (y = x /\ rec'[y] = r)
        BY <1>0, <1>3 DEF Begun
    <2>3. UNCHANGED <<buffer, pending, forwarded, dropped>>
        BY <1>3 DEF Begun
    <2>. QED
        BY <1>2, <2>1, <2>2, <2>3
<1>4. ASSUME NEW x \in Contexts, Echoes(x) PROVE Homely'
    <2>1. PICK r \in Records : Stays(x) /\ Echoed(x, r)
        BY <1>4, EchoesDo
    <2>2. Tells(x, r) /\ UNCHANGED <<rec, forwarded>>
        BY <2>1 DEF Echoed, Tells
    <2>3. PICK s \in States :
              /\ HomeOf(s) = current[x] /\ buffer[s] \in Seq(Records) /\ pending[x] \in Seq(Records)
              /\ Takes(x, s, r) \/ (Joins(s, r) /\ pending' = pending)
        BY <2>1 DEF Echoed
    <2>4. Range(buffer[s]) \subseteq Range(story[current[x]]) /\ pending \in [Contexts -> Seq(Records)]
        BY <2>3 DEF Homely, Typed, TypeOK
    <2>5. CASE Joins(s, r) /\ pending' = pending
        <3>1. \A t \in States : Range(buffer'[t]) \subseteq
                  Range(buffer[t]) \cup (IF HomeOf(t) = current[x] THEN {r} ELSE {})
            BY <2>3, <2>5, JoinsRange
        <3>2. dropped' \subseteq dropped \cup Range(story[current[x]])
            BY <2>3, <2>4, <2>5, JoinsRange
        <3>. QED
            BY <1>2, <2>1, <2>2, <2>5, <3>1, <3>2
    <2>6. CASE Takes(x, s, r)
        <3>0. Range(<<r>>) = {r}
            BY DEF Range
        <3>1. Range(<<r>>) = {r} /\ Range(buffer[s] \o pending[x]) = Range(buffer[s]) \cup Range(pending[x])
            BY <2>3, <3>0, RangeConcatenation
        <3>2. \A t \in States : Range(buffer'[t]) \subseteq
                  Range(buffer[t]) \cup (IF HomeOf(t) = current[x] THEN {r} ELSE {})
            BY <1>0, <2>3, <2>6, <3>1 DEF Takes
        <3>3. \A y \in Contexts : Range(pending'[y]) \subseteq
                  Range(pending[y]) \cup (IF y = x THEN Range(story[current[x]]) ELSE {})
            BY <2>4, <2>6, <3>1 DEF Takes
        <3>. QED
            BY <1>2, <2>1, <2>2, <2>6, <3>2, <3>3 DEF Takes
    <2>. QED
        BY <2>3, <2>5, <2>6
<1>5. ASSUME NEW x \in Contexts, Moves(x), ~\E r \in Records : Begun(x, r) PROVE Homely'
    <2>1. Flow(x) /\ current' = current /\ \A s \in States : HomeOf(s)' = HomeOf(s)
        BY <1>5, Flows, MovesDo DEF Stays, HomeOf
    <2>2. CASE Called(x)
        BY <2>1, <2>2 DEF Called, Homely, Logged
    <2>3. CASE ~Called(x)
        <3>1. Near(x) \subseteq Range(story[current[x]]) /\ HomeOf(mine[x]) = current[x]
            <4>1. pc[x] \in {"add", "flush", "clear", "forward", "closeWrapped"}
                BY <1>5, <2>3, MovesDo
                   DEF Added, Overflowed, Flushed, Cleared, Given, Ended, Failed, Closed
            <4>2. HomeOf(mine[x]) = current[x]
                BY <4>1 DEF Typed, UnitInv, PhasesAt, Outside
            <4>3. /\ Range(buffer[mine[x]]) \subseteq Range(story[current[x]])
                  /\ Range(pending[x]) \subseteq Range(story[current[x]])
                  /\ rec[x] # NoRecord => rec[x] \in Range(story[current[x]])
                BY <4>2, Holds DEF Homely
            <4>. QED
                BY <4>2, <4>3 DEF Near
        <3>2. Near(x) \subseteq Logged
            BY <3>1, Holds DEF Logged
        <3>3. Logged' = Logged
            BY <2>1 DEF Flow, Logged
        <3>4. ASSUME NEW s \in States PROVE Range(buffer'[s]) \subseteq Range(story[HomeOf(s)])
            BY <2>1, <3>1 DEF Flow, Homely
        <3>5. ASSUME NEW y \in Contexts PROVE Range(pending'[y]) \subseteq Range(story[current[y]])
            BY <2>1, <3>1 DEF Flow, Homely
        <3>6. ASSUME NEW y \in Contexts, rec'[y] # NoRecord
              PROVE  rec'[y] \in Range(story[current[y]])
            BY <2>1, <3>6 DEF Flow, Homely
        <3>7. Range(forwarded') \cup dropped' \subseteq Logged'
            BY <2>1, <3>2, <3>3 DEF Flow, Homely
        <3>8. story' = story /\ \A u, v \in Homes : u # v => Range(story[u]) \cap Range(story[v]) = {}
            BY <2>1 DEF Flow, Homely
        <3>. QED
            BY <2>1, <3>4, <3>5, <3>6, <3>7, <3>8 DEF Homely
    <2>. QED
        BY <2>2, <2>3
<1>6. CASE UNCHANGED vars
    BY <1>6 DEF Homely, Logged, HomeOf, vars, unitVars, bufferVars
<1>. QED
    BY <1>1, <1>3, <1>4, <1>5, <1>6, NextIs

\* A context in the code of the handler is in a state of its unit.
LEMMA AtHome ==
    ASSUME Typed, NEW x \in Contexts, pc[x] \notin Outside
    PROVE  HomeOf(mine[x]) = current[x]
  BY DEF Typed, UnitInv, PhasesAt

-----------------------------------------------------------------------------
(* What is held in a unit of one context *)

\* Two contexts do not meet in a state.
LEMMA OwnState ==
    ASSUME Typed, Alone, ~setup.sharing, NEW x \in Contexts
    PROVE  /\ current[x] # NoUnit => \A y \in Contexts : y # x => current[y] # current[x]
           /\ pc[x] \notin Outside =>
                  /\ current[x] \in Units /\ mine[x] = kept[current[x]] /\ mine[x] # Instance
                  /\ mine[x] \in UnitStates /\ mine[x][1] = current[x]
                  /\ \A u \in Units : u # current[x] => kept[u] # mine[x]
                  /\ \A y \in Contexts : y # x /\ pc[y] \notin Outside => mine[y] # mine[x]
<1>1. SoloAt(x) /\ \A y \in Contexts : SoloAt(y)
    BY DEF Alone
<1>2. \A u \in Units : kept[u] \in States /\ (kept[u] # Instance => kept[u][1] = u)
    BY DEF Typed, UnitInv, StatesAreOwn, UnitTyped, UnitTypeOK
<1>3. ASSUME pc[x] \notin Outside
      PROVE  /\ current[x] \in Units /\ mine[x] = kept[current[x]] /\ mine[x] # Instance
             /\ mine[x] \in UnitStates /\ mine[x][1] = current[x]
             /\ \A u \in Units : u # current[x] => kept[u] # mine[x]
             /\ current[x] # NoUnit
    BY <1>1, <1>2, <1>3, StateIsPair, UnitAssumption DEF SoloAt
<1>4. ASSUME pc[x] \notin Outside, NEW y \in Contexts, y # x, pc[y] \notin Outside
      PROVE  mine[y] # mine[x]
    <2>1. current[y] # current[x] /\ current[y] \in Units /\ mine[y] = kept[current[y]]
        BY <1>1, <1>3, <1>4 DEF SoloAt
    <2>. QED
        BY <1>3, <1>4, <2>1
<1>. QED
    BY <1>1, <1>3, <1>4 DEF SoloAt

\* Nothing is held at first.
LEMMA HeldBackInit == Init => HeldBack
  BY DEF Init, UnitInit, HeldBack

\* What HeldBack says of a state, and of a context.
HeldIn(s) ==
    /\ buffer[s] # <<>> => s # Instance /\ s = kept[s[1]]
    /\ ~setup.echo /\ buffer[s] # <<>> => \E x \in Contexts : current[x] = s[1]

HeldBy(x) == ~setup.echo =>
    /\ pc[x] = "forward" /\ slot[x] > 0 => buffer[mine[x]] = <<>>
    /\ pc[x] = "ending" /\ slot[x] > 1 /\ current[x] # NoUnit => buffer[kept[current[x]]] = <<>>

\* HeldBack, by the state and by the context.
LEMMA HeldBackIs ==
    HeldBack <=> (~setup.sharing => (\A s \in States : HeldIn(s)) /\ (\A x \in Contexts : HeldBy(x)))
  BY DEF HeldBack, HeldIn, HeldBy

\* A context that leaves its unit leaves nothing held in it.
LEMMA LeftEmpty ==
    ASSUME Typed, Alone, HeldBack, ~setup.sharing, ~setup.echo, NEW x \in Contexts, LeaveUnit(x),
           current[x] \in Units, NEW s \in States, buffer[s] # <<>>
    PROVE  s[1] # current[x]
<1>. SUFFICES ASSUME s[1] = current[x] PROVE FALSE
    OBVIOUS
<1>. DEFINE u == current[x]
<1>1. s # Instance /\ s = kept[u]
    BY DEF HeldBack
<1>2. pc[x] = "ending" /\ slot[x] > Len(callbacks[u]) /\ slot[x] \in Nat
    BY Holds, UnitAssumption DEF LeaveUnit, CallbacksLeft, Typed, TypeOK, UnitTypeOK
<1>3. ~\E y \in Contexts : pc[y] = "register" /\ current[y] = u
    BY <1>2, OwnState, UnitAssumption
<1>4. callbacks[u] = <<kept[u]>>
    BY <1>1, <1>3 DEF Alone, OneState
<1>5. slot[x] > 1
    BY <1>2, <1>4
<1>6. buffer[kept[u]] = <<>>
    BY <1>2, <1>5, UnitAssumption DEF HeldBack
<1>. QED
    BY <1>1, <1>6

\* A step of the units keeps it.
LEMMA HeldElsewhere ==
    ASSUME Typed, Alone, HeldBack, NEW x \in Contexts, Elsewhere(x) PROVE HeldBack'
<1>0. Passes(x)
    BY ElsewhereDoes
<1>. SUFFICES ASSUME ~setup.sharing
              PROVE  (\A s \in States : HeldIn(s)') /\ (\A y \in Contexts : HeldBy(y)')
    BY <1>0 DEF Passes, HeldBack, HeldIn, HeldBy
<1>1. /\ buffer' = buffer /\ setup' = setup
      /\ \A s \in States : HeldIn(s)
      /\ \A y \in Contexts : HeldBy(y)
    BY <1>0, HeldBackIs DEF Passes, bufferVars
<1>2. /\ kept \in [Units -> States] /\ current \in [Contexts -> Units \cup {NoUnit}]
      /\ mine \in [Contexts -> States] /\ slot \in [Contexts -> Nat]
      /\ pc \in [Contexts -> BufferPhases]
      /\ \A s \in States : s # Instance => s[1] \in Units
    BY StateIsPair DEF Typed, TypeOK, UnitTypeOK
<1>3. \A y \in Contexts : current[y] # NoUnit => \A z \in Contexts : z # y => current[z] # current[y]
    BY OwnState
<1>4. CASE CreateState(x)
    <2>1. /\ pc[x] = "create" /\ current[x] \in Units /\ kept[current[x]] = Instance
          /\ UNCHANGED <<current, slot>>
          /\ mine' = [mine EXCEPT ![x] = <<current[x], x>>]
          /\ kept' = [kept EXCEPT ![current[x]] = <<current[x], x>>]
          /\ pc' = [pc EXCEPT ![x] = "register"]
        <3>1. current[x] \in Units
            BY <1>4 DEF Typed, UnitInv, PhasesAt, CreateState, Create
        <3>2. <<current[x], x>>[1] = current[x]
            BY <3>1, StateIsPair
        <3>. QED
            BY <1>4, <3>1, <3>2 DEF CreateState, Create, GoTo, Alone, SoloAt
    <2>2. ASSUME NEW s \in States PROVE HeldIn(s)'
        <3>1. buffer[s] # <<>> => s # Instance /\ s[1] \in Units /\ s[1] # current[x]
            BY <1>1, <1>2, <2>1 DEF HeldIn
        <3>. QED
            BY <1>1, <1>2, <2>1, <3>1 DEF HeldIn
    <2>3. ASSUME NEW y \in Contexts PROVE HeldBy(y)'
        <3>1. CASE y = x
            BY <1>2, <2>1, <3>1 DEF HeldBy
        <3>2. CASE y # x
            <4>1. current[y] # current[x]
                BY <1>3, <2>1, <3>2, UnitAssumption
            <4>2. current[y] # NoUnit => kept'[current[y]] = kept[current[y]]
                BY <1>2, <2>1, <4>1
            <4>3. pc'[y] = pc[y] /\ mine'[y] = mine[y]
                BY <1>2, <2>1, <3>2
            <4>. QED
                BY <1>1, <2>1, <4>2, <4>3 DEF HeldBy
        <3>. QED
            BY <3>1, <3>2
    <2>. QED
        BY <2>2, <2>3
<1>5. CASE RegisterState(x)
    <2>1. /\ UNCHANGED <<current, slot, kept, mine>>
          /\ \A y \in Contexts : pc'[y] = pc[y] \/ (y = x /\ pc'[y] \in {"add", "flush", "clear"})
        BY <1>2, <1>5 DEF RegisterState, GoTo, Typed, HandAt
    <2>. QED
        BY <1>1, <2>1 DEF HeldIn, HeldBy
<1>6. CASE NextCallback(x)
    <2>1. /\ UNCHANGED <<current, kept>>
          /\ \A y \in Contexts : \/ pc'[y] = pc[y] /\ mine'[y] = mine[y] /\ slot'[y] = slot[y]
                                 \/ pc'[y] = "flush"
        BY <1>2, <1>6 DEF NextCallback, GoTo
    <2>. QED
        BY <1>1, <2>1 DEF HeldIn, HeldBy
<1>7. CASE LeaveUnit(x)
    <2>1. /\ UNCHANGED <<kept, mine>>
          /\ \A y \in Contexts : \/ pc'[y] = "idle" /\ y = x
                                 \/ pc'[y] = pc[y] /\ slot'[y] = slot[y] /\ current'[y] = current[y]
        BY <1>2, <1>7 DEF LeaveUnit, GoTo
    <2>2. ASSUME NEW s \in States PROVE HeldIn(s)'
        <3>1. CASE buffer[s] = <<>> \/ setup.echo
            BY <1>1, <2>1, <3>1 DEF HeldIn
        <3>2. CASE buffer[s] # <<>> /\ ~setup.echo
            <4>1. PICK y \in Contexts : current[y] = s[1] /\ s # Instance /\ s = kept[s[1]]
                BY <1>1, <3>2 DEF HeldIn
            <4>2. y # x
                BY <1>2, <1>7, <3>2, <4>1, LeftEmpty
            <4>3. current'[y] = s[1]
                BY <1>2, <1>7, <4>1, <4>2 DEF LeaveUnit
            <4>. QED
                BY <1>1, <2>1, <4>1, <4>3 DEF HeldIn
        <3>. QED
            BY <3>1, <3>2
    <2>. QED
        BY <1>1, <2>1, <2>2 DEF HeldBy
<1>8. CASE \E u \in Units \cup {NoUnit} : BeginEnding(x, u)
    <2>1. /\ UNCHANGED <<current, kept, mine>>
          /\ \A y \in Contexts : \/ pc'[y] = "ending" /\ slot'[y] = 1
                                 \/ pc'[y] = pc[y] /\ slot'[y] = slot[y]
        BY <1>2, <1>8 DEF BeginEnding, GoTo
    <2>. QED
        BY <1>1, <2>1 DEF HeldIn, HeldBy
<1>. QED
    BY <1>4, <1>5, <1>6, <1>7, <1>8 DEF Elsewhere, UnitStep, UnitCall, CopyContext

\* So does a record of the wrapped handler.
LEMMA HeldEchoes ==
    ASSUME Typed, Alone, HeldBack, NEW x \in Contexts, Echoes(x) PROVE HeldBack'
<1>1. PICK r \in Records : Echoed(x, r)
    BY EchoesDo
<1>2. pc[x] = "forward" /\ setup.echo /\ UNCHANGED <<setup, kept>>
    BY <1>1 DEF Echoed, unitVars
<1>. SUFFICES ASSUME ~setup.sharing, NEW t \in States, buffer'[t] # <<>>
              PROVE  t # Instance /\ t = kept[t[1]]
    BY <1>2 DEF HeldBack
<1>3. current[x] \in Units /\ kept[current[x]] # Instance /\ kept[current[x]][1] = current[x]
    BY <1>2, OwnState DEF Outside
<1>4. PICK s \in States : s = kept[current[x]] /\ (Takes(x, s, r) \/ Joins(s, r))
    BY <1>1, <1>3, UnitAssumption DEF Echoed
<1>5. CASE t = s
    BY <1>3, <1>4, <1>5
<1>6. CASE t # s
    <2>1. buffer'[t] = buffer[t]
        BY <1>4, <1>6, JoinsRange DEF Takes, Typed, TypeOK
    <2>. QED
        BY <2>1 DEF HeldBack
<1>. QED
    BY <1>5, <1>6

\* So does a step of the handler.
LEMMA HeldMoves ==
    ASSUME Typed, Alone, HeldBack, NEW x \in Contexts, Moves(x) PROVE HeldBack'
<1>0. Stays(x)
    BY MovesDo
<1>. SUFFICES ASSUME ~setup.sharing
              PROVE  (\A s \in States : HeldIn(s)') /\ (\A y \in Contexts : HeldBy(y)')
    BY <1>0 DEF Stays, HeldBack, HeldIn, HeldBy
<1>1. (\A s \in States : HeldIn(s)) /\ (\A y \in Contexts : HeldBy(y))
    BY HeldBackIs
<1>2. buffer \in [States -> Seq(Records)] /\ slot[x] \in Nat /\ mine[x] \in States
    BY Holds DEF Typed, TypeOK
\* A step that leaves the buffers alone.
<1>3. ASSUME UNCHANGED buffer, HeldBy(x)' PROVE HeldBack'
    BY <1>0, <1>1, <1>3 DEF Stays, HeldBack, HeldIn, HeldBy
\* A step that changes the buffer of its own unit.
<1>4. ASSUME pc[x] \notin Outside, NEW b \in Seq(Records),
             buffer' = [buffer EXCEPT ![mine[x]] = b], HeldBy(x)'
      PROVE  HeldBack'
    <2>1. /\ current[x] \in Units /\ mine[x] = kept[current[x]] /\ mine[x] # Instance
          /\ mine[x][1] = current[x]
          /\ \A u \in Units : u # current[x] => kept[u] # mine[x]
          /\ \A y \in Contexts : y # x /\ pc[y] \notin Outside => mine[y] # mine[x]
          /\ \A y \in Contexts : y # x => current[y] # current[x]
        BY <1>4, OwnState, UnitAssumption
    <2>2. ASSUME NEW s \in States PROVE HeldIn(s)'
        <3>1. CASE s = mine[x]
            BY <1>0, <1>2, <1>4, <2>1, <3>1 DEF Stays, HeldIn
        <3>2. CASE s # mine[x]
            BY <1>0, <1>1, <1>2, <1>4, <3>2 DEF Stays, HeldIn
        <3>. QED
            BY <3>1, <3>2
    <2>3. ASSUME NEW y \in Contexts, y # x PROVE HeldBy(y)'
        <3>1. pc'[y] = pc[y] /\ mine'[y] = mine[y] /\ slot'[y] = slot[y] /\ current'[y] = current[y]
              /\ kept' = kept /\ setup' = setup /\ HeldBy(y)
            BY <1>0, <1>1, <2>3 DEF Stays
        <3>2. /\ mine[y] \in States /\ (current[y] # NoUnit => current[y] \in Units /\ kept[current[y]] \in States)
            BY Holds DEF Typed, TypeOK, UnitTypeOK
        <3>3. pc[y] = "forward" => mine[y] # mine[x] /\ buffer'[mine[y]] = buffer[mine[y]]
            BY <1>2, <1>4, <2>1, <2>3, <3>2 DEF Outside
        <3>4. current[y] # NoUnit => buffer'[kept[current[y]]] = buffer[kept[current[y]]]
            BY <1>2, <1>4, <2>1, <2>3, <3>2
        <3>. QED
            BY <3>1, <3>3, <3>4 DEF HeldBy
    <2>. QED
        BY <1>0, <1>4, <2>2, <2>3 DEF Stays, HeldBack, HeldIn, HeldBy
<1>. SUFFICES HeldBack'
    BY <1>0 DEF Stays, HeldBack, HeldIn, HeldBy
<1>5. ASSUME NEW r \in Records, Begun(x, r) PROVE HeldBack'
    BY <1>3, <1>5 DEF Begun, HeldBy
<1>6. <<>> \in Seq(Records) /\ slot'[x] = slot[x] /\ setup' = setup
    BY <1>0 DEF Stays
<1>7. CASE Added(x)
    <2>1. PICK b \in Seq(Records) : buffer' = [buffer EXCEPT ![mine[x]] = b]
        <3>1. PICK b \in Seq(Records) : buffer' = [buffer EXCEPT ![mine[x]] = Append(b, rec[x])]
            BY <1>7, Adds DEF Added
        <3>2. Append(b, rec[x]) \in Seq(Records)
            BY <1>7 DEF Added
        <3>. QED
            BY <3>1, <3>2
    <2>2. pc[x] = "add" /\ pc'[x] = "idle"
        BY <1>7 DEF Added
    <2>. QED
        BY <1>4, <2>1, <2>2 DEF Outside, HeldBy
<1>8. CASE Overflowed(x)
    <2>1. /\ pc[x] = "add" /\ slot'[x] = 0 /\ pc'[x] = "forward" /\ <<rec[x]>> \in Seq(Records)
          /\ buffer' = [buffer EXCEPT ![mine[x]] = <<rec[x]>>]
        BY <1>6, <1>8 DEF Overflowed
    <2>2. HeldBy(x)' /\ pc[x] \notin Outside
        BY <2>1 DEF Outside, HeldBy
    <2>3. PICK b \in Seq(Records) : buffer' = [buffer EXCEPT ![mine[x]] = b]
        BY <2>1
    <2>. QED
        BY <1>4, <2>2, <2>3
<1>9. CASE Flushed(x)
    <2>1. /\ pc[x] = "flush"
          /\ (pc'[x] = "forward" /\ mine' = mine) \/ pc'[x] \in {"idle", "ending", "closeWrapped"}
          /\ buffer' = [buffer EXCEPT ![mine[x]] = <<>>]
        BY <1>9 DEF Flushed, Over
    <2>2. mine[x] = kept[current[x]]
        BY <2>1, OwnState DEF Outside
    <2>3. HeldBy(x)'
        BY <1>0, <1>2, <2>1, <2>2 DEF HeldBy, Stays
    <2>. QED
        BY <1>4, <1>6, <2>1, <2>3 DEF Outside
<1>10. CASE Cleared(x)
    <2>1. HeldBy(x)'
        BY <1>10 DEF HeldBy, Cleared
    <2>. QED
        BY <1>4, <1>6, <1>10, <2>1 DEF Cleared, Outside
<1>11. CASE Ended(x) \/ Failed(x)
    <2>1. /\ pc[x] = "forward" /\ pc'[x] \in {"idle", "ending", "closeWrapped"} /\ buffer' = buffer
          /\ pc'[x] = "ending" => slot[x] > 0
        BY <1>2, <1>11 DEF Ended, Failed, Over
    <2>2. mine[x] = kept[current[x]]
        BY <2>1, OwnState DEF Outside
    <2>3. HeldBy(x)'
        BY <1>0, <1>1, <2>1, <2>2 DEF HeldBy, Stays
    <2>. QED
        BY <1>3, <2>1, <2>3
<1>14. CASE Given(x)
    <2>1. UNCHANGED <<buffer, pc, mine, slot, setup, current, kept>>
        BY <1>0, <1>14 DEF Given, Stays
    <2>2. HeldBy(x)'
        BY <1>1, <2>1 DEF HeldBy
    <2>. QED
        BY <1>3, <2>1, <2>2
<1>12. CASE Closed(x)
    BY <1>3, <1>12 DEF Closed, HeldBy
<1>13. CASE Called(x)
    BY <1>3, <1>13 DEF Called, HeldBy
<1>. QED
    BY <1>5, <1>7, <1>8, <1>9, <1>10, <1>11, <1>12, <1>13, <1>14, MovesDo

\* Every step keeps it.
LEMMA HeldBackNext == Typed /\ Alone /\ HeldBack /\ [Next]_vars => HeldBack'
<1>. SUFFICES ASSUME Typed, Alone, HeldBack, [Next]_vars PROVE HeldBack'
    OBVIOUS
<1>1. CASE UNCHANGED vars
    BY <1>1 DEF HeldBack, vars, unitVars, flowVars, bufferVars
<1>. QED
    BY <1>1, NextIs, HeldElsewhere, HeldEchoes, HeldMoves

\* A step of the handler touches one buffer, and one context's records.
LEMMA OnlyMine ==
    ASSUME Typed, NEW x \in Contexts, Moves(x)
    PROVE  /\ \A s \in States : s # mine[x] \/ pc[x] \in Outside => buffer'[s] = buffer[s]
           /\ \A y \in Contexts : y # x => rec'[y] = rec[y] /\ pending'[y] = pending[y]
<1>1. /\ buffer \in [States -> Seq(Records)] /\ pending \in [Contexts -> Seq(Records)]
      /\ rec \in [Contexts -> Records \cup {NoRecord}]
    BY DEF Typed, TypeOK
<1>2. CASE Added(x)
    <2>1. mine[x] \in States /\ rec[x] \in Records /\ Joins(mine[x], rec[x]) /\ pending' = pending
          /\ rec' = [rec EXCEPT ![x] = NoRecord] /\ pc[x] \notin Outside
        BY <1>2 DEF Added, Outside
    <2>. QED
        BY <1>1, <2>1, JoinsRange
<1>. QED
    BY <1>1, <1>2, MovesDo
       DEF Begun, Overflowed, Flushed, Cleared, Given, Ended, Failed, Closed, Called, Outside

-----------------------------------------------------------------------------
(* No record is lost, none is written twice *)

\* The places of a record are those of each kind, apart from one another.
LEMMA PlacesAre ==
    ASSUME NEW r
    PROVE  Places(r) = Tagged(HandsOf(r), BuffersOf(r), BatchesOf(r), OutsOf(r), DropsOf(r))
<1>1. {<<"dropped", r>> : d \in {r} \cap dropped} = {<<"dropped", d>> : d \in {r} \cap dropped}
    OBVIOUS
<1>. QED
    BY <1>1 DEF Places, Tagged, HandsOf, BuffersOf, BatchesOf, OutsOf, DropsOf, Spots

\* One place is one place, whatever its kind.
LEMMA PlacedIs ==
    ASSUME NEW r, Placed(r)
    PROVE  IF r \in Logged THEN Single(Places(r)) ELSE Places(r) = {}
  BY PlacesAre, TaggedOne, TaggedNone DEF Placed

\* A record that is not touched keeps its place.
LEMMA Untouched ==
    ASSUME NEW r, Placed(r), r \in Logged <=> r \in Logged',
           HandsOf(r)' = HandsOf(r), BuffersOf(r)' = BuffersOf(r), BatchesOf(r)' = BatchesOf(r),
           OutsOf(r)' = OutsOf(r), DropsOf(r)' = DropsOf(r)
    PROVE  Placed(r)'
  BY DEF Placed, Single, None

\* What is in one place is in no other.
LEMMA FromHand ==
    ASSUME NEW r, Placed(r), NEW x \in HandsOf(r)
    PROVE  /\ r \in Logged /\ HandsOf(r) = {x}
           /\ None(BuffersOf(r), BatchesOf(r), OutsOf(r), DropsOf(r))
  BY DEF Placed, Single, None

\* So is what is in a buffer,
LEMMA FromBuffer ==
    ASSUME NEW r, Placed(r), NEW s \in BuffersOf(r)
    PROVE  /\ r \in Logged /\ BuffersOf(r) = {s}
           /\ None(HandsOf(r), BatchesOf(r), OutsOf(r), DropsOf(r))
  BY DEF Placed, Single, None

\* and what is in a batch.
LEMMA FromBatch ==
    ASSUME NEW r, Placed(r), NEW x \in BatchesOf(r)
    PROVE  /\ r \in Logged /\ BatchesOf(r) = {x}
           /\ None(HandsOf(r), BuffersOf(r), OutsOf(r), DropsOf(r))
  BY DEF Placed, Single, None

\* A buffer is emptied, into the batch of a context or away.
LEMMA Emptied ==
    ASSUME Typed, NEW x \in Contexts, NEW s \in States, NEW r, Placed(r),
           buffer' = [buffer EXCEPT ![s] = <<>>],
           Range(pending[x]) = {}, Range(pending'[x]) \subseteq Range(buffer[s]),
           \A y \in Contexts : y # x => pending'[y] = pending[y],
           dropped' = dropped \cup (Range(buffer[s]) \ Range(pending'[x])),
           forwarded' = forwarded, Logged' = Logged, HandsOf(r)' = HandsOf(r)
    PROVE  Placed(r)'
<1>. DEFINE taken == Range(pending'[x])
            gone == Range(buffer[s]) \ taken
<1>0. buffer \in [States -> Seq(Records)] /\ Range(<<>>) = {} /\ OutsOf(r)' = OutsOf(r)
    BY SortedEmpty DEF Typed, TypeOK, OutsOf
<1>1. CASE r \notin Range(buffer[s])
    <2>1. BuffersOf(r)' = BuffersOf(r)
        BY <1>0, <1>1 DEF BuffersOf
    <2>2. BatchesOf(r)' = BatchesOf(r) /\ DropsOf(r)' = DropsOf(r)
        BY <1>1 DEF BatchesOf, DropsOf
    <2>. QED
        BY <1>0, <2>1, <2>2, Untouched
<1>2. CASE r \in Range(buffer[s])
    <2>1. /\ r \in Logged /\ BuffersOf(r) = {s}
          /\ None(HandsOf(r), BatchesOf(r), OutsOf(r), DropsOf(r))
        BY <1>2, FromBuffer DEF BuffersOf
    <2>2. BuffersOf(r)' = {}
        <3>. SUFFICES ASSUME NEW t \in States PROVE r \notin Range(buffer'[t])
            BY DEF BuffersOf
        <3>1. CASE t = s
            BY <1>0, <3>1
        <3>2. CASE t # s
            BY <1>0, <2>1, <3>2 DEF BuffersOf
        <3>. QED
            BY <3>1, <3>2
    <2>3. CASE r \in taken
        <3>1. BatchesOf(r)' = {x} /\ DropsOf(r)' = {}
            BY <2>1, <2>3 DEF BatchesOf, DropsOf, None
        <3>. QED
            BY <1>0, <2>1, <2>2, <3>1 DEF Placed, Single, None
    <2>4. CASE r \in gone
        <3>1. BatchesOf(r)' = {} /\ DropsOf(r)' = {r}
            BY <2>1, <2>4 DEF BatchesOf, DropsOf, None
        <3>. QED
            BY <1>0, <2>1, <2>2, <3>1 DEF Placed, Single, None
    <2>. QED
        BY <1>2, <2>3, <2>4
<1>. QED
    BY <1>1, <1>2

\* A step of the handler moves a record from one place to one place.
LEMMA PlacedMoves ==
    ASSUME Typed, OnePlace, NEW x \in Contexts, Moves(x), NEW r \in Records
    PROVE  Placed(r)'
<1>0. /\ buffer \in [States -> Seq(Records)] /\ rec \in [Contexts -> Records \cup {NoRecord}]
      /\ pending \in [Contexts -> Seq(Records)] /\ forwarded \in Seq(Records)
      /\ Range(<<>>) = {} /\ r # NoRecord /\ Placed(r)
    BY SortedEmpty, Holds DEF Typed, TypeOK, OnePlace
<1>1. \A y \in Contexts : y # x => rec'[y] = rec[y] /\ pending'[y] = pending[y]
    BY OnlyMine
\* Only this context's hand can change.
<1>2. /\ (rec[x] = r <=> rec'[x] = r) => HandsOf(r)' = HandsOf(r)
      /\ rec'[x] # r => HandsOf(r)' = HandsOf(r) \ {x}
    BY <1>1 DEF HandsOf
<1>3. story' = story => Logged' = Logged
    BY DEF Logged
<1>4. CASE \E q \in Records : Begun(x, q)
    <2>1. PICK q \in Records : Begun(x, q)
        BY <1>4
    <2>2. UNCHANGED <<buffer, pending, forwarded, dropped>>
        BY <2>1 DEF Begun
    <2>3. /\ BuffersOf(r)' = BuffersOf(r) /\ BatchesOf(r)' = BatchesOf(r)
          /\ OutsOf(r)' = OutsOf(r) /\ DropsOf(r)' = DropsOf(r)
        BY <2>2 DEF BuffersOf, BatchesOf, OutsOf, DropsOf
    <2>4. rec[x] = NoRecord /\ rec'[x] = q /\ q \notin Logged /\ Logged' = Logged \cup {q}
        BY <1>0, <2>1, StoryGrows DEF Begun, Tells
    <2>5. CASE r = q
        <3>1. HandsOf(r)' = HandsOf(r) \cup {x}
            BY <1>1, <2>4, <2>5 DEF HandsOf
        <3>. QED
            BY <1>0, <2>3, <2>4, <2>5, <3>1 DEF Placed, Single, None
    <2>6. CASE r # q
        <3>1. HandsOf(r)' = HandsOf(r)
            BY <1>0, <1>2, <2>4, <2>6
        <3>. QED
            BY <1>0, <2>3, <2>4, <2>6, <3>1, Untouched
    <2>. QED
        BY <2>5, <2>6
\* A step that moves no record.
<1>5. ASSUME UNCHANGED <<buffer, rec, pending, forwarded, dropped, story>> PROVE Placed(r)'
    <2>1. /\ BuffersOf(r)' = BuffersOf(r) /\ BatchesOf(r)' = BatchesOf(r)
          /\ OutsOf(r)' = OutsOf(r) /\ DropsOf(r)' = DropsOf(r)
        BY <1>5 DEF BuffersOf, BatchesOf, OutsOf, DropsOf
    <2>. QED
        BY <1>0, <1>2, <1>3, <1>5, <2>1, Untouched
<1>6. CASE Called(x)
    BY <1>5, <1>6 DEF Called
<1>7. CASE Closed(x)
    BY <1>5, <1>7 DEF Closed
<1>9. CASE Added(x)
    <2>. DEFINE s == mine[x]
    <2>1. PICK b \in Seq(Records), out \in SUBSET Records :
              /\ buffer' = [buffer EXCEPT ![s] = Append(b, rec[x])]
              /\ Range(b) \cup out = Range(buffer[s])
              /\ dropped' = dropped \cup out
              /\ \A R : Sorted(buffer[s], R) => Sorted(b, R) /\ Ahead(out, Range(b), R)
        BY <1>9, Adds DEF Added
    <2>2. /\ s \in States /\ rec[x] \in Records /\ rec'[x] = NoRecord
          /\ UNCHANGED <<pending, forwarded, story>>
        BY <1>0, <1>9 DEF Added
    <2>. HIDE DEF s
    <2>3. BatchesOf(r)' = BatchesOf(r) /\ OutsOf(r)' = OutsOf(r) /\ Logged' = Logged
        BY <1>3, <2>2 DEF BatchesOf, OutsOf
    <2>4. out \cap Range(b) = {}
        <3>1. Ahead(out, Range(b), Distinct(Records))
            BY <2>1, <2>2 DEF OnePlace
        <3>. QED
            BY <3>1 DEF Ahead, Distinct
    <2>5. /\ Range(buffer'[s]) = Range(b) \cup {rec[x]}
          /\ \A t \in States : t # s => buffer'[t] = buffer[t]
        <3>1. Range(Append(b, rec[x])) = Range(b) \cup {rec[x]}
            BY <2>2, RangeAppend
        <3>. QED
            BY <1>0, <2>1, <2>2, <3>1
    <2>6. CASE r = rec[x]
        <3>1. /\ r \in Logged /\ HandsOf(r) = {x}
              /\ None(BuffersOf(r), BatchesOf(r), OutsOf(r), DropsOf(r))
            BY <1>0, <2>2, <2>6, FromHand DEF HandsOf
        <3>2. HandsOf(r)' = {}
            BY <1>0, <1>2, <2>2, <3>1
        <3>3. r \notin Range(buffer[s])
            BY <2>2, <3>1 DEF BuffersOf, None
        <3>4. BuffersOf(r)' = {s}
            BY <2>2, <2>5, <2>6, <3>1 DEF BuffersOf, None
        <3>5. DropsOf(r)' = {}
            BY <2>1, <3>1, <3>3 DEF DropsOf, None
        <3>. QED
            BY <2>3, <3>1, <3>2, <3>4, <3>5 DEF Placed, Single, None
    <2>7. ASSUME r # rec[x] PROVE HandsOf(r)' = HandsOf(r)
        BY <1>0, <1>2, <2>2, <2>7
    <2>8. CASE r # rec[x] /\ r \in out
        <3>1. /\ r \in Logged /\ BuffersOf(r) = {s}
              /\ None(HandsOf(r), BatchesOf(r), OutsOf(r), DropsOf(r))
            BY <1>0, <2>1, <2>2, <2>8, FromBuffer DEF BuffersOf
        <3>2. BuffersOf(r)' = {}
            BY <2>4, <2>5, <2>8, <3>1 DEF BuffersOf
        <3>3. DropsOf(r)' = {r}
            BY <2>1, <2>8 DEF DropsOf
        <3>. QED
            BY <2>3, <2>7, <2>8, <3>1, <3>2, <3>3 DEF Placed, Single, None
    <2>9. CASE r # rec[x] /\ r \notin out
        <3>1. r \in Range(buffer'[s]) <=> r \in Range(buffer[s])
            BY <2>1, <2>5, <2>9
        <3>2. BuffersOf(r)' = BuffersOf(r)
            BY <2>2, <2>5, <3>1 DEF BuffersOf
        <3>3. DropsOf(r)' = DropsOf(r)
            BY <2>1, <2>9 DEF DropsOf
        <3>. QED
            BY <1>0, <2>3, <2>7, <2>9, <3>2, <3>3, Untouched
    <2>. QED
        BY <2>6, <2>8, <2>9
\* The buffer goes to the batch, and the record in hand to the buffer.
<1>10. CASE Overflowed(x)
    <2>. DEFINE s == mine[x]
    <2>1. /\ s \in States /\ rec[x] \in Records /\ rec'[x] = NoRecord /\ pc[x] = "add"
          /\ buffer' = [buffer EXCEPT ![s] = <<rec[x]>>]
          /\ pending'[x] = buffer[s]
          /\ UNCHANGED <<forwarded, dropped, story>>
        BY <1>0, <1>10 DEF Overflowed
    <2>2. OutsOf(r)' = OutsOf(r) /\ DropsOf(r)' = DropsOf(r) /\ Logged' = Logged
        BY <1>3, <2>1 DEF OutsOf, DropsOf
    <2>3. Range(<<rec[x]>>) = {rec[x]} /\ Range(pending[x]) = {}
        BY <1>0, <2>1, Holds DEF Range
    <2>4. BatchesOf(r)' = BatchesOf(r) \cup (IF r \in Range(buffer[s]) THEN {x} ELSE {})
        BY <1>1, <2>1, <2>3 DEF BatchesOf
    <2>5. BuffersOf(r)' = (BuffersOf(r) \ {s}) \cup (IF r = rec[x] THEN {s} ELSE {})
        BY <1>0, <2>1, <2>3 DEF BuffersOf
    <2>6. CASE r = rec[x]
        <3>1. /\ r \in Logged /\ HandsOf(r) = {x}
              /\ None(BuffersOf(r), BatchesOf(r), OutsOf(r), DropsOf(r))
            BY <1>0, <2>1, <2>6, FromHand DEF HandsOf
        <3>2. HandsOf(r)' = {}
            BY <1>0, <1>2, <2>1, <3>1
        <3>3. r \notin Range(buffer[s])
            BY <2>1, <3>1 DEF BuffersOf, None
        <3>. QED
            BY <2>2, <2>4, <2>5, <2>6, <3>1, <3>2, <3>3 DEF Placed, Single, None
    <2>7. ASSUME r # rec[x] PROVE HandsOf(r)' = HandsOf(r)
        BY <1>0, <1>2, <2>1, <2>7
    <2>8. CASE r # rec[x] /\ r \in Range(buffer[s])
        <3>1. /\ r \in Logged /\ BuffersOf(r) = {s}
              /\ None(HandsOf(r), BatchesOf(r), OutsOf(r), DropsOf(r))
            BY <1>0, <2>1, <2>8, FromBuffer DEF BuffersOf
        <3>. QED
            BY <2>2, <2>4, <2>5, <2>7, <2>8, <3>1 DEF Placed, Single, None
    <2>9. CASE r # rec[x] /\ r \notin Range(buffer[s])
        <3>1. BuffersOf(r)' = BuffersOf(r) /\ BatchesOf(r)' = BatchesOf(r)
            BY <2>4, <2>5, <2>9 DEF BuffersOf
        <3>. QED
            BY <1>0, <2>2, <2>7, <2>9, <3>1, Untouched
    <2>. QED
        BY <2>6, <2>8, <2>9
\* A step that empties a buffer has no record in hand.
<1>12. CASE Flushed(x)
    <2>1. /\ mine[x] \in States /\ pc[x] = "flush"
          /\ buffer' = [buffer EXCEPT ![mine[x]] = <<>>]
          /\ pending'[x] = buffer[mine[x]]
          /\ UNCHANGED <<rec, forwarded, dropped, story>>
        BY <1>0, <1>12 DEF Flushed
    <2>2. pending[x] = <<>> /\ HandsOf(r)' = HandsOf(r) /\ Logged' = Logged
        BY <1>2, <1>3, <2>1, Holds
    <2>3. /\ Range(pending[x]) = {} /\ Range(pending'[x]) \subseteq Range(buffer[mine[x]])
          /\ dropped' = dropped \cup (Range(buffer[mine[x]]) \ Range(pending'[x]))
        BY <1>0, <2>1, <2>2
    <2>. QED
        BY <1>0, <1>1, <2>1, <2>2, <2>3, Emptied
<1>13. CASE Cleared(x)
    <2>1. /\ mine[x] \in States /\ pc[x] = "clear"
          /\ buffer' = [buffer EXCEPT ![mine[x]] = <<>>]
          /\ dropped' = dropped \cup Range(buffer[mine[x]])
          /\ UNCHANGED <<rec, pending, forwarded, story>>
        BY <1>13 DEF Cleared
    <2>2. pending[x] = <<>> /\ HandsOf(r)' = HandsOf(r) /\ Logged' = Logged
        BY <1>2, <1>3, <2>1, Holds
    <2>3. /\ Range(pending[x]) = {} /\ Range(pending'[x]) \subseteq Range(buffer[mine[x]])
          /\ dropped' = dropped \cup (Range(buffer[mine[x]]) \ Range(pending'[x]))
        BY <1>0, <2>1, <2>2
    <2>. QED
        BY <1>0, <1>1, <2>1, <2>2, <2>3, Emptied
<1>14. CASE Given(x)
    <2>. DEFINE q == Head(pending[x])
    <2>1. /\ rec[x] = NoRecord /\ pending[x] \in Seq(Records) /\ pending[x] # <<>>
          /\ forwarded' = Append(forwarded, q) /\ pending' = [pending EXCEPT ![x] = Tail(pending[x])]
          /\ UNCHANGED <<buffer, rec, dropped, story>>
        BY <1>14 DEF Given
    <2>2. /\ HandsOf(r)' = HandsOf(r) /\ Logged' = Logged
          /\ BuffersOf(r)' = BuffersOf(r) /\ DropsOf(r)' = DropsOf(r)
        BY <1>0, <1>2, <1>3, <2>1 DEF BuffersOf, DropsOf
    <2>3. OutsOf(r)' = OutsOf(r) \cup (IF r = q THEN {Len(forwarded) + 1} ELSE {})
        BY <1>0, <2>1, SpotsAppend, RangeHead DEF OutsOf
    <2>4. /\ Range(pending[x]) = {q} \cup Range(pending'[x])
          /\ q \notin Range(pending'[x])
        <3>1. Range(pending[x]) = {q} \cup Range(Tail(pending[x])) /\ Tail(pending[x]) \in Seq(Records)
            BY <2>1, RangeHead
        <3>2. Ahead({q}, Range(Tail(pending[x])), Distinct(Records))
            BY <2>1, SortedTail DEF OnePlace
        <3>. QED
            BY <1>0, <2>1, <3>1, <3>2 DEF Ahead, Distinct
    <2>. HIDE DEF q
    <2>5. CASE r = q
        <3>1. /\ r \in Logged /\ BatchesOf(r) = {x}
              /\ None(HandsOf(r), BuffersOf(r), OutsOf(r), DropsOf(r))
            BY <1>0, <2>4, <2>5, FromBatch DEF BatchesOf
        <3>2. BatchesOf(r)' = {}
            BY <1>1, <2>4, <2>5, <3>1 DEF BatchesOf
        <3>3. OutsOf(r)' = {Len(forwarded) + 1}
            BY <2>3, <2>5, <3>1 DEF None
        <3>. QED
            BY <2>2, <3>1, <3>2, <3>3 DEF Placed, Single, None
    <2>6. CASE r # q
        <3>1. BatchesOf(r)' = BatchesOf(r)
            BY <1>1, <2>4, <2>6 DEF BatchesOf
        <3>. QED
            BY <1>0, <2>2, <2>3, <2>6, <3>1, Untouched
    <2>. QED
        BY <2>5, <2>6
<1>15. CASE Ended(x)
    BY <1>5, <1>15 DEF Ended
<1>16. CASE Failed(x)
    <2>1. /\ dropped' = dropped \cup Range(pending[x]) /\ pending' = [pending EXCEPT ![x] = <<>>]
          /\ UNCHANGED <<buffer, rec, forwarded, story>>
        BY <1>16 DEF Failed
    <2>2. /\ HandsOf(r)' = HandsOf(r) /\ Logged' = Logged
          /\ BuffersOf(r)' = BuffersOf(r) /\ OutsOf(r)' = OutsOf(r)
          /\ BatchesOf(r)' = BatchesOf(r) \ {x}
        BY <1>0, <1>2, <1>3, <2>1 DEF BuffersOf, OutsOf, BatchesOf
    <2>3. CASE r \in Range(pending[x])
        <3>1. /\ r \in Logged /\ BatchesOf(r) = {x}
              /\ None(HandsOf(r), BuffersOf(r), OutsOf(r), DropsOf(r))
            BY <1>0, <2>3, FromBatch DEF BatchesOf
        <3>2. DropsOf(r)' = {r}
            BY <2>1, <2>3 DEF DropsOf
        <3>. QED
            BY <2>2, <3>1, <3>2 DEF Placed, Single, None
    <2>4. CASE r \notin Range(pending[x])
        <3>1. BatchesOf(r)' = BatchesOf(r) /\ DropsOf(r)' = DropsOf(r)
            BY <2>1, <2>2, <2>4 DEF BatchesOf, DropsOf
        <3>. QED
            BY <1>0, <2>2, <3>1, Untouched
    <2>. QED
        BY <2>3, <2>4
<1>. QED
    BY <1>4, <1>6, <1>7, <1>9, <1>10, <1>12, <1>13, <1>14, <1>15, <1>16, MovesDo

\* So does a record of the wrapped handler.
LEMMA PlacedEchoes ==
    ASSUME Typed, OnePlace, NEW x \in Contexts, NEW q \in Records, Echoed(x, q), NEW r \in Records
    PROVE  Placed(r)'
<1>1. /\ buffer \in [States -> Seq(Records)] /\ pending \in [Contexts -> Seq(Records)]
      /\ Placed(r) /\ Placed(q) /\ UNCHANGED <<rec, forwarded>>
    BY DEF Typed, TypeOK, OnePlace, Echoed
<1>2. q \notin Logged /\ Logged' = Logged \cup {q}
    BY StoryGrows DEF Echoed, Tells
<1>3. PICK s \in States : /\ Takes(x, s, q) \/ (Joins(s, q) /\ pending' = pending)
                          /\ buffer[s] \in Seq(Records) /\ pending[x] \in Seq(Records)
    BY DEF Echoed
<1>4. HandsOf(r)' = HandsOf(r) /\ OutsOf(r)' = OutsOf(r)
    BY <1>1 DEF HandsOf, OutsOf
<1>5. None(HandsOf(q), BuffersOf(q), BatchesOf(q), OutsOf(q)) /\ DropsOf(q) = {}
    BY <1>1, <1>2 DEF Placed
<1>6. q \notin Range(buffer[s]) /\ q \notin dropped /\ \A y \in Contexts : q \notin Range(pending[y])
    BY <1>5 DEF None, BuffersOf, DropsOf, BatchesOf
<1>7. CASE Joins(s, q) /\ pending' = pending
    <2>1. PICK b \in Seq(Records), out \in SUBSET Records :
              /\ buffer' = [buffer EXCEPT ![s] = Append(b, q)]
              /\ Range(b) \cup out = Range(buffer[s])
              /\ dropped' = dropped \cup out
              /\ \A R : Sorted(buffer[s], R) => Sorted(b, R) /\ Ahead(out, Range(b), R)
        BY <1>7, Adds
    <2>2. out \cap Range(b) = {}
        <3>1. Ahead(out, Range(b), Distinct(Records))
            BY <2>1 DEF OnePlace
        <3>. QED
            BY <3>1 DEF Ahead, Distinct
    <2>3. /\ Range(buffer'[s]) = Range(b) \cup {q}
          /\ \A t \in States : t # s => buffer'[t] = buffer[t]
        <3>1. Range(Append(b, q)) = Range(b) \cup {q}
            BY RangeAppend
        <3>. QED
            BY <1>1, <2>1, <3>1
    <2>4. BatchesOf(r)' = BatchesOf(r)
        BY <1>7 DEF BatchesOf
    <2>5. CASE r = q
        <3>1. BuffersOf(r)' = {s} /\ DropsOf(r)' = {}
            BY <1>5, <1>6, <2>1, <2>3, <2>5 DEF BuffersOf, DropsOf, None
        <3>. QED
            BY <1>2, <1>4, <1>5, <2>4, <2>5, <3>1 DEF Placed, Single, None
    <2>6. CASE r # q /\ r \in out
        <3>1. /\ r \in Logged /\ BuffersOf(r) = {s}
              /\ None(HandsOf(r), BatchesOf(r), OutsOf(r), DropsOf(r))
            BY <1>1, <2>1, <2>6, FromBuffer DEF BuffersOf
        <3>2. BuffersOf(r)' = {}
            BY <2>2, <2>3, <2>6, <3>1 DEF BuffersOf
        <3>3. DropsOf(r)' = {r}
            BY <2>1, <2>6 DEF DropsOf
        <3>. QED
            BY <1>2, <1>4, <2>4, <3>1, <3>2, <3>3 DEF Placed, Single, None
    <2>7. CASE r # q /\ r \notin out
        <3>1. BuffersOf(r)' = BuffersOf(r)
            BY <2>1, <2>3, <2>7 DEF BuffersOf
        <3>2. DropsOf(r)' = DropsOf(r)
            BY <2>1, <2>7 DEF DropsOf
        <3>. QED
            BY <1>1, <1>2, <1>4, <2>4, <2>7, <3>1, <3>2, Untouched
    <2>. QED
        BY <2>5, <2>6, <2>7
<1>8. CASE Takes(x, s, q)
    <2>1. /\ buffer' = [buffer EXCEPT ![s] = <<q>>] /\ dropped' = dropped
          /\ pending' = [pending EXCEPT ![x] = buffer[s] \o pending[x]]
        BY <1>8 DEF Takes
    <2>0. Range(<<q>>) = {q}
        BY DEF Range
    <2>2. Range(<<q>>) = {q} /\ Range(buffer[s] \o pending[x]) = Range(buffer[s]) \cup Range(pending[x])
        BY <1>3, <2>0, RangeConcatenation
    <2>3. BatchesOf(r)' = BatchesOf(r) \cup (IF r \in Range(buffer[s]) THEN {x} ELSE {})
        BY <1>1, <2>1, <2>2 DEF BatchesOf
    <2>4. BuffersOf(r)' = (BuffersOf(r) \ {s}) \cup (IF r = q THEN {s} ELSE {})
        BY <1>1, <2>1, <2>2 DEF BuffersOf
    <2>5. DropsOf(r)' = DropsOf(r)
        BY <2>1 DEF DropsOf
    <2>6. CASE r = q
        BY <1>2, <1>4, <1>5, <1>6, <2>3, <2>4, <2>5, <2>6 DEF Placed, Single, None
    <2>7. CASE r # q /\ r \in Range(buffer[s])
        <3>1. /\ r \in Logged /\ BuffersOf(r) = {s}
              /\ None(HandsOf(r), BatchesOf(r), OutsOf(r), DropsOf(r))
            BY <1>1, <2>7, FromBuffer DEF BuffersOf
        <3>. QED
            BY <1>2, <1>4, <2>3, <2>4, <2>5, <2>7, <3>1 DEF Placed, Single, None
    <2>8. CASE r # q /\ r \notin Range(buffer[s])
        <3>1. BuffersOf(r)' = BuffersOf(r) /\ BatchesOf(r)' = BatchesOf(r)
            BY <2>3, <2>4, <2>8 DEF BuffersOf
        <3>. QED
            BY <1>1, <1>2, <1>4, <2>5, <2>8, <3>1, Untouched
    <2>. QED
        BY <2>6, <2>7, <2>8
<1>. QED
    BY <1>3, <1>7, <1>8

\* A record that was not there is added, and no other is there twice.
LEMMA DistinctAdded ==
    ASSUME NEW b \in Seq(Records), NEW r \in Records, r \notin Range(b), Sorted(b, Distinct(Records))
    PROVE  Sorted(Append(b, r), Distinct(Records))
<1>1. Range(b) \subseteq Records
    BY DEF Range
<1>2. Ahead(Range(b), {r}, Distinct(Records))
    BY <1>1 DEF Ahead, Distinct
<1>. QED
    BY <1>2, SortedAppend

\* No step puts a record in a buffer or a batch twice.
LEMMA DistinctKept ==
    ASSUME Typed, OnePlace, NEW x \in Contexts, Moves(x) \/ Echoes(x)
    PROVE  /\ \A s \in States : Sorted(buffer'[s], Distinct(Records))
           /\ \A y \in Contexts : Sorted(pending'[y], Distinct(Records))
<1>0. /\ buffer \in [States -> Seq(Records)] /\ pending \in [Contexts -> Seq(Records)]
      /\ \A R : Sorted(<<>>, R)
      /\ \A s \in States : Sorted(buffer[s], Distinct(Records))
      /\ \A y \in Contexts : Sorted(pending[y], Distinct(Records))
      /\ NoRecord \notin Records
    BY SortedEmpty, Holds DEF Typed, TypeOK, OnePlace
<1>1. CASE Added(x)
    <2>. DEFINE s == mine[x]
    <2>1. PICK b \in Seq(Records), out \in SUBSET Records :
              /\ buffer' = [buffer EXCEPT ![s] = Append(b, rec[x])]
              /\ Range(b) \cup out = Range(buffer[s])
              /\ dropped' = dropped \cup out
              /\ \A R : Sorted(buffer[s], R) => Sorted(b, R) /\ Ahead(out, Range(b), R)
        BY <1>1, Adds DEF Added
    <2>2. s \in States /\ rec[x] \in Records /\ pending' = pending
        BY <1>1 DEF Added
    <2>. HIDE DEF s
    <2>3. rec[x] \notin Range(buffer[s])
        <3>1. None(BuffersOf(rec[x]), BatchesOf(rec[x]), OutsOf(rec[x]), DropsOf(rec[x]))
            BY <2>2, FromHand DEF HandsOf, OnePlace
        <3>. QED
            BY <2>2, <3>1 DEF BuffersOf, None
    <2>4. Sorted(b, Distinct(Records)) /\ rec[x] \notin Range(b)
        BY <1>0, <2>1, <2>2, <2>3
    <2>5. Sorted(Append(b, rec[x]), Distinct(Records))
        BY <2>2, <2>4, DistinctAdded
    <2>. QED
        BY <1>0, <2>1, <2>2, <2>5
<1>2. CASE Overflowed(x)
    <2>1. Sorted(<<rec[x]>>, Distinct(Records))
        BY DEF Sorted
    <2>. QED
        BY <1>0, <1>2, <2>1 DEF Overflowed
<1>3. CASE Flushed(x)
    BY <1>0, <1>3 DEF Flushed
<1>4. CASE Cleared(x)
    BY <1>0, <1>4 DEF Cleared
<1>5. CASE Given(x)
    <2>1. Sorted(Tail(pending[x]), Distinct(Records))
        BY <1>0, <1>5, SortedTail DEF Given
    <2>. QED
        BY <1>0, <1>5, <2>1 DEF Given
<1>6. CASE Echoes(x)
    <2>1. PICK q \in Records, s \in States :
              /\ q \notin Logged
              /\ Takes(x, s, q) \/ (Joins(s, q) /\ pending' = pending)
        BY <1>6, EchoesDo DEF Echoed
    <2>2. q \notin Range(buffer[s])
        BY <2>1 DEF OnePlace, Placed, Single, None, BuffersOf
    <2>3. CASE Joins(s, q) /\ pending' = pending
        <3>1. PICK b \in Seq(Records), out \in SUBSET Records :
                  /\ buffer' = [buffer EXCEPT ![s] = Append(b, q)]
                  /\ Range(b) \cup out = Range(buffer[s])
                  /\ \A R : Sorted(buffer[s], R) => Sorted(b, R) /\ Ahead(out, Range(b), R)
            BY <2>3, Adds
        <3>2. Sorted(Append(b, q), Distinct(Records))
            BY <1>0, <2>2, <3>1, DistinctAdded
        <3>. QED
            BY <1>0, <2>3, <3>1, <3>2
    <2>4. CASE Takes(x, s, q)
        <3>1. Sorted(<<q>>, Distinct(Records))
            BY DEF Sorted
        <3>2. Ahead(Range(buffer[s]), Range(pending[x]), Distinct(Records))
            <4>1. Range(buffer[s]) \subseteq Records /\ Range(pending[x]) \subseteq Records
                BY <1>0 DEF Range
            <4>2. ASSUME NEW a \in Range(buffer[s]) PROVE a \notin Range(pending[x])
                <5>1. BatchesOf(a) = {}
                    BY <4>1, FromBuffer DEF OnePlace, BuffersOf, None
                <5>. QED
                    BY <5>1 DEF BatchesOf
            <4>. QED
                BY <4>1, <4>2 DEF Ahead, Distinct
        <3>3. Sorted(buffer[s] \o pending[x], Distinct(Records))
            BY <1>0, <3>2, SortedConcat
        <3>. QED
            BY <1>0, <2>4, <3>1, <3>3 DEF Takes
    <2>. QED
        BY <2>1, <2>3, <2>4
<1>7. CASE Failed(x)
    BY <1>0, <1>7 DEF Failed
<1>. QED
    BY <1>0, <1>1, <1>2, <1>3, <1>4, <1>5, <1>6, <1>7, MovesDo DEF Begun, Ended, Closed, Called

\* No record is in a place at first.
LEMMA OnePlaceInit == BufferAssumption /\ Init => OnePlace
<1>. SUFFICES ASSUME BufferAssumption, Init PROVE OnePlace
    OBVIOUS
<1>1. Range(<<>>) = {} /\ \A R : Sorted(<<>>, R)
    BY SortedEmpty
<1>2. ASSUME NEW r \in Records PROVE Placed(r)
    <2>1. /\ HandsOf(r) = {} /\ BuffersOf(r) = {} /\ BatchesOf(r) = {} /\ DropsOf(r) = {}
          /\ r \notin Logged
        BY <1>1 DEF BufferAssumption, Init, UnitInit, HandsOf, BuffersOf, BatchesOf, DropsOf, Logged
    <2>2. OutsOf(r) = {}
        BY <1>1, EmptySeq, SpotsRange DEF Init, OutsOf
    <2>. QED
        BY <2>1, <2>2 DEF Placed, None
<1>. QED
    BY <1>1, <1>2 DEF Init, OnePlace

\* Every step leaves each record in one place.
LEMMA OnePlaceNext == Typed /\ OnePlace /\ [Next]_vars => OnePlace'
<1>. SUFFICES ASSUME Typed, OnePlace, [Next]_vars PROVE OnePlace'
    OBVIOUS
<1>1. ASSUME UNCHANGED bufferVars PROVE OnePlace'
    <2>1. UNCHANGED <<buffer, rec, pending, forwarded, dropped, story>>
        BY <1>1 DEF bufferVars
    <2>2. ASSUME NEW r \in Records PROVE Placed(r)'
        <3>1. /\ BuffersOf(r)' = BuffersOf(r) /\ BatchesOf(r)' = BatchesOf(r)
              /\ OutsOf(r)' = OutsOf(r) /\ DropsOf(r)' = DropsOf(r) /\ Logged' = Logged
              /\ HandsOf(r)' = HandsOf(r)
            BY <2>1 DEF HandsOf, BuffersOf, BatchesOf, OutsOf, DropsOf, Logged
        <3>. QED
            BY <3>1, Untouched DEF OnePlace
    <2>. QED
        BY <2>1, <2>2 DEF OnePlace
<1>2. ASSUME NEW x \in Contexts, Moves(x) PROVE OnePlace'
    BY <1>2, PlacedMoves, DistinctKept DEF OnePlace
<1>3. ASSUME NEW x \in Contexts, Echoes(x) PROVE OnePlace'
    BY <1>3, EchoesDo, PlacedEchoes, DistinctKept DEF OnePlace
<1>. QED
    BY <1>1, <1>2, <1>3, NextIs DEF Elsewhere, vars

-----------------------------------------------------------------------------
(* The order of a story *)

\* Nothing is told at first.
LEMMA InTurnInit == Init => InTurn
<1>. SUFFICES ASSUME Init PROVE InTurn
    OBVIOUS
<1>1. Range(<<>>) = {} /\ \A R : Sorted(<<>>, R)
    BY SortedEmpty
<1>. QED
    BY <1>1 DEF Init, UnitInit, InTurn, Turn, TurnIn, TurnBy, Ahead

\* Records of two units do not come after one another.
LEMMA Crossing ==
    ASSUME Typed, Homely, NEW u \in Homes, NEW v \in Homes, u # v,
           NEW a \in Range(story[u]), NEW b \in Range(story[v])
    PROVE  <<a, b>> \in NotAfter
<1>1. /\ \A w \in Homes : story[w] \in Seq(Records)
      /\ \A w \in Homes : \A k \in DOMAIN story[w] : story[w][k] \in Range(story[w])
      /\ \A w \in Homes : w # u => a \notin Range(story[w])
      /\ \A w \in Homes : w # v => b \notin Range(story[w])
    BY DEF Typed, TypeOK, Homely, Range
<1>2. a \in Records /\ b \in Records /\ a # b
    BY <1>1 DEF Range
<1>3. ASSUME NEW w \in Homes, NEW k \in DOMAIN story[w], NEW l \in DOMAIN story[w],
             story[w][k] = a, story[w][l] = b
      PROVE  k < l
    BY <1>1, <1>3
<1>. QED
    BY <1>2, <1>3 DEF NotAfter

\* A new record comes after all, and changes nothing between the others.
LEMMA NewIsLast ==
    ASSUME Typed, NEW x \in Contexts, NEW q \in Records, Tells(x, q), NEW a \in Records, a # q
    PROVE  /\ <<a, q>> \in NotAfter'
           /\ \A b : <<a, b>> \in NotAfter => <<a, b>> \in NotAfter'
<1>1. /\ story \in [Homes -> Seq(Records)] /\ current[x] \in Homes
      /\ story' = [story EXCEPT ![current[x]] = Append(story[current[x]], q)]
      /\ \A u \in Homes : q \notin Range(story[u])
    BY StoryGrows DEF Typed, TypeOK, Tells
<1>2. ASSUME NEW u \in Homes, NEW k \in DOMAIN story'[u]
      PROVE  \/ k \in DOMAIN story[u] /\ story'[u][k] = story[u][k] /\ story[u][k] # q
                /\ (\A l \in DOMAIN story'[u] : story'[u][l] = q => k < l)
             \/ story'[u][k] = q
    <2>1. Len(story[u]) \in Nat /\ DOMAIN story[u] = 1 .. Len(story[u])
          /\ story[u] \in Seq(Records)
        BY <1>1
    <2>2. CASE u = current[x]
        <3>1. story'[u] = Append(story[u], q)
            BY <1>1, <2>2
        <3>2. /\ DOMAIN story'[u] = 1 .. Len(story[u]) + 1 /\ story'[u][Len(story[u]) + 1] = q
              /\ \A l \in 1 .. Len(story[u]) : story'[u][l] = story[u][l] /\ story[u][l] # q
            BY <1>1, <2>1, <3>1 DEF Range
        <3>. QED
            BY <1>2, <2>1, <3>2
    <2>3. CASE u # current[x]
        <3>1. story'[u] = story[u] /\ \A l \in DOMAIN story[u] : story[u][l] # q
            BY <1>1, <2>3 DEF Range
        <3>. QED
            BY <1>2, <2>1, <3>1
    <2>. QED
        BY <2>2, <2>3
<1>3. <<a, q>> \in NotAfter'
    <2>1. ASSUME NEW u \in Homes, NEW k \in DOMAIN story'[u], NEW l \in DOMAIN story'[u],
                 story'[u][k] = a, story'[u][l] = q
          PROVE  k < l
        BY <1>2, <2>1
    <2>. QED
        BY <2>1 DEF NotAfter
<1>4. ASSUME NEW b, <<a, b>> \in NotAfter PROVE <<a, b>> \in NotAfter'
    <2>1. CASE b = q
        BY <1>3, <2>1
    <2>2. CASE b # q
        <3>1. ASSUME NEW u \in Homes, NEW k \in DOMAIN story'[u], NEW l \in DOMAIN story'[u],
                     story'[u][k] = a, story'[u][l] = b
              PROVE  k < l
            <4>1. /\ k \in DOMAIN story[u] /\ story[u][k] = a
                  /\ l \in DOMAIN story[u] /\ story[u][l] = b
                BY <1>2, <2>2, <3>1
            <4>. QED
                BY <1>4, <4>1 DEF NotAfter
        <3>. QED
            BY <1>4, <3>1 DEF NotAfter
    <2>. QED
        BY <2>1, <2>2
<1>. QED
    BY <1>3, <1>4

\* What a unit of one context has told comes after nothing that is elsewhere.
LEMMA Far ==
    ASSUME Typed, Alone, Homely, HeldBack, ~setup.sharing,
           NEW x \in Contexts, current[x] \in Units, NEW a \in Range(story[current[x]])
    PROVE  /\ \A s \in States : s # kept[current[x]] => Ahead({a}, Range(buffer[s]), NotAfter)
           /\ \A y \in Contexts : y # x =>
                  /\ Ahead({a}, Range(pending[y]), NotAfter)
                  /\ rec[y] # NoRecord => Ahead({a}, {rec[y]}, NotAfter)
<1>1. /\ current[x] \in Homes
      /\ \A y \in Contexts : y # x => current[y] # current[x] /\ current[y] \in Homes
    BY OwnState, Holds, UnitAssumption
<1>2. ASSUME NEW v \in Homes, v # current[x], NEW b \in Range(story[v]) PROVE <<a, b>> \in NotAfter
    BY <1>1, <1>2, Crossing
<1>3. ASSUME NEW s \in States, s # kept[current[x]] PROVE Ahead({a}, Range(buffer[s]), NotAfter)
    <2>1. HomeOf(s) \in Homes /\ Range(buffer[s]) \subseteq Range(story[HomeOf(s)])
        BY StateIsPair DEF Homely, HomeOf, Homes
    <2>2. CASE HomeOf(s) # current[x]
        BY <1>2, <2>1, <2>2 DEF Ahead
    <2>3. CASE HomeOf(s) = current[x]
        <3>1. buffer[s] = <<>>
            BY <1>3, <2>3 DEF HeldBack, HomeOf
        <3>. QED
            BY <3>1, SortedEmpty DEF Ahead
    <2>. QED
        BY <2>2, <2>3
<1>4. ASSUME NEW y \in Contexts, y # x
      PROVE  /\ Ahead({a}, Range(pending[y]), NotAfter)
             /\ rec[y] # NoRecord => Ahead({a}, {rec[y]}, NotAfter)
    <2>1. current[y] \in Homes /\ current[y] # current[x]
        BY <1>1, <1>4
    <2>2. /\ Range(pending[y]) \subseteq Range(story[current[y]])
          /\ rec[y] # NoRecord => rec[y] \in Range(story[current[y]])
        BY DEF Homely
    <2>. QED
        BY <1>2, <2>1, <2>2 DEF Ahead
<1>. QED
    BY <1>3, <1>4

\* Ahead, of two sets at once.
LEMMA AheadBoth ==
    ASSUME NEW R, NEW S, NEW T, NEW A
    PROVE  /\ Ahead(S \cup T, A, R) <=> Ahead(S, A, R) /\ Ahead(T, A, R)
           /\ Ahead(A, S \cup T, R) <=> Ahead(A, S, R) /\ Ahead(A, T, R)
           /\ Ahead({}, A, R) /\ Ahead(A, {}, R)
  BY DEF Ahead

\* A new record of a story: it is in hand, or last in the buffer of its unit,
\* once what is held of the others, H, is in turn.
LEMMA TurnTold ==
    ASSUME Typed, Homely, InTurn, NEW x \in Contexts, NEW q \in Records, Stays(x), Tells(x, q),
           NEW H \in [States -> Seq(Records)],
           \A s \in States : Range(H[s]) \subseteq Range(buffer[s]),
           \A y \in Contexts : Range(pending'[y]) \subseteq Records \ {q},
           dropped' \subseteq Records \ {q}, forwarded' = forwarded,
           \A y \in Contexts : rec'[y] \in {rec[y], q},
           ~setup.sharing => Turn(H, pending', forwarded, dropped', rec),
           ~setup.sharing => \A s \in States :
               \/ buffer'[s] = H[s]
               \/ /\ buffer'[s] = Append(H[s], q)
                  /\ \A y \in Contexts : HomeOf(s) = current[y] => rec'[y] = NoRecord
    PROVE  InTurn'
<1>0. /\ story \in [Homes -> Seq(Records)] /\ current[x] \in Homes
      /\ setup' = setup /\ current' = current
      /\ \A s \in States : HomeOf(s)' = HomeOf(s)
    BY DEF Typed, TypeOK, Tells, Stays, HomeOf
<1>1. story' = [story EXCEPT ![current[x]] = Append(story[current[x]], q)]
    BY DEF Tells
<1>2. Range(forwarded) \subseteq Records \ {q} /\ \A s \in States : Range(H[s]) \subseteq Records \ {q}
    <2>1. Range(forwarded) \subseteq Records /\ \A s \in States : Range(buffer[s]) \subseteq Records
        BY DEF Typed, TypeOK, Range
    <2>2. \A u \in Homes : q \notin Range(story[u])
        BY StoryGrows
    <2>3. q \notin Range(forwarded)
        BY DEF Homely, Tells
    <2>4. ASSUME NEW s \in States PROVE q \notin Range(buffer[s])
        <3>1. Range(buffer[s]) \subseteq Range(story[HomeOf(s)]) /\ HomeOf(s) \in Homes
            BY StateIsPair DEF Homely, HomeOf, Homes
        <3>. QED
            BY <2>2, <3>1
    <2>. QED
        BY <2>1, <2>3, <2>4
<1>3. \A a \in Records \ {q} : <<a, q>> \in NotAfter' /\ \A b : <<a, b>> \in NotAfter => <<a, b>> \in NotAfter'
    BY NewIsLast
<1>4. \A S, T : S \subseteq Records \ {q} /\ Ahead(S, T, NotAfter) => Ahead(S, T, NotAfter')
    BY <1>3 DEF Ahead
<1>5. \A s : Range(s) \subseteq Records \ {q} /\ Sorted(s, NotAfter) => Sorted(s, NotAfter')
    BY <1>3 DEF Sorted, Range
<1>6. \A S : S \subseteq Records \ {q} => Ahead(S, {q}, NotAfter')
    BY <1>3 DEF Ahead
<1>7. ASSUME NEW u \in Homes PROVE Sorted(story'[u], Distinct(Records))
    <2>1. Sorted(story[u], Distinct(Records)) /\ story[u] \in Seq(Records) /\ q \notin Range(story[u])
        BY <1>0, StoryGrows DEF InTurn
    <2>2. Sorted(Append(story[u], q), Distinct(Records))
        BY <2>1, DistinctAdded
    <2>. QED
        BY <1>0, <1>1, <2>1, <2>2
<1>8. ASSUME ~setup.sharing PROVE Turn(buffer, pending, forwarded, dropped, rec)'
    <2>1. /\ Straight => Sorted(forwarded, NotAfter)
          /\ \A s \in States : TurnIn(s, H, forwarded, dropped')
          /\ \A y \in Contexts : TurnBy(y, H, pending', forwarded, dropped', rec)
        BY <1>8 DEF Turn
    <2>2. ASSUME NEW s \in States
          PROVE  \/ buffer'[s] = H[s]
                 \/ buffer'[s] = Append(H[s], q) /\ Range(buffer'[s]) = Range(H[s]) \cup {q}
        <3>1. H[s] \in Seq(Records)
            OBVIOUS
        <3>2. Range(Append(H[s], q)) = Range(H[s]) \cup {q}
            BY <3>1, RangeAppend
        <3>. QED
            BY <1>8, <3>2
    \* What precedes a buffer precedes the record that joins it.
    <2>3. ASSUME NEW s \in States, NEW S, S \subseteq Records \ {q}, Ahead(S, Range(H[s]), NotAfter)
          PROVE  Ahead(S, Range(buffer'[s]), NotAfter')
        <3>1. Ahead(S, Range(H[s]), NotAfter') /\ Ahead(S, {q}, NotAfter')
            BY <1>4, <1>6, <2>3
        <3>2. Ahead(S, Range(H[s]) \cup {q}, NotAfter')
            BY <3>1, AheadBoth
        <3>. QED
            BY <2>2, <3>1, <3>2
    <2>4. ASSUME NEW s \in States
          PROVE  /\ Sorted(buffer'[s], NotAfter')
                 /\ Ahead(Range(forwarded) \cup dropped', Range(buffer'[s]), NotAfter')
        <3>1. Sorted(H[s], NotAfter) /\ Ahead(Range(forwarded) \cup dropped', Range(H[s]), NotAfter)
              /\ H[s] \in Seq(Records) /\ Range(H[s]) \subseteq Records \ {q}
              /\ Range(forwarded) \cup dropped' \subseteq Records \ {q}
            BY <1>2, <2>1 DEF TurnIn
        <3>2. Sorted(H[s], NotAfter') /\ Ahead(Range(H[s]), {q}, NotAfter')
            BY <1>5, <1>6, <3>1
        <3>3. Sorted(Append(H[s], q), NotAfter')
            BY <3>1, <3>2, SortedAppend
        <3>4. Ahead(Range(forwarded) \cup dropped', Range(buffer'[s]), NotAfter')
            BY <2>3, <3>1
        <3>. QED
            BY <2>2, <3>2, <3>3, <3>4
    <2>5. ASSUME NEW y \in Contexts
          PROVE  /\ Straight => /\ Sorted(pending'[y], NotAfter')
                                /\ Ahead(Range(forwarded), Range(pending'[y]), NotAfter')
                 /\ \A s \in States : HomeOf(s) = current[y] =>
                        Ahead(Range(pending'[y]), Range(buffer'[s]), NotAfter')
                 /\ rec'[y] # NoRecord =>
                        /\ Ahead(Range(forwarded) \cup dropped', {rec'[y]}, NotAfter')
                        /\ \A s \in States : HomeOf(s) = current[y] =>
                               Ahead(Range(buffer'[s]), {rec'[y]}, NotAfter')
        <3>. DEFINE p == pending'[y]
        <3>0. Range(p) \subseteq Records \ {q} /\ TurnBy(y, H, pending', forwarded, dropped', rec)
            BY <2>1
        <3>1. Straight => Sorted(p, NotAfter') /\ Ahead(Range(forwarded), Range(p), NotAfter')
            BY <1>2, <1>4, <1>5, <3>0 DEF TurnBy
        <3>2. ASSUME NEW s \in States, HomeOf(s) = current[y]
              PROVE  Ahead(Range(p), Range(buffer'[s]), NotAfter')
            BY <2>3, <3>0, <3>2 DEF TurnBy
        <3>3. ASSUME rec'[y] # NoRecord
              PROVE  /\ Ahead(Range(forwarded) \cup dropped', {rec'[y]}, NotAfter')
                     /\ \A s \in States : HomeOf(s) = current[y] => Ahead(Range(buffer'[s]), {rec'[y]}, NotAfter')
            <4>1. \A s \in States : HomeOf(s) = current[y] => buffer'[s] = H[s]
                BY <1>8, <3>3
            <4>2. Range(forwarded) \cup dropped' \subseteq Records \ {q}
                BY <1>2
            <4>3. CASE rec'[y] = q
                BY <1>2, <1>6, <4>1, <4>2, <4>3
            <4>4. CASE rec'[y] = rec[y]
                <5>1. /\ Ahead(Range(forwarded) \cup dropped', {rec[y]}, NotAfter)
                      /\ \A s \in States : HomeOf(s) = current[y] => Ahead(Range(H[s]), {rec[y]}, NotAfter)
                    BY <3>0, <3>3, <4>4 DEF TurnBy
                <5>. QED
                    BY <1>2, <1>4, <4>1, <4>2, <4>4, <5>1
            <4>. QED
                BY <4>3, <4>4
        <3>. QED
            BY <3>1, <3>2, <3>3
    <2>6. Straight => Sorted(forwarded, NotAfter')
        BY <1>2, <1>5, <2>1
    <2>. QED
        BY <1>0, <2>4, <2>5, <2>6 DEF Turn, TurnIn, TurnBy, Straight
<1>. QED
    BY <1>0, <1>7, <1>8 DEF InTurn

\* Where nothing is told: the order of what one context moves is all there is to
\* show of the new buffers H, batches B, and so on.
LEMMA TurnKept ==
    ASSUME Typed, Alone, Homely, HeldBack, InTurn, ~setup.sharing,
           NEW x \in Contexts, pc[x] \notin Outside,
           NEW H, NEW B, NEW F, NEW D, NEW C,
           \A s \in States : s # mine[x] => H[s] = buffer[s],
           \A y \in Contexts : y # x => C[y] = rec[y] /\ B[y] = pending[y],
           C[x] = NoRecord,
           Range(F) \subseteq Range(forwarded) \cup Range(story[current[x]]),
           D \subseteq dropped \cup Range(story[current[x]]),
           Sorted(H[mine[x]], NotAfter),
           Straight => Sorted(F, NotAfter) /\ Sorted(B[x], NotAfter) /\ Ahead(Range(F), Range(B[x]), NotAfter),
           Ahead(Range(F) \cup D, Range(H[mine[x]]), NotAfter),
           Ahead(Range(B[x]), Range(H[mine[x]]), NotAfter)
    PROVE  Turn(H, B, F, D, C)
<1>1. /\ current[x] \in Units /\ mine[x] = kept[current[x]] /\ HomeOf(mine[x]) = current[x]
      /\ \A y \in Contexts : y # x => current[y] # current[x]
    BY OwnState, AtHome, UnitAssumption
<1>2. /\ \A s \in States : TurnIn(s, buffer, forwarded, dropped)
      /\ \A y \in Contexts : TurnBy(y, buffer, pending, forwarded, dropped, rec)
    BY DEF InTurn, Turn
<1>3. ASSUME NEW a \in Range(story[current[x]])
      PROVE  /\ \A s \in States : s # mine[x] => Ahead({a}, Range(buffer[s]), NotAfter)
             /\ \A y \in Contexts : y # x =>
                    /\ Ahead({a}, Range(pending[y]), NotAfter)
                    /\ rec[y] # NoRecord => Ahead({a}, {rec[y]}, NotAfter)
    BY <1>1, Far
<1>4. ASSUME NEW s \in States PROVE TurnIn(s, H, F, D)
    <2>1. CASE s = mine[x]
        BY <2>1 DEF TurnIn
    <2>2. CASE s # mine[x]
        <3>1. Ahead(Range(story[current[x]]), Range(buffer[s]), NotAfter)
            BY <1>3, <2>2 DEF Ahead
        <3>2. Ahead(Range(F) \cup D, Range(buffer[s]), NotAfter)
            BY <1>2, <3>1 DEF TurnIn, Ahead
        <3>. QED
            BY <1>2, <2>2, <3>2 DEF TurnIn
    <2>. QED
        BY <2>1, <2>2
<1>5. ASSUME NEW y \in Contexts PROVE TurnBy(y, H, B, F, D, C)
    <2>1. CASE y = x
        <3>1. ASSUME NEW s \in States, HomeOf(s) = current[x]
              PROVE  Ahead(Range(B[x]), Range(H[s]), NotAfter)
            <4>1. CASE s # mine[x]
                <5>1. H[s] = <<>>
                    BY <1>1, <3>1, <4>1 DEF HeldBack, HomeOf
                <5>. QED
                    BY <5>1, SortedEmpty, AheadBoth
            <4>. QED
                BY <4>1
        <3>. QED
            BY <2>1, <3>1 DEF TurnBy
    <2>2. CASE y # x
        <3>1. /\ Ahead(Range(story[current[x]]), Range(pending[y]), NotAfter)
              /\ rec[y] # NoRecord => Ahead(Range(story[current[x]]), {rec[y]}, NotAfter)
            BY <1>3, <2>2 DEF Ahead
        <3>2. /\ Straight => Ahead(Range(F), Range(pending[y]), NotAfter)
              /\ rec[y] # NoRecord => Ahead(Range(F) \cup D, {rec[y]}, NotAfter)
            BY <1>2, <3>1 DEF TurnBy, Ahead
        <3>3. \A s \in States : HomeOf(s) = current[y] => H[s] = buffer[s]
            BY <1>1, <2>2
        <3>. QED
            BY <1>2, <2>2, <3>2, <3>3 DEF TurnBy
    <2>. QED
        BY <2>1, <2>2
<1>. QED
    BY <1>4, <1>5 DEF Turn

\* A step of the handler keeps the order.
LEMMA TurnMoves ==
    ASSUME Typed, Alone, Homely, HeldBack, InTurn, NEW x \in Contexts, Moves(x)
    PROVE  InTurn'
<1>0. /\ buffer \in [States -> Seq(Records)] /\ rec \in [Contexts -> Records \cup {NoRecord}]
      /\ pending \in [Contexts -> Seq(Records)] /\ forwarded \in Seq(Records)
      /\ pc \in [Contexts -> BufferPhases] /\ \A R : Sorted(<<>>, R)
      /\ Range(<<>>) = {} /\ NoRecord \notin Records /\ current[x] \in Homes
    BY SortedEmpty, Holds DEF Typed, TypeOK
<1>1. Stays(x) /\ \A y \in Contexts : y # x => rec'[y] = rec[y] /\ pending'[y] = pending[y]
    BY MovesDo, OnlyMine
<1>2. ASSUME NEW q \in Records, Begun(x, q) PROVE InTurn'
    <2>1. /\ UNCHANGED <<buffer, pending, forwarded, dropped>> /\ Tells(x, q)
          /\ \A y \in Contexts : rec'[y] \in {rec[y], q}
        BY <1>0, <1>2 DEF Begun, Tells
    <2>2. /\ \A s \in States : buffer'[s] = buffer[s] /\ Range(buffer[s]) \subseteq Range(buffer[s])
          /\ \A s \in States : Range(buffer[s]) \subseteq Range(story[HomeOf(s)]) /\ HomeOf(s) \in Homes
          /\ \A y \in Contexts : Range(pending[y]) \subseteq Range(story[current[y]]) /\ current[y] \in Homes
          /\ \A u \in Homes : q \notin Range(story[u])
        BY <2>1, StateIsPair, Holds, StoryGrows DEF Homely, HomeOf, Homes
    <2>3. dropped \subseteq Records /\ \A f \in Seq(Records) : Range(f) \subseteq Records
        BY DEF Range, Typed, TypeOK
    <2>4. q \notin dropped
        BY <2>1 DEF Homely, Tells
    <2>5. ASSUME NEW y \in Contexts PROVE Range(pending'[y]) \subseteq Records \ {q}
        <3>1. pending'[y] = pending[y] /\ Range(pending[y]) \subseteq Records
            BY <1>0, <2>1, <2>3
        <3>. QED
            BY <2>2, <3>1
    <2>6. ~setup.sharing => Turn(buffer, pending', forwarded, dropped', rec)
        BY <2>1 DEF InTurn
    <2>. QED
        <3>1. dropped' \subseteq Records \ {q} /\ forwarded' = forwarded
            BY <2>1, <2>3, <2>4
        <3>. QED
            BY <1>0, <1>1, <2>1, <2>2, <2>5, <2>6, <3>1, TurnTold
<1>. SUFFICES ASSUME ~\E q \in Records : Begun(x, q) PROVE InTurn'
    BY <1>2
<1>3. story' = story /\ NotAfter' = NotAfter /\ UNCHANGED <<setup, current>>
      /\ \A s \in States : HomeOf(s)' = HomeOf(s)
    BY <1>1, Flows DEF Flow, NotAfter, Stays, HomeOf
<1>. SUFFICES ASSUME ~setup.sharing PROVE InTurn'
    BY <1>3 DEF InTurn
<1>4. /\ Straight => Sorted(forwarded, NotAfter)
      /\ \A s \in States : TurnIn(s, buffer, forwarded, dropped)
      /\ \A y \in Contexts : TurnBy(y, buffer, pending, forwarded, dropped, rec)
    BY DEF InTurn, Turn
<1>5. CASE Called(x)
    <2>1. UNCHANGED <<buffer, rec, pending, forwarded, dropped>>
        BY <1>5 DEF Called
    <2>. QED
        BY <1>3, <2>1 DEF InTurn, Turn, TurnIn, TurnBy, Straight
<1>. SUFFICES ASSUME ~Called(x) PROVE InTurn'
    BY <1>5
<1>6. pc[x] \notin Outside /\ rec'[x] = NoRecord
    BY <1>0, MovesDo DEF Added, Overflowed, Flushed, Cleared, Given, Ended, Failed, Closed, Outside
<1>. DEFINE s == mine[x]
            d == Range(story[current[x]])
<1>7. /\ s \in States /\ HomeOf(s) = current[x] /\ buffer[s] \in Seq(Records)
      /\ pending[x] \in Seq(Records)
      /\ Range(buffer[s]) \subseteq d /\ Range(pending[x]) \subseteq d
      /\ rec[x] # NoRecord => rec[x] \in d
    BY <1>6, AtHome, Holds DEF Homely
<1>8. /\ \A t \in States : t # s => buffer'[t] = buffer[t]
      /\ Sorted(buffer[s], NotAfter) /\ (Straight => Sorted(pending[x], NotAfter))
      /\ Ahead(Range(forwarded) \cup dropped, Range(buffer[s]), NotAfter)
      /\ Straight => Ahead(Range(forwarded), Range(pending[x]), NotAfter)
      /\ Ahead(Range(pending[x]), Range(buffer[s]), NotAfter)
      /\ rec[x] # NoRecord => /\ Ahead(Range(forwarded) \cup dropped, {rec[x]}, NotAfter)
                              /\ Ahead(Range(buffer[s]), {rec[x]}, NotAfter)
    BY <1>4, <1>7, OnlyMine DEF TurnIn, TurnBy
\* What is left to show of a step, by the places it changes.
<1>9. ASSUME NEW b, NEW p, NEW f, NEW o,
             buffer'[s] = b, pending'[x] = p, forwarded' = f, dropped' = o,
             Sorted(b, NotAfter),
             Straight => Sorted(p, NotAfter) /\ Sorted(f, NotAfter) /\ Ahead(Range(f), Range(p), NotAfter),
             Range(f) \subseteq Range(forwarded) \cup d, o \subseteq dropped \cup d,
             Ahead(Range(f) \cup o, Range(b), NotAfter), Ahead(Range(p), Range(b), NotAfter)
      PROVE  InTurn'
    <2>1. Turn(buffer', pending', forwarded', dropped', rec')
        BY <1>1, <1>6, <1>8, <1>9, TurnKept
    <2>. QED
        BY <1>3, <2>1 DEF InTurn, Turn, TurnIn, TurnBy, Straight
<1>. HIDE DEF s, d
<1>10. CASE Added(x)
    <2>1. PICK b \in Seq(Records), out \in SUBSET Records :
              /\ buffer' = [buffer EXCEPT ![s] = Append(b, rec[x])]
              /\ Range(b) \cup out = Range(buffer[s])
              /\ dropped' = dropped \cup out
              /\ \A R : Sorted(buffer[s], R) => Sorted(b, R) /\ Ahead(out, Range(b), R)
        BY <1>7, <1>10, Adds DEF Added, s
    <2>2. /\ rec[x] \in Records /\ pending'[x] = <<>> /\ forwarded' = forwarded
        BY <1>0, <1>10, Holds DEF Added
    <2>3. Ahead(Range(forwarded) \cup dropped, {rec[x]}, NotAfter) /\ Ahead(Range(buffer[s]), {rec[x]}, NotAfter)
        BY <1>0, <1>8, <2>2
    <2>4. Sorted(b, NotAfter) /\ Ahead(out, Range(b), NotAfter)
        BY <1>8, <2>1
    <2>5. /\ Ahead(Range(b), {rec[x]}, NotAfter) /\ Ahead(out, {rec[x]}, NotAfter)
          /\ Ahead(Range(forwarded) \cup dropped, Range(b), NotAfter)
        BY <1>8, <2>1, <2>3 DEF Ahead
    <2>6. Sorted(Append(b, rec[x]), NotAfter) /\ Range(Append(b, rec[x])) = Range(b) \cup {rec[x]}
        BY <2>2, <2>4, <2>5, SortedAppend, RangeAppend
    <2>7. Ahead(Range(forwarded) \cup (dropped \cup out), Range(b) \cup {rec[x]}, NotAfter)
        BY <2>3, <2>4, <2>5 DEF Ahead
    <2>8. buffer'[s] = Append(b, rec[x])
        BY <1>0, <1>7, <2>1
    <2>9. Range(forwarded) \subseteq Range(forwarded) \cup d /\ dropped \cup out \subseteq dropped \cup d
        BY <1>7, <2>1
    <2>10. /\ Ahead(Range(forwarded) \cup (dropped \cup out), Range(Append(b, rec[x])), NotAfter)
           /\ Ahead(Range(forwarded), Range(<<>>), NotAfter)
           /\ Ahead(Range(<<>>), Range(Append(b, rec[x])), NotAfter)
        BY <1>0, <2>6, <2>7 DEF Ahead
    <2>. QED
        BY <1>0, <1>4, <1>9, <2>1, <2>2, <2>6, <2>8, <2>9, <2>10
<1>11. CASE Overflowed(x)
    <2>1. /\ rec[x] \in Records /\ pending'[x] = buffer[s] /\ buffer'[s] = <<rec[x]>>
          /\ forwarded' = forwarded /\ dropped' = dropped
        BY <1>0, <1>7, <1>11 DEF Overflowed, s
    <2>2. Range(<<rec[x]>>) = {rec[x]} /\ Sorted(<<rec[x]>>, NotAfter)
        BY DEF Range, Sorted
    <2>3. /\ Ahead(Range(forwarded) \cup dropped, {rec[x]}, NotAfter)
          /\ Ahead(Range(buffer[s]), {rec[x]}, NotAfter)
          /\ Ahead(Range(forwarded), Range(buffer[s]), NotAfter)
        BY <1>0, <1>8, <2>1 DEF Ahead
    <2>. QED
        BY <1>4, <1>8, <1>9, <2>1, <2>2, <2>3
<1>12. CASE Flushed(x)
    <2>1. /\ pending'[x] = buffer[s] /\ buffer'[s] = <<>>
          /\ forwarded' = forwarded /\ dropped' = dropped
        BY <1>0, <1>7, <1>12 DEF Flushed, s
    <2>2. /\ Ahead(Range(forwarded), Range(buffer[s]), NotAfter)
          /\ Ahead(Range(forwarded) \cup dropped, Range(<<>>), NotAfter)
          /\ Ahead(Range(buffer[s]), Range(<<>>), NotAfter)
        BY <1>0, <1>8 DEF Ahead
    <2>. QED
        BY <1>0, <1>4, <1>8, <1>9, <2>1, <2>2
<1>13. CASE Cleared(x)
    <2>1. /\ pending'[x] = pending[x] /\ buffer'[s] = <<>>
          /\ forwarded' = forwarded /\ dropped' = dropped \cup Range(buffer[s])
        BY <1>0, <1>7, <1>13 DEF Cleared, s
    <2>2. /\ Ahead(Range(forwarded) \cup (dropped \cup Range(buffer[s])), Range(<<>>), NotAfter)
          /\ Ahead(Range(pending[x]), Range(<<>>), NotAfter)
          /\ dropped \cup Range(buffer[s]) \subseteq dropped \cup d
        BY <1>0, <1>7 DEF Ahead
    <2>. QED
        BY <1>0, <1>4, <1>8, <1>9, <2>1, <2>2
<1>14. CASE Given(x)
    <2>. DEFINE p == Tail(pending[x])
                e == Head(pending[x])
                f == Append(forwarded, e)
    <2>1. /\ pending'[x] = p /\ buffer'[s] = buffer[s] /\ forwarded' = f /\ dropped' = dropped
          /\ pending[x] # <<>>
        BY <1>0, <1>14 DEF Given
    <2>2. /\ e \in Records /\ Range(pending[x]) = {e} \cup Range(p) /\ Range(f) = Range(forwarded) \cup {e}
        BY <1>0, <1>7, <2>1, RangeHead
    <2>3. Sorted(pending[x], NotAfter) => Sorted(p, NotAfter) /\ Ahead({e}, Range(p), NotAfter)
        BY <1>7, <2>1, SortedTail
    <2>4. Sorted(forwarded, NotAfter) /\ Ahead(Range(forwarded), {e}, NotAfter) => Sorted(f, NotAfter)
        BY <1>0, <2>2, SortedAppend
    <2>. HIDE DEF p, e, f
    <2>5. Straight => Sorted(p, NotAfter) /\ Sorted(f, NotAfter) /\ Ahead(Range(f), Range(p), NotAfter)
        <3>. SUFFICES ASSUME Straight
                      PROVE  Sorted(p, NotAfter) /\ Sorted(f, NotAfter) /\ Ahead(Range(f), Range(p), NotAfter)
            OBVIOUS
        <3>1. Ahead(Range(forwarded), {e}, NotAfter) /\ Ahead(Range(forwarded), Range(p), NotAfter)
            BY <1>8, <2>2 DEF Ahead
        <3>2. Ahead({e}, Range(p), NotAfter) /\ Sorted(p, NotAfter) /\ Sorted(f, NotAfter)
            BY <1>4, <1>8, <2>3, <2>4, <3>1
        <3>. QED
            BY <2>2, <3>1, <3>2 DEF Ahead
    <2>6. /\ Ahead(Range(f) \cup dropped, Range(buffer[s]), NotAfter)
          /\ Ahead(Range(p), Range(buffer[s]), NotAfter)
        BY <1>8, <2>2 DEF Ahead
    <2>7. Range(f) \subseteq Range(forwarded) \cup d
        BY <1>7, <2>2
    <2>. QED
        BY <1>8, <1>9, <2>1, <2>5, <2>6, <2>7
<1>16. CASE Ended(x)
    <2>1. UNCHANGED <<buffer, rec, pending, forwarded, dropped>>
        BY <1>16 DEF Ended
    <2>. QED
        BY <1>3, <2>1 DEF InTurn, Turn, TurnIn, TurnBy, Straight
<1>17. CASE Failed(x)
    <2>1. /\ pending'[x] = <<>> /\ buffer'[s] = buffer[s]
          /\ forwarded' = forwarded /\ dropped' = dropped \cup Range(pending[x])
        BY <1>0, <1>17 DEF Failed
    <2>2. /\ Ahead(Range(forwarded) \cup (dropped \cup Range(pending[x])), Range(buffer[s]), NotAfter)
          /\ Ahead(Range(<<>>), Range(buffer[s]), NotAfter) /\ Ahead(Range(forwarded), Range(<<>>), NotAfter)
          /\ dropped \cup Range(pending[x]) \subseteq dropped \cup d
        BY <1>0, <1>7, <1>8 DEF Ahead
    <2>. QED
        BY <1>0, <1>4, <1>8, <1>9, <2>1, <2>2
<1>15. CASE Closed(x)
    <2>1. UNCHANGED <<buffer, rec, pending, forwarded, dropped>>
        BY <1>15 DEF Closed
    <2>. QED
        BY <1>3, <2>1 DEF InTurn, Turn, TurnIn, TurnBy, Straight
<1>. QED
    BY <1>10, <1>11, <1>12, <1>13, <1>14, <1>15, <1>16, <1>17, MovesDo

\* So does a record of the wrapped handler: its context has none in hand, and
\* what it takes from a full buffer need only be ahead of what is held.
LEMMA TurnEchoes ==
    ASSUME Typed, Alone, Homely, HeldBack, InTurn, NEW x \in Contexts, Echoes(x)
    PROVE  InTurn'
<1>0. /\ buffer \in [States -> Seq(Records)] /\ pending \in [Contexts -> Seq(Records)]
      /\ dropped \subseteq Records /\ \A R : Sorted(<<>>, R) /\ Range(<<>>) = {}
      /\ \A f \in Seq(Records) : Range(f) \subseteq Records
    BY SortedEmpty DEF Typed, TypeOK, Range
<1>1. Stays(x) /\ UNCHANGED <<unitVars, flowVars>>
    BY EchoesDo
<1>2. PICK q \in Records : Echoed(x, q)
    BY EchoesDo
<1>3. /\ Tells(x, q) /\ pc[x] = "forward" /\ rec[x] = NoRecord
      /\ UNCHANGED <<rec, forwarded>> /\ setup.echo
    BY <1>2, Holds DEF Echoed, Tells
<1>4. PICK s \in States : /\ HomeOf(s) = current[x] /\ (current[x] # NoUnit => s = kept[current[x]])
                          /\ Takes(x, s, q) \/ (Joins(s, q) /\ pending' = pending)
    BY <1>2 DEF Echoed
<1>5. /\ \A t \in States : q \notin Range(buffer[t]) /\ \A y \in Contexts : q \notin Range(pending[y])
      /\ q \notin dropped
    <2>1. /\ \A t \in States : Range(buffer[t]) \subseteq Range(story[HomeOf(t)]) /\ HomeOf(t) \in Homes
          /\ \A y \in Contexts : Range(pending[y]) \subseteq Range(story[current[y]]) /\ current[y] \in Homes
          /\ dropped \subseteq Logged
        BY StateIsPair, Holds DEF Homely, HomeOf, Homes
    <2>2. q \notin Logged /\ \A u \in Homes : q \notin Range(story[u])
        BY <1>3, StoryGrows DEF Tells
    <2>. QED
        BY <2>1, <2>2
<1>6. \A y \in Contexts : rec'[y] \in {rec[y], q} /\ rec' = rec
    BY <1>3
\* Where each unit has one context, the state is its own.
<1>7. ASSUME ~setup.sharing
      PROVE  /\ s = mine[x] /\ pc[x] \notin Outside
             /\ \A y \in Contexts : HomeOf(s) = current[y] => rec'[y] = NoRecord
             /\ Straight => /\ Sorted(forwarded, NotAfter) /\ Sorted(pending[x], NotAfter)
                            /\ Ahead(Range(forwarded), Range(pending[x]), NotAfter)
             /\ Sorted(buffer[s], NotAfter)
             /\ Ahead(Range(forwarded) \cup dropped, Range(buffer[s]), NotAfter)
             /\ Ahead(Range(pending[x]), Range(buffer[s]), NotAfter)
             /\ Range(buffer[s]) \subseteq Range(story[current[x]])
    <2>1. pc[x] \notin Outside /\ current[x] # NoUnit /\ s = mine[x]
          /\ \A y \in Contexts : y # x => current[y] # current[x]
        BY <1>3, <1>4, <1>7, OwnState, UnitAssumption DEF Outside
    <2>2. Range(buffer[s]) \subseteq Range(story[current[x]])
        BY <1>4 DEF Homely
    <2>. QED
        BY <1>3, <1>4, <1>7, <2>1, <2>2 DEF InTurn, Turn, TurnIn, TurnBy
<1>8. CASE Joins(s, q) /\ pending' = pending
    <2>1. PICK b \in Seq(Records), out \in SUBSET Records :
              /\ buffer' = [buffer EXCEPT ![s] = Append(b, q)]
              /\ Range(b) \cup out = Range(buffer[s])
              /\ dropped' = dropped \cup out
              /\ \A R : Sorted(buffer[s], R) => Sorted(b, R) /\ Ahead(out, Range(b), R)
        BY <1>8, Adds
    <2>. DEFINE H == [buffer EXCEPT ![s] = b]
    <2>2. /\ H \in [States -> Seq(Records)] /\ H[s] = b
          /\ \A t \in States : t # s => H[t] = buffer[t]
          /\ \A t \in States : Range(H[t]) \subseteq Range(buffer[t])
        BY <1>0, <2>1
    <2>3. \A t \in States : buffer'[t] = H[t] \/ (t = s /\ buffer'[t] = Append(H[t], q))
        BY <1>0, <2>1
    <2>. HIDE DEF H
    <2>4. /\ dropped' \subseteq Records \ {q}
          /\ \A y \in Contexts : Range(pending'[y]) \subseteq Records \ {q}
        BY <1>0, <1>5, <1>8, <2>1
    <2>5. ASSUME ~setup.sharing PROVE Turn(H, pending', forwarded, dropped', rec)
        <3>1. Sorted(b, NotAfter) /\ Ahead(out, Range(b), NotAfter)
            BY <1>7, <2>1, <2>5
        <3>2. /\ Ahead(Range(forwarded) \cup dropped', Range(b), NotAfter)
              /\ Ahead(Range(pending[x]), Range(b), NotAfter)
            BY <1>7, <2>1, <2>5, <3>1 DEF Ahead
        <3>3. dropped' \subseteq dropped \cup Range(story[current[x]])
            BY <1>7, <2>1, <2>5
        <3>. QED
            BY <1>3, <1>7, <1>8, <2>2, <2>5, <3>1, <3>2, <3>3, TurnKept
    <2>. QED
        BY <1>1, <1>3, <1>6, <1>7, <2>2, <2>3, <2>4, <2>5, TurnTold
<1>9. CASE Takes(x, s, q)
    <2>. DEFINE H == [buffer EXCEPT ![s] = <<>>]
    <2>1. /\ H \in [States -> Seq(Records)] /\ H[s] = <<>>
          /\ \A t \in States : t # s => H[t] = buffer[t]
          /\ \A t \in States : Range(H[t]) \subseteq Range(buffer[t])
        BY <1>0
    <2>2. \A t \in States : buffer'[t] = H[t] \/ (t = s /\ buffer'[t] = Append(H[t], q))
        <3>1. Append(<<>>, q) = <<q>>
            OBVIOUS
        <3>. QED
            BY <1>0, <1>9, <3>1 DEF Takes
    <2>. HIDE DEF H
    <2>3. /\ dropped' = dropped /\ \A y \in Contexts : y # x => pending'[y] = pending[y]
          /\ Range(pending'[x]) = Range(buffer[s]) \cup Range(pending[x])
        BY <1>0, <1>9, RangeConcatenation DEF Takes
    <2>4. /\ dropped' \subseteq Records \ {q}
          /\ \A y \in Contexts : Range(pending'[y]) \subseteq Records \ {q}
        BY <1>0, <1>5, <2>3
    <2>5. ~Straight
        BY <1>3, <1>9 DEF Straight, Takes
    <2>6. ASSUME ~setup.sharing PROVE Turn(H, pending', forwarded, dropped', rec)
        <3>1. /\ Sorted(<<>>, NotAfter) /\ Ahead(Range(forwarded) \cup dropped', Range(<<>>), NotAfter)
              /\ Ahead(Range(pending'[x]), Range(<<>>), NotAfter)
            BY <1>0 DEF Ahead
        <3>. QED
            BY <1>3, <1>7, <2>1, <2>3, <2>5, <2>6, <3>1, TurnKept
    <2>. QED
        BY <1>1, <1>3, <1>6, <1>7, <2>1, <2>2, <2>4, <2>6, TurnTold
<1>. QED
    BY <1>4, <1>8, <1>9

\* The story is told in its order by every step.
LEMMA InTurnNext == Typed /\ Alone /\ Homely /\ HeldBack /\ InTurn /\ [Next]_vars => InTurn'
<1>. SUFFICES ASSUME Typed, Alone, Homely, HeldBack, InTurn, [Next]_vars PROVE InTurn'
    OBVIOUS
<1>1. ASSUME NEW x \in Contexts, Elsewhere(x) PROVE InTurn'
    <2>1. Passes(x)
        BY <1>1, ElsewhereDoes
    <2>2. /\ UNCHANGED <<buffer, rec, pending, forwarded, dropped, story>> /\ setup' = setup
          /\ NotAfter' = NotAfter /\ \A s \in States : HomeOf(s)' = HomeOf(s)
        BY <2>1 DEF Passes, bufferVars, NotAfter, HomeOf
    <2>3. ASSUME NEW y \in Contexts, TurnBy(y, buffer, pending, forwarded, dropped, rec)
          PROVE  TurnBy(y, buffer, pending, forwarded, dropped, rec)'
        <3>1. CASE rec[y] = NoRecord /\ pending[y] = <<>>
            BY <2>2, <2>3, <3>1, SortedEmpty, AheadBoth DEF TurnBy, Straight
        <3>2. CASE ~(rec[y] = NoRecord /\ pending[y] = <<>>)
            <4>1. pc[y] \notin {"idle", "ending"}
                BY <3>2, Holds
            <4>2. current'[y] = current[y]
                BY <2>1, <4>1 DEF Passes
            <4>. QED
                BY <2>2, <2>3, <4>2 DEF TurnBy, Straight
        <3>. QED
            BY <3>1, <3>2
    <2>4. ASSUME NEW s \in States, TurnIn(s, buffer, forwarded, dropped)
          PROVE  TurnIn(s, buffer, forwarded, dropped)'
        BY <2>2, <2>4 DEF TurnIn
    <2>. QED
        BY <2>2, <2>3, <2>4 DEF InTurn, Turn, Straight
<1>2. CASE UNCHANGED vars
    <2>1. /\ UNCHANGED <<buffer, rec, pending, forwarded, dropped, story, setup, current, pc>>
          /\ NotAfter' = NotAfter /\ \A s \in States : HomeOf(s)' = HomeOf(s)
        BY <1>2 DEF vars, unitVars, flowVars, bufferVars, NotAfter, HomeOf
    <2>. QED
        BY <2>1 DEF InTurn, Turn, TurnIn, TurnBy, Straight
<1>. QED
    BY <1>1, <1>2, TurnMoves, TurnEchoes, NextIs

-----------------------------------------------------------------------------
(* What follows from the invariants *)

\* What is written in turn is in the order of its story.
LEMMA OrderFollows == Typed /\ InTurn => InOrder
<1>. SUFFICES ASSUME Typed, InTurn, ~setup.sharing, Straight, NEW u \in Homes,
                     NEW k \in DOMAIN story[u], NEW l \in DOMAIN story[u],
                     NEW i \in DOMAIN forwarded, NEW j \in DOMAIN forwarded,
                     story[u][k] = forwarded[i], story[u][l] = forwarded[j]
              PROVE  k < l <=> i < j
    BY DEF InOrder, Straight
<1>1. /\ Sorted(forwarded, NotAfter) /\ Sorted(story[u], Distinct(Records))
      /\ forwarded \in Seq(Records) /\ story[u] \in Seq(Records)
    BY DEF InTurn, Turn, Typed, TypeOK
<1>2. i \in Nat /\ j \in Nat /\ k \in Nat /\ l \in Nat
    BY <1>1
<1>3. i < j => k < l
    BY <1>1 DEF Sorted, NotAfter
<1>4. j < i => l < k
    BY <1>1 DEF Sorted, NotAfter
<1>5. k < l => forwarded[i] # forwarded[j]
    BY <1>1 DEF Sorted, Distinct
<1>. QED
    BY <1>2, <1>3, <1>4, <1>5

\* What is dropped is ahead of what is held.
LEMMA OldestFollows == Typed /\ InTurn => OldestGoFirst
<1>. SUFFICES ASSUME Typed, InTurn, ~setup.sharing, NEW s \in UnitStates,
                     NEW i \in DOMAIN story[s[1]], NEW j \in DOMAIN story[s[1]],
                     story[s[1]][i] \in Range(buffer[s]), story[s[1]][j] \in dropped
              PROVE  j < i
    BY DEF OldestGoFirst
<1>1. s \in States /\ s[1] \in Homes
    BY StateIsPair DEF States, Homes
<1>2. TurnIn(s, buffer, forwarded, dropped)
    BY <1>1 DEF InTurn, Turn
<1>3. <<story[s[1]][j], story[s[1]][i]>> \in NotAfter
    BY <1>2 DEF TurnIn, Ahead
<1>. QED
    BY <1>1, <1>3 DEF NotAfter

\* One place is a set of one place.
LEMMA ConservedFollows == Typed /\ OnePlace => Conserved
<1>. SUFFICES ASSUME Typed, OnePlace, NEW r \in Logged PROVE Cardinality(Places(r)) = 1
    BY DEF Conserved
<1>1. r \in Records
    BY DEF Typed, TypeOK, Logged, Range
<1>2. PICK p : Places(r) = {p}
    BY <1>1, PlacedIs DEF OnePlace, Single
<1>. QED
    BY <1>2, FS_Singleton

\* A unit that is over holds nothing.
LEMMA EndFollows == HeldBack => EndedIsFlushed
  BY DEF HeldBack, EndedIsFlushed, States

-----------------------------------------------------------------------------
(* The inductive invariant, and the theorems *)

BufferInv == Typed /\ Alone /\ Homely /\ HeldBack /\ OnePlace /\ InTurn

\* It holds at first.
LEMMA BufferInit == BufferAssumption /\ Init => BufferInv
<1>1. Init => Alone
    BY AloneInit DEF Init
<1>. QED
    BY <1>1, TypedInit, HomelyInit, HeldBackInit, OnePlaceInit, InTurnInit DEF BufferInv

\* Every step keeps it.
LEMMA BufferNext == BufferInv /\ [Next]_vars => BufferInv'
  BY TypedNext, AloneNext, HomelyNext, HeldBackNext, OnePlaceNext, InTurnNext DEF BufferInv

\* The promises of the handler follow from it.
LEMMA BufferFollow ==
    BufferInv => TypeOK /\ Conserved /\ OldestGoFirst /\ InOrder /\ EndedIsFlushed
  BY ConservedFollows, OldestFollows, EndFollows, OrderFollows DEF BufferInv, Typed

\* However contexts share units and interleave, the invariant holds: no record
\* is lost, or held twice, between the buffer, the batches and the wrapped
\* handler, which may itself log, and overflow the buffer, at any point of a
\* batch; where each unit has one context, what is dropped came before what is
\* kept; and the story is written in order, but for what such an overflow sends.
THEOREM BufferInvariant == BufferAssumption /\ Spec => []BufferInv
<1>1. BufferAssumption /\ Init => BufferInv
    BY BufferInit
<1>2. BufferInv /\ [Next]_vars => BufferInv'
    BY BufferNext
<1>. QED
    BY <1>1, <1>2, PTL DEF Spec

\* So do the invariants of BufferHandler.
THEOREM BufferHolds ==
    BufferAssumption /\ Spec => [](TypeOK /\ Conserved /\ OldestGoFirst /\ InOrder /\ EndedIsFlushed)
  BY BufferInvariant, BufferFollow, PTL
=============================================================================
