------------------------------ MODULE MCUnits ------------------------------
(***************************************************************************)
(* The owners of state in units of work: a behaviour is one of             *)
(* FingersCrossedHandler, BufferHandler or UidProcessor, the `owner`.  The *)
(* variables of LogUnit are those of the owner; what the others have       *)
(* besides stays as it is.  B and U are instances of the modules with the  *)
(* proofs, for UnitsProofs to combine what is proved of each.              *)
(***************************************************************************)
EXTENDS MCFingersCrossed

CONSTANTS b1, b2, b3, b4, b5     \* the records of the buffers, which nothing tells apart

VARIABLES owner, closing, uid, minted, era, stamped

BufferSymmetry == Symmetry \cup Permutations({b1, b2, b3}) \cup Permutations({b4, b5})

\* Units of their own, the oldest record dropped, a wrapped handler that fails.
SoloBuffer == [sharing |-> FALSE, units |-> 2, records |-> {b1, b2, b3},
               limit |-> 2, flush |-> FALSE, faulty |-> TRUE, echo |-> FALSE]
\* A unit in two contexts, overflow that flushes, a wrapped handler that logs.
SharedBuffer == [sharing |-> TRUE, units |-> 1, records |-> {b1, b2, b3},
                 limit |-> 1, flush |-> TRUE, faulty |-> FALSE, echo |-> TRUE]
\* A wrapped handler that logs, and fails, in a unit: what it logs pushes the
\* oldest out; or is taken, in the middle of a batch, with what is held.
PushingEcho == [sharing |-> FALSE, units |-> 1, records |-> {b1, b2, b3},
                limit |-> 1, flush |-> FALSE, faulty |-> TRUE, echo |-> TRUE]
NestedEcho  == [sharing |-> FALSE, units |-> 1, records |-> {b1, b2, b3, b4, b5},
                limit |-> 2, flush |-> TRUE, faulty |-> TRUE, echo |-> TRUE]
AllBuffers == {SoloBuffer, SharedBuffer, PushingEcho, NestedEcho}

B == INSTANCE BufferProofs WITH Setups <- AllBuffers

\* Units of their own; a unit in two contexts, and what is logged outside it.
BothUids == {[sharing |-> FALSE, units |-> 2, resets |-> 1],
             [sharing |-> TRUE, units |-> 1, resets |-> 1]}

U == INSTANCE UidProofs WITH Setups <- BothUids

ASSUME UnitsAssumption == B!BufferAssumption /\ U!UidAssumption

Crossed == owner = "crossed"
Buffer  == owner = "buffer"
Uid     == owner = "uid"

NoRecords ==
    /\ buffer = [s \in States |-> <<>>] /\ buffering = [s \in States |-> TRUE]
    /\ rec = [x \in Contexts |-> NoRecord] /\ pending = [x \in Contexts |-> <<>>]
    /\ forwarded = <<>> /\ dropped = {} /\ story = [u \in Homes |-> <<>>] /\ activated = {}
NoUids ==
    uid = [s \in States |-> 0] /\ minted = 0 /\ era = [u \in Homes |-> 0] /\ stamped = {}

UnitsInit ==
    \/ Crossed /\ Init /\ closing = [x \in Contexts |-> FALSE] /\ NoUids
    \/ Buffer /\ B!Init /\ buffering = [s \in States |-> TRUE] /\ activated = {} /\ NoUids
    \/ Uid /\ U!Init /\ NoRecords /\ closing = [x \in Contexts |-> FALSE]

UnitsNext ==
    \/ Crossed /\ Next /\ UNCHANGED <<owner, closing, uid, minted, era, stamped>>
    \/ Buffer /\ B!Next /\ UNCHANGED <<owner, buffering, activated, uid, minted, era, stamped>>
    \/ Uid /\ U!Next /\ UNCHANGED <<owner, crossedVars, closing>>

UnitsSpec == UnitsInit /\ [][UnitsNext]_<<owner, vars, closing, U!uidVars>>

-----------------------------------------------------------------------------
\* What holds of each: see the modules.
UnitsTypeOK == (Crossed /\ TypeOK) \/ (Buffer /\ B!TypeOK) \/ (Uid /\ U!TypeOK)

NothingLost   == (Crossed => Conserved) /\ (Buffer => B!Conserved)

\* A unit's records are written in their order, but for an overflow in the middle
\* of a batch, and its oldest are dropped first.
OrderIsKept == (Crossed => InOrder) /\ (Buffer => B!InOrder /\ B!OldestGoFirst)

\* Neither the end of a unit nor a release leaves anything in its buffer.
NothingIsLeft == (Crossed => EndedIsFlushed /\ ReleasedIsEmpty) /\ (Buffer => B!EndedIsFlushed)

\* An alarm is written when handle() returns, and releases its own unit alone.
AlarmsRelease == Crossed => AlarmsArrive /\ SilentUnlessActivated

\* The records of a unit share an id until reset(), and share it with no other.
TiedTogether == Uid => U!TiedTogether
=============================================================================
