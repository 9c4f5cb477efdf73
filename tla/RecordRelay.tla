---------------------------- MODULE RecordRelay ----------------------------
(***************************************************************************)
(* What a QueueHandler promises to those who use it, with no thread, lock  *)
(* or stop marker in sight.  Records are accepted, handed to the wrapped   *)
(* handler one at a time in the order they were accepted, each exactly     *)
(* once; and a caller that asks for the backlog to be cleared is answered  *)
(* only when everything accepted before it asked has been handed over.     *)
(***************************************************************************)
EXTENDS Sequences, SequencesExt

CONSTANTS
    Records,    \* the records that may be logged
    Callers     \* those who flush, reset or close

VARIABLES
    backlog,    \* accepted, not yet taken, oldest first
    busy,       \* what the wrapped handler is handling: at most one record
    handed,     \* handed over, in the order the wrapped handler finished
    asking,     \* the callers waiting for an answer
    due         \* due[c]: what must be handed over before c is answered

relayVars == <<backlog, busy, handed, asking, due>>

Init ==
    /\ backlog = <<>>
    /\ busy = {}
    /\ handed = <<>>
    /\ asking = {}
    /\ due = [c \in Callers |-> {}]

\* A record is logged: it joins the end of the backlog, once in its life.
Accept(r) ==
    /\ r \notin Range(backlog) \cup busy \cup Range(handed)
    /\ backlog' = Append(backlog, r)
    /\ UNCHANGED <<busy, handed, asking, due>>

\* The oldest record goes to the wrapped handler, which must be free.
Take ==
    /\ busy = {}
    /\ backlog # <<>>
    /\ busy' = {Head(backlog)}
    /\ backlog' = Tail(backlog)
    /\ UNCHANGED <<handed, asking, due>>

\* The wrapped handler is done with a record, whether it raised or not.
Done ==
    \E r \in busy :
        /\ busy' = busy \ {r}
        /\ handed' = Append(handed, r)
        /\ UNCHANGED <<backlog, asking, due>>

Ask(c) ==
    /\ c \notin asking
    /\ asking' = asking \cup {c}
    /\ due' = [due EXCEPT ![c] = Range(backlog) \cup busy]
    /\ UNCHANGED <<backlog, busy, handed>>

Answer(c) ==
    /\ c \in asking
    /\ due[c] \subseteq Range(handed)
    /\ asking' = asking \ {c}
    /\ UNCHANGED <<backlog, busy, handed, due>>

Next ==
    \/ \E r \in Records : Accept(r)
    \/ Take
    \/ Done
    \/ \E c \in Callers : Ask(c) \/ Answer(c)

Spec == Init /\ [][Next]_relayVars

\* The relay does not sit on a backlog, and does not leave a caller waiting
\* for what has been handed over.
FairSpec ==
    /\ Spec
    /\ WF_relayVars(Take)
    /\ WF_relayVars(Done)
    /\ \A c \in Callers : WF_relayVars(Answer(c))
=============================================================================
