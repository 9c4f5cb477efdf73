-------------------------- MODULE RedactingProcessor --------------------------
(***************************************************************************)
(* RedactingProcessor (processor/redacting_processor.py), for what is hard *)
(* in it: an exception that was logged, the exceptions it was raised from  *)
(* or while handling, and those again, in whatever way they are linked, to *)
(* be handed on with no secret anywhere a formatter may go.                *)
(*                                                                         *)
(* The walk is a stack of the errors under way, the innermost first.  What *)
(* an error becomes is the error itself ("same"), a copy with links of its *)
(* own ("copy"), or a stand-in with its redacted text and no links.        *)
(***************************************************************************)
EXTENDS Naturals, Sequences, SequencesExt, FiniteSets

CONSTANTS
    Errors,
    NoError,
    Logged,     \* the error that is logged
    Chains      \* how errors are linked, and which have a secret in text or notes

Links == {"cause", "context"}

RedactingAssumption ==
    /\ NoError \notin Errors /\ Logged \in Errors
    /\ \A c \in Chains :
           /\ c.link \in [Links -> [Errors -> Errors \cup {NoError}]]
           /\ c.secret \subseteq Errors

VARIABLES
    chain,
    walk,       \* the errors under way: each with what its links became so far
    became,     \* done: what each error seen became
    copied      \* the links of the copies

redactVars == <<chain, walk, became, copied>>

Same(e)    == [is |-> "same", of |-> e]
Copy(e)    == [is |-> "copy", of |-> e]
StandIn(e) == [is |-> "standin", of |-> e]
Nothing    == Same(NoError)
Unseen     == [is |-> "unseen", of |-> NoError]

Ahead(e) == [error |-> e, at |-> "cause", links |-> [l \in Links |-> Nothing]]

\* A slip: an error under way stands for itself.
ItselfAgain(e) == Same(e)

\* What an error is known as while it is under way.
InProgress(e) == StandIn(e)

Start(e) == /\ walk' = <<Ahead(e)>> \o walk
            /\ became' = [became EXCEPT ![e] = InProgress(e)]

Begins(c) ==
    /\ chain = c
    /\ walk = <<Ahead(Logged)>>
    /\ became = [e \in Errors |-> IF e = Logged THEN InProgress(e) ELSE Unseen]
    /\ copied = [e \in Errors |-> [l \in Links |-> Nothing]]

Init == \E c \in Chains : Begins(c)

\* The innermost error has one more link done.
Linked(f, to) == [f EXCEPT !.links[f.at] = to, !.at = IF f.at = "cause" THEN "context" ELSE "end"]

\* _redact_error() for a link: an error that was seen is what it became.
Follow ==
    /\ walk # <<>> /\ Head(walk).at \in Links
    /\ LET f == Head(walk)
           e == chain.link[f.at][f.error]
       IN  IF e # NoError /\ became[e] = Unseen
           THEN Start(e)
           ELSE /\ walk' = <<Linked(f, IF e = NoError THEN Nothing ELSE became[e])>> \o Tail(walk)
                /\ UNCHANGED became
    /\ UNCHANGED <<chain, copied>>

\* A slip: only what it was raised from is looked at.
CauseUntouched(f) ==
    f.error \notin chain.secret /\ f.links["cause"] = Same(chain.link["cause"][f.error])

\* Nothing to mask, and each link is the error it was.
Untouched(f) ==
    f.error \notin chain.secret /\ \A l \in Links : f.links[l] = Same(chain.link[l][f.error])

\* A slip: a copy has no links.
Unlinked(f) == [l \in Links |-> Nothing]

LinksOf(f) == f.links

\* It is known for what it became, and so is the link that led to it.
Finish ==
    /\ walk # <<>> /\ Head(walk).at = "end"
    /\ LET f  == Head(walk)
           to == IF Untouched(f) THEN Same(f.error) ELSE Copy(f.error)
           outer == Tail(walk)
       IN  /\ became' = [became EXCEPT ![f.error] = to]
           /\ copied' = IF Untouched(f) THEN copied ELSE [copied EXCEPT ![f.error] = LinksOf(f)]
           /\ walk' = IF outer = <<>> THEN <<>> ELSE <<Linked(Head(outer), to)>> \o Tail(outer)
    /\ UNCHANGED chain

Next == Follow \/ Finish

Spec == Init /\ [][Next]_redactVars

-----------------------------------------------------------------------------
(* Properties *)

TypeOK ==
    /\ \A i \in DOMAIN walk : walk[i].error \in Errors /\ walk[i].at \in Links \cup {"end"}
    /\ IsInjective([i \in DOMAIN walk |-> walk[i].error])
    /\ \A e \in Errors : became[e].is \in {"same", "copy", "standin", "unseen"}

\* Where a formatter gets to from something that an error became.
Beyond(x) ==
    {y \in {IF x.is = "same" THEN Same(chain.link[l][x.of]) ELSE copied[x.of][l] : l \in Links} :
        x.is # "standin" /\ y # Nothing}
Steps(xs) == xs \cup UNION {Beyond(x) : x \in xs}
\* Each step adds one at least, or there are no more.
Reached(xs) == FoldLeft(LAMBDA ys, i : Steps(ys), xs, [i \in 1 .. 3 * Cardinality(Errors) |-> i])

Written == Reached({became[Logged]})

\* The errors that were linked to the one logged.
Original == {x.of : x \in Reached({Same(Logged)})}

\* However the errors are linked, none with a secret is in what is handed on.
NoSecretLeft == walk = <<>> => \A x \in Written : x.is = "same" => x.of \notin chain.secret

\* What is handed on has an end, even if the errors go round in a loop.
ChainEnds == walk = <<>> => \A x \in Written : x \notin Reached(Beyond(x))

\* Every error is still there, as itself or under its name; and what has
\* neither secrets nor loops is handed on as it is.
NothingDropped ==
    walk = <<>> =>
        /\ {x.of : x \in Written} = Original
        /\ Original \cap chain.secret = {}
           /\ (\A e \in Original : Same(e) \notin Reached(Beyond(Same(e)))) => became[Logged] = Same(Logged)
=============================================================================
