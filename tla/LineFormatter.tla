----------------------------- MODULE LineFormatter -----------------------------
(***************************************************************************)
(* The way of a record's entries into a line of text: PlaceholderProcessor *)
(* (processor/placeholder_processor.py) fills the placeholders of its      *)
(* message, LineFormatter (formatter/line_formatter.py) the tokens of a    *)
(* format.  A text is a sequence of words, of which some look like a       *)
(* placeholder or a token; a value may bring such words in.  A line is a   *)
(* sequence of pieces, one for each token that prints something: which     *)
(* entries it prints, or which text.  The space before a token, which goes *)
(* with it, and how an entry is written are left out; so are line breaks   *)
(* and control characters.                                                 *)
(***************************************************************************)
EXTENDS Naturals, Sequences, SequencesExt, FiniteSets

CONSTANTS
    Keys,           \* keys of entries
    KeyIn,          \* the key a placeholder names, and a token such as %context.KEY%
    BagOf,          \* the bag a token is of
    Records,        \* records: message, context, extra, and the text of each entry
    Formats,        \* sequences of tokens
    Styles          \* options: ignoreEmpty, removeUsed, and the normalizer's items

Bags == {"context", "extra"}

LineAssumption ==
    /\ \A r \in Records : \A b \in Bags : IsInjective(r[b]) /\ Range(r[b]) \subseteq Keys
    /\ \A s \in Styles : s.ignoreEmpty \in BOOLEAN /\ s.removeUsed \in BOOLEAN /\ s.items \in Nat

VARIABLES
    logged,     \* the record as it was logged
    record,     \* as it is now
    format, style,
    line        \* the pieces, once it is written
lineVars == <<logged, record, format, style, line>>

Unwritten == <<[token |-> "unwritten", prints |-> {}, text |-> <<>>]>>

Begins(r, f, s) == logged = r /\ record = r /\ format = f /\ style = s /\ line = Unwritten

Init == \E r \in Records, f \in Formats, s \in Styles : Begins(r, f, s)

-----------------------------------------------------------------------------
(* PlaceholderProcessor *)

Placeholders(text) == {w \in Range(text) : w \in DOMAIN KeyIn /\ w \notin DOMAIN BagOf}
Used(r) == {KeyIn[w] : w \in Placeholders(r.message)} \cap Range(r.context)

\* One pass: what a value brings in is not looked at again.
Filled(r) ==
    FlattenSeq([i \in DOMAIN r.message |->
        LET w == r.message[i]
        IN  IF w \in Placeholders(r.message) /\ KeyIn[w] \in Used(r) THEN r.text["context"][KeyIn[w]] ELSE <<w>>])

\* A slip: what the message has after it was filled is removed.
RemovedLate(r) == IF style.removeUsed THEN Used([r EXCEPT !.message = Filled(r)]) ELSE {}

Removed(r) == IF style.removeUsed THEN Used(r) ELSE {}

Process ==
    /\ line = Unwritten /\ record = logged
    /\ record' = [logged EXCEPT !.message = Filled(logged),
                                !.context = SelectSeq(@, LAMBDA k : k \notin Removed(logged))]
    /\ UNCHANGED <<logged, format, style, line>>

-----------------------------------------------------------------------------
(* LineFormatter.format() *)

\* What the normalizer leaves of a bag: its first entries, and a note.
Normal(keys) == IF Len(keys) > style.items THEN Append(SubSeq(keys, 1, style.items), "...") ELSE keys

Keyed(token) == token \in DOMAIN BagOf

\* A slip: an entry that is printed stays in its bag.
LeftIn(bags, token) == bags

\* The entry leaves its bag.
Popped(bags, token) == [bags EXCEPT ![BagOf[token]] = SelectSeq(@, LAMBDA k : k # KeyIn[token])]

\* The pass over the format that takes the keyed entries: their texts in turn,
\* an empty one for what is not there, and what is left in the bags.
Taken ==
    FoldLeft(LAMBDA done, token :
                 IF ~Keyed(token) THEN done
                 ELSE LET found == KeyIn[token] \in Range(done.bags[BagOf[token]])
                      IN  [bags    |-> Popped(done.bags, token),
                           entries |-> Append(done.entries, IF found THEN record.text[BagOf[token]][KeyIn[token]]
                                                            ELSE <<>>)],
             [bags |-> [b \in Bags |-> Normal(record[b])], entries |-> <<>>], format)

Piece(token, prints, text) == <<[token |-> token, prints |-> prints, text |-> text]>>

\* A slip: only an entry that is printed moves the iterator on.
NextIfAny(entries) == IF entries # <<>> /\ Head(entries) = <<>> THEN entries ELSE Tail(entries)

Advanced(entries) == Tail(entries)

\* The pass that substitutes: the texts are taken in turn.
Written ==
    LET bags == Taken.bags
        Substitute(done, token) ==
            IF Keyed(token)
            THEN [pieces  |-> done.pieces \o IF Head(done.entries) = <<>> THEN <<>>
                                             ELSE Piece(token, {KeyIn[token]}, Head(done.entries)),
                  entries |-> Advanced(done.entries)]
            ELSE [done EXCEPT !.pieces = @ \o
                      IF token = "message" THEN Piece(token, {}, record.message)
                      ELSE IF style.ignoreEmpty /\ bags[token] = <<>> THEN <<>>
                      ELSE Piece(token, Range(bags[token]), <<>>)]
    IN  FoldLeft(Substitute, [pieces |-> <<>>, entries |-> Taken.entries], format).pieces

Format ==
    /\ line = Unwritten
    /\ line' = Written
    /\ UNCHANGED <<logged, record, format, style>>

Next == Process \/ Format

Spec == Init /\ [][Next]_lineVars

-----------------------------------------------------------------------------
(* Properties *)

TypeOK == \A i \in DOMAIN line : line[i].prints \subseteq Keys \cup {"..."} /\ (logged.extra = record.extra)

Ended == line # Unwritten
PiecesOf(token) == {i \in DOMAIN line : line[i].token = token}
Prints(bag, k) == {i \in DOMAIN line : k \in line[i].prints /\
                      (line[i].token = bag \/ (Keyed(line[i].token) /\ BagOf[line[i].token] = bag))}
Named(bag, k) == \E i \in DOMAIN format : Keyed(format[i]) /\ BagOf[format[i]] = bag /\ KeyIn[format[i]] = k

\* Each token prints its own entry: the texts taken in the first pass and the
\* tokens met in the second do not part, whatever is missing or empty.
OwnEntry ==
    Ended => \A i \in DOMAIN line : Keyed(line[i].token) =>
                 line[i].text = logged.text[BagOf[line[i].token]][KeyIn[line[i].token]]

\* An entry is printed by its token or in its bag, not by both, and not again
\* where it is named twice; one that the format has a place for is printed, or
\* is beyond what a bag holds.
PrintedOnce ==
    Ended => \A b \in Bags : \A k \in Range(record[b]) :
        LET place == Prints(b, k)
        IN  /\ Named(b, k) => Cardinality(place) <= 1 /\ (\A i \in place : line[i].token # b)
            /\ b \in Range(format) /\ record.text[b][k] # <<>> =>
                   place # {} \/ \E i \in PiecesOf(b) : "..." \in line[i].prints

\* Filling a message takes no entry but what the message named as it was
\* logged, and takes it only if it is in the message now.
TakenForText ==
    \A k \in Range(logged.context) \ Range(record.context) :
        /\ \E i \in DOMAIN logged.message : logged.message[i] \in DOMAIN KeyIn /\ KeyIn[logged.message[i]] = k
        /\ Range(logged.text["context"][k]) \subseteq Range(record.message)
=============================================================================
