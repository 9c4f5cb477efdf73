------------------------------ MODULE Normalizer ------------------------------
(***************************************************************************)
(* What a logged value becomes before it is written: RedactingProcessor    *)
(* (processor/redacting_processor.py) masks secrets in it, Normalizer      *)
(* (formatter/normalizer.py) reduces it to plain data.  A value is a graph *)
(* of nodes, in which parts may be shared and, unless it is redacted, may  *)
(* contain themselves.  What is written is a set of lines, a text for each *)
(* path: the data JSON holds, without the order of its entries.            *)
(*                                                                         *)
(* A text is the nodes it tells of, or a note.  The keys of a node are:    *)
(*   "name"      a key of no interest       "password"  one `keys` matches *)
(*   "4711", "4712"  `values` match these   "one"       the number 1,      *)
(* which is written as "1", as the key "1" is.  Items have positions, "0", *)
(* "1" and so on, for keys; the part of an error is the one before it.     *)
(* The kinds of a node: "secret" is a text `values` matches, whether of a  *)
(* string or of any other object; the value of a "secret enum" is one,     *)
(* unlike its name; "reduced" is the {class: fields} of a dataclass.       *)
(***************************************************************************)
EXTENDS Naturals, Sequences, SequencesExt, FiniteSets, TLC

CONSTANTS
    Nodes,
    Root,       \* the record's context
    Mask,       \* the node that masked values become
    Values,     \* graphs: the kind of each node, and its parts in their order
    Limits      \* options of a Normalizer: max_depth, max_items and the style

Kinds == {"text", "secret", "masked", "secret enum", "mapping", "items", "dataclass", "reduced",
          "error", "secret error", "masked error"}
Collections == {"mapping", "items", "dataclass"}
Errors == {"error", "secret error", "masked error"}

NormalizerAssumption ==
    /\ Root \in Nodes /\ Mask \in Nodes
    /\ \A v \in Values :
           /\ v.kind \in [Nodes -> Kinds] /\ v.kind[Mask] = "masked"
           /\ \A n \in Nodes : \A i \in DOMAIN v.parts[n] : v.parts[n][i].node \in Nodes
    /\ \A l \in Limits : l.depth \in Nat /\ l.items \in Nat /\ l.style \in {"json", "line"}

VARIABLES
    logged,     \* the value as the caller has it
    value,      \* as it is now
    limits,
    lines       \* what is written of it, none yet

normalizerVars == <<logged, value, limits, lines>>

TextOf(key) == IF key = "one" THEN "1" ELSE key

Under(key, ls) == {[path |-> <<key>> \o l.path, text |-> l.text] : l \in ls}
Alone(text) == {[path |-> <<>>, text |-> text]}

-----------------------------------------------------------------------------
(* Normalizer *)

\* previous_error(): what an error was raised from, or while handling.
Previous(v, e) == IF v.parts[e] = <<>> THEN {} ELSE {v.parts[e][1].node}

\* A slip: the chain is followed wherever it leads.
ToldAgain(chain, next, o) == TRUE

Untold(chain, next, o) == next \notin Range(chain) /\ Len(chain) < o.depth

\* _LineNormalizer tells an error and its chain as one text.
Told(v, e, o) ==
    FoldLeft(LAMBDA chain, i :
                 IF \E p \in Previous(v, Last(chain)) : Untold(chain, p, o)
                 THEN Append(chain, CHOOSE p \in Previous(v, Last(chain)) : TRUE) ELSE chain,
             <<e>>, [i \in 1 .. o.depth + Cardinality(Nodes) |-> i])

Text(v, n) == IF v.kind[n] \in {"masked", "masked error"} THEN Mask ELSE n
Chain(v, e, o) == LET told == Told(v, e, o) IN [i \in DOMAIN told |-> Text(v, told[i])]

\* A slip: a note takes the place of the last item.
OneLess(v, n, o) == IF Len(v.parts[n]) > o.items THEN o.items - 1 ELSE Len(v.parts[n])

\* How many parts of a collection are rendered.
Rendered(v, n, o) == IF Len(v.parts[n]) > o.items THEN o.items ELSE Len(v.parts[n])

\* A slip: one level less.
AtLimit(depth, o) == depth >= o.depth

TooDeep(depth, o) == depth > o.depth

\* _normalize(), by the depth it is called at.  Of two keys with the same text
\* the later has the entry.
Normalized(v, o) ==
    LET at[d \in 0 .. o.depth + 1, n \in Nodes] ==
            LET parts == v.parts[n]
                first == Rendered(v, n, o)
                Entries(depth) == UNION
                    {Under(TextOf(parts[i].key), at[depth + 1, parts[i].node]) :
                        i \in {j \in 1 .. first : \A k \in j + 1 .. first :
                                    TextOf(parts[k].key) # TextOf(parts[j].key)}}
                Over == IF Len(parts) > o.items THEN Under("...", Alone(<<"over">>)) ELSE {}
                Collection(depth) ==
                    IF TooDeep(depth, o) THEN Alone(<<"cut">>)
                    ELSE IF parts = <<>> THEN Alone(<<"empty">>) ELSE Entries(depth) \cup Over
            IN  CASE TooDeep(d, o) -> Alone(<<"cut">>)
                  [] v.kind[n] \in {"mapping", "items"} -> Collection(d)
                  [] v.kind[n] = "dataclass" -> Under("class", Collection(d))
                  [] v.kind[n] = "reduced" -> Under("class", Collection(d + 1))
                  [] v.kind[n] \in Errors /\ o.style = "line" -> Alone(Chain(v, n, o))
                  [] v.kind[n] \in Errors /\ o.style = "json" ->
                         Under("message", Alone(<<Text(v, n)>>))
                         \cup UNION {Under("previous", at[d + 1, p]) : p \in Previous(v, n)}
                  [] OTHER -> Alone(<<Text(v, n)>>)
    IN  at[0, Root]

-----------------------------------------------------------------------------
(* RedactingProcessor *)

KeyMatches(key) == key = "password"

\* A slip: what is an entry's name is left as it is.
KeyAsItIs(key) == key

RedactedKey(key) == IF key \in {"4711", "4712"} THEN "[redacted]" ELSE key

\* A mapping of entries that may have the same key: the first one's place, the
\* last one's value.
Dict(entries) ==
    LET Alike(i) == {j \in DOMAIN entries : entries[j].key = entries[i].key}
        firsts == SelectSeq([i \in DOMAIN entries |-> i], LAMBDA i : \A j \in Alike(i) : i <= j)
    IN  [k \in DOMAIN firsts |->
            entries[CHOOSE i \in Alike(firsts[k]) : \A j \in Alike(firsts[k]) : j <= i]]

\* _redact_item()
RedactedEntry(p) ==
    [key |-> RedactedKey(p.key), node |-> IF KeyMatches(p.key) THEN Mask ELSE p.node]

RedactedParts(v, n) ==
    IF v.kind[n] \in {"mapping", "dataclass"}
    THEN Dict([i \in DOMAIN v.parts[n] |-> RedactedEntry(v.parts[n][i])])
    ELSE v.parts[n]

\* _redact_value(): an enum is looked at by its name.
RedactedKind(kind) ==
    CASE kind = "secret"       -> "masked"
      [] kind = "secret error" -> "masked error"
      [] kind = "dataclass"    -> "reduced"
      [] OTHER                 -> kind

Redacted(v) == [kind  |-> [n \in Nodes |-> RedactedKind(v.kind[n])],
                parts |-> [n \in Nodes |-> RedactedParts(v, n)]]

-----------------------------------------------------------------------------
\* What a node is made of, and what that is made of.
Parts(v, n) == {v.parts[n][i].node : i \in DOMAIN v.parts[n]}
Within(v, ns) ==
    FoldLeft(LAMBDA ms, i : ms \cup UNION {Parts(v, m) : m \in ms}, ns, [i \in 1 .. Cardinality(Nodes) |-> i])
Contents(v) == Within(v, {Root})
Ends(v) == \A n \in Contents(v) : n \notin Within(v, Parts(v, n))

Begins(v, o) == logged = v /\ value = v /\ limits = o /\ lines = {}

Init == \E v \in Values, o \in Limits : Begins(v, o)

\* A value that contains itself would be walked without end.
Redact ==
    /\ lines = {} /\ value = logged /\ Ends(logged)
    /\ value' = Redacted(logged)
    /\ UNCHANGED <<logged, limits, lines>>

Normalize ==
    /\ lines = {}
    /\ lines' = Normalized(value, limits)
    /\ UNCHANGED <<logged, value, limits>>

Next == Redact \/ Normalize

Spec == Init /\ [][Next]_normalizerVars
-----------------------------------------------------------------------------
(* Properties *)

Notes == {<<"cut">>, <<"over">>, <<"empty">>}

TypeOK ==
    /\ value \in {logged, Redacted(logged)} /\ limits \in Limits
    /\ \A l \in lines : l.text \in Notes \/ Range(l.text) \subseteq Nodes

\* What a reader of the record must not see, and how it reads instead.
Instead == "4711" :> "[redacted]" @@ "4712" :> "[redacted]" @@ "one" :> "1"
Read(key) == IF key \in DOMAIN Instead THEN Instead[key] ELSE key
HasSecret(n) == logged.kind[n] \in {"secret", "secret error"}

\* Two keys become one, and the later has the entry.
Clash ==
    \E n \in Contents(logged) : ~IsInjective([i \in DOMAIN logged.parts[n] |-> Read(logged.parts[n][i].key)])

\* What masking does not keep: an enum with a secret is looked at by its name,
\* a dataclass is a level deeper when it is reduced, and may be cut.
Exempt ==
    \E n \in Contents(logged) :
        \/ logged.kind[n] = "secret enum"
        \/ logged.kind[n] = "dataclass" /\ \E l \in lines : l.text = <<"cut">>

\* A line with its secrets masked: all that is under a key that says so, each
\* text with a secret, and the keys that are one.
Masked(l) ==
    LET under == {i \in DOMAIN l.path : l.path[i] = "password"}
        first == CHOOSE i \in under : \A j \in under : i <= j
        whole == under # {} /\ ~(first = Len(l.path) /\ l.text = <<"cut">>)
        path  == IF whole THEN SubSeq(l.path, 1, first) ELSE l.path
    IN  [path |-> [i \in DOMAIN path |-> Read(path[i])],
         text |-> IF whole THEN <<Mask>>
                  ELSE IF l.text \in Notes THEN l.text
                  ELSE [i \in DOMAIN l.text |-> IF HasSecret(l.text[i]) THEN Mask ELSE l.text[i]]]

\* What is written of a redacted value is what is written of the value, masked:
\* no secret is left anywhere, and nothing else is lost or moved.
MaskedAndWhole ==
    value # logged /\ lines # {} /\ ~Clash /\ ~Exempt =>
        lines = {Masked(l) : l \in Normalized(logged, limits)}

\* A limit cuts short and changes nothing else: with more room the same is
\* written where there is no note, and more where there is one.
Wider(o) == o.style = limits.style /\ o.depth >= limits.depth /\ o.items >= limits.items
CutShort ==
    lines # {} /\ ~Clash => \A o \in {p \in Limits : Wider(p)} :
        LET all == Normalized(value, o)
        IN  \A l \in lines :
                IF l.text \in {<<"cut">>, <<"over">>}
                THEN \E m \in all : LET stem == IF l.text = <<"over">> THEN Front(l.path) ELSE l.path
                                    IN  IsPrefix(stem, m.path) /\ (m \notin lines \/ m = l)
                ELSE \E m \in all : m.path = l.path /\ IsPrefix(l.text, m.text)

\* What is so many steps from the root, by the parts that are rendered.
Level[k \in Nat] ==
    IF k = 0 THEN {Root}
    ELSE UNION {{logged.parts[n][i].node : i \in DOMAIN logged.parts[n] \cap 1 .. limits.items} :
                n \in Level[k - 1]}

\* However a value contains itself, what is written of it is what is no deeper
\* than max_depth, and a note says so where there is more.
AsDeepAsTold ==
    value = logged /\ lines # {} /\ limits.style = "json" /\ ~Clash =>
        LET within == UNION {Level[k] : k \in 0 .. limits.depth}
        IN  /\ UNION {Range(l.text) : l \in {m \in lines : m.text \notin Notes}} =
                  {n \in within : logged.kind[n] \notin Collections}
            /\ (\E l \in lines : l.text = <<"cut">>) = (Level[limits.depth + 1] # {})
            /\ (\E l \in lines : l.text = <<"over">>) =
                  (\E n \in within : Len(logged.parts[n]) > limits.items)

\* On a line each error of a chain is told once, in its order, to the limit.
ToldOnce ==
    \A l \in lines : l.text \notin Notes /\ Mask \notin Range(l.text) =>
        IsInjective(l.text) /\ (Len(l.text) = 1 \/ Len(l.text) <= limits.depth)
=============================================================================
