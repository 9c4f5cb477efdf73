-------------------------------- MODULE MCText --------------------------------
(***************************************************************************)
(* What Normalizer, LineFormatter and SyslogHandler are given by MCPieces. *)
(***************************************************************************)
EXTENDS Naturals, Sequences, FiniteSets, TLC

VARIABLES
    whole, value, limits, told,
    entry, record, format, style, line

-----------------------------------------------------------------------------
(* Normalizer: the context of a record and two nodes, of which one may     *)
(* contain the other, itself or the context, and what they contain.        *)
Part(k, n) == [key |-> k, node |-> n]
Node(k, ps) == [kind |-> k, parts |-> ps]

RootParts ==
    {<<Part("name", "n2")>>,
     <<Part("password", "n2"), Part("name", "n3")>>,
     <<Part("name", "n2"), Part("password", "n2")>>,
     <<Part("4711", "n2"), Part("4712", "n3")>>,
     <<Part("4711", "n3"), Part("name", "n2")>>,
     <<Part("one", "n2"), Part("1", "n3")>>,
     <<Part("name", "n2"), Part("1", "n3")>>}

Inner == {"n1", "n2", "n3"}
SomeItems == {<<>>} \cup {<<Part("0", n)>> : n \in Inner}
                    \cup {<<Part("0", p[1]), Part("1", p[2])>> : p \in Inner \X Inner}
SomeEntries ==
    {<<Part(p[1], p[2])>> : p \in {"name", "password", "4711"} \X Inner}
    \cup {<<Part("name", p[1]), Part("password", p[2])>> : p \in Inner \X Inner}
SomeFields ==
    {<<Part("name", "n3")>>, <<Part("password", "n3")>>, <<Part("name", "n2")>>,
     <<Part("password", "n3"), Part("name", "n3")>>}

Second ==
    {Node(k, <<>>) : k \in {"text", "secret", "secret enum"}}
    \cup {Node("items", ps) : ps \in SomeItems}
    \cup {Node("mapping", ps) : ps \in SomeEntries}
    \cup {Node("dataclass", ps) : ps \in SomeFields}
    \cup {Node(p[1], p[2]) : p \in {"error", "secret error"} \X
             {<<>>, <<Part("previous", "n3")>>, <<Part("previous", "n2")>>}}
Third ==
    {Node(k, <<>>) : k \in {"text", "secret", "items", "error"}}
    \cup {Node("items", <<Part("0", "n1")>>), Node("mapping", <<Part("password", "n2")>>),
          Node("secret error", <<Part("previous", "n2")>>)}

\* What an error was raised from is an error.
IsError(n) == n.kind \in {"error", "secret error"}
Linked(second, third) ==
    /\ IsError(second) /\ second.parts = <<Part("previous", "n3")>> => IsError(third)
    /\ IsError(third) /\ third.parts # <<>> => IsError(second)

Graph(root, second, third) ==
    [kind  |-> "n1" :> "mapping" @@ "n2" :> second.kind @@ "n3" :> third.kind @@ "mask" :> "masked",
     parts |-> "n1" :> root @@ "n2" :> second.parts @@ "n3" :> third.parts @@ "mask" :> <<>>]
AllValues ==
    {Graph(v[1], v[2], v[3]) : v \in {w \in RootParts \X Second \X Third : Linked(w[2], w[3])}}

Limit(d, i, s) == [depth |-> d, items |-> i, style |-> s]
AllLimits == {Limit(l[1], l[2], l[3]) : l \in {0, 1, 3} \X {1, 2} \X {"json", "line"}}

No == INSTANCE Normalizer WITH
    Nodes <- Inner \cup {"mask"}, Root <- "n1", Mask <- "mask", Values <- AllValues, Limits <- AllLimits,
    logged <- whole, lines <- told

-----------------------------------------------------------------------------
(* LineFormatter: a value may be empty, or bring in what looks like a      *)
(* placeholder or a token; a format may name an entry twice.               *)
EntryOf == "{a}" :> "a" @@ "{b}" :> "b"
           @@ "%context.a%" :> "a" @@ "%context.b%" :> "b" @@ "%extra.a%" :> "a"
BagOfToken == "%context.a%" :> "context" @@ "%context.b%" :> "context" @@ "%extra.a%" :> "extra"

SomeRecords ==
    {[message |-> r[1], context |-> r[2], extra |-> <<"a">>,
      text |-> [context |-> "a" :> r[3] @@ "b" :> <<"two">>, extra |-> "a" :> <<"three">>]] :
        r \in {<<"word">>, <<"{b}", "{a}">>, <<"{a}", "%context.b%">>}
              \X {<<"a">>, <<"a", "b">>, <<"b", "a">>}
              \X {<<>>, <<"{b}">>, <<"%context.b%">>}}

SomeFormats ==
    {<<"message">> \o f : f \in
        {<<x, y>> : x, y \in {"context", "extra", "%context.a%", "%context.b%", "%extra.a%"}}
        \cup {<<"%context.b%", "%context.a%", "context">>, <<"%context.a%", "%context.b%", "%extra.a%">>,
              <<"context", "%context.a%", "%context.a%">>}}

Written(i, u, n) == [ignoreEmpty |-> i, removeUsed |-> u, items |-> n]
SomeStyles == {Written(TRUE, TRUE, 2), Written(FALSE, FALSE, 2), Written(TRUE, FALSE, 1), Written(FALSE, TRUE, 1)}

Li == INSTANCE LineFormatter WITH
    Keys <- {"a", "b"}, KeyIn <- EntryOf, BagOf <- BagOfToken,
    Records <- SomeRecords, Formats <- SomeFormats, Styles <- SomeStyles, logged <- entry

-----------------------------------------------------------------------------
(* SyslogHandler: one thread that logs and closes; two that log; one that  *)
(* logs while another closes.                                              *)
Alone(k) ==
    [kind |-> k, loggers |-> {"s1"}, closers |-> {"s1"}, records |-> 3, closes |-> 2, outages |-> 2]
SomeServices ==
    UNION {{Alone(k),
            [Alone(k) EXCEPT !.loggers = {"s1", "s2"}, !.closes = 0],
            [Alone(k) EXCEPT !.closers = {"s2"}, !.outages = 1]} :
               k \in {"udp", "tcp", "unix"}}
=============================================================================
